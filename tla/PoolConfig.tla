----------------------------- MODULE PoolConfig -----------------------------
(***************************************************************************)
(* What "pool add" makes of a pool's configuration before it calls Batch:  *)
(* which configurations it accepts, how it adjusts them, which files it    *)
(* uploads for the start task, which options it puts on the start task's   *)
(* command line and which environment it gives it (convoy/fleet.py and     *)
(* convoy/settings.py).  Everything here is a function of the              *)
(* configuration; NodePrep is the other end of the same command line.      *)
(*                                                                         *)
(* A configuration is a record                                             *)
(*   image      the kind of virtual machine image                          *)
(*   vm         the kind of VM size: what hardware the nodes have          *)
(*   on         the set of options the user switched on                    *)
(*   dedicated, lowpri   the node counts                                   *)
(***************************************************************************)
EXTENDS Integers, FiniteSets

PlatformImages == {"ubuntu16", "ubuntu18", "debian9", "debian10", "centos",
                   "centoshpc", "centoscontainer", "centoscontainerrdma",
                   "ubuntucontainer", "ubuntucontainerrdma", "windows",
                   "unlisted"}
CustomImages == {"custom", "customubuntu", "customnative"}
VmSizes == {"plain", "gpu", "nd", "ndgpu", "sriov"}
Options == {"native", "azurefile", "azureblob", "gluster", "gluster2",
            "storage", "storageoptions", "onedomain", "fstab", "auto", "exporter",
            "cadvisor", "insights", "appkeys", "hpn", "timing", "container",
            "delay", "block", "images", "singularityimages", "imagecerts",
            "transfer", "internode", "autoscale", "manytasks", "autoscratch",
            "singularity", "kata", "recover", "reboot", "encrypt", "vnet",
            "smallsubnet", "publicips", "unnamedips", "aad", "ssh", "driver"}
Configs == [image : PlatformImages \cup CustomImages, vm : VmSizes,
            on : SUBSET Options, dedicated : Nat, lowpri : Nat]

On(c, option) == option \in c.on
Opt(condition, x) == IF condition THEN {x} ELSE {}

----------------------------------------------------------------------------
(* Reading the configuration *)

Rdma(c) == c.vm \in {"nd", "ndgpu", "sriov"}
NetworkDirect(c) == c.vm \in {"nd", "ndgpu"}
Gpu(c) == c.vm \in {"gpu", "ndgpu"}

Custom(c) == c.image \in CustomImages
Windows(c) == c.image = "windows"

\* The image the pool is given; the checks below still see the one configured.
\* "native: true" turns Ubuntu 16.04 and CentOS into their container images; it
\* does nothing to the other images.
VmConfiguration(c) ==
  [c EXCEPT !.image =
     CASE On(c, "native") /\ @ = "ubuntu16" /\ Rdma(c) -> "ubuntucontainerrdma"
       [] On(c, "native") /\ @ = "ubuntu16" /\ ~Rdma(c) -> "ubuntucontainer"
       [] On(c, "native") /\ @ \in {"centos", "centoshpc"} /\ Rdma(c) -> "centoscontainerrdma"
       [] On(c, "native") /\ @ \in {"centos", "centoshpc"} /\ ~Rdma(c) -> "centoscontainer"
       [] OTHER -> @]

BatchImages == {"centoscontainer", "centoscontainerrdma", "ubuntucontainer",
                "ubuntucontainerrdma"}
Native(c) == c.image \in BatchImages \cup {"windows", "customnative"}

GpuAllowed(c) ==
  Gpu(c) => c.image \in BatchImages \cup CustomImages
                          \cup {"ubuntu16", "ubuntu18", "centos", "centoshpc"}

\* The Linux integration services go on CentOS nodes with a GPU.
LisRequired(c) == Gpu(c) /\ c.image = "centos"

\* Are the images replicated by cascade, from the list in storage?
Delayed(c) == Native(c) /\ On(c, "delay") /\ ~Windows(c)
Cascades(c) == ~Native(c) \/ Delayed(c)

----------------------------------------------------------------------------
(* _adjust_settings_for_pool_creation *)

GlusterAllowed(c) ==
  /\ ~Windows(c) /\ ~On(c, "autoscale") /\ On(c, "internode")
  /\ c.lowpri = 0 /\ c.dedicated > 1 /\ ~On(c, "manytasks")

\* c is as the user wrote it; only Native looks at the image it is turned into.
Accepts(c) ==
  /\ Custom(c) \/ (c.image # "unlisted" /\ GpuAllowed(c))
  /\ c.image \in {"centoshpc", "centoscontainerrdma", "ubuntucontainerrdma"} => Rdma(c)
  /\ On(c, "singularityimages") =>
       /\ ~Native(VmConfiguration(c))
       /\ On(c, "imagecerts") => c.image \notin {"ubuntu16", "debian9"}
  /\ On(c, "internode") => c.dedicated = 0 \/ c.lowpri = 0
  /\ On(c, "gluster") => GlusterAllowed(c) /\ ~On(c, "gluster2")
  /\ Windows(c) => c.on \cap {"storage", "azureblob", "fstab", "autoscratch", "transfer",
                              "exporter", "cadvisor", "kata"} = {}
  /\ On(c, "autoscratch") => On(c, "internode")
  /\ On(c, "kata") =>
       /\ c.image \in BatchImages \cup {"ubuntu16", "ubuntu18", "centos", "centoshpc"}
       /\ c.vm = "plain"   \* the sizes that can nest virtual machines

\* The settings it changes on the way: cascade in a container unless the image
\* is an Ubuntu that can run it on the host, no HPN-SSH but on Ubuntu, no waiting
\* for images when files are transferred, no recovery of custom images.
Adjusted(c) ==
  [c EXCEPT !.on =
     (@ \ (   Opt(c.image \notin {"ubuntu16", "ubuntu18"}, "hpn")
         \cup Opt(On(c, "transfer"), "block")
         \cup Opt(Custom(c), "recover")))
     \cup Opt(c.image \notin {"ubuntu16", "ubuntu18", "customubuntu"}, "container")]

----------------------------------------------------------------------------
(* _construct_pool_object, in its order *)

\* What the mounts, networks, packages and credentials it looks up must be.

\* Of the options that may not be given for the mount of a storage cluster, "auto" is
\* looked for in the default ones, where "noauto" holds it: any option given raises.
MountOptionsAllowed(c) == ~On(c, "storageoptions")

\* A glusterfs mount names a second server, of another update domain than the first
\* ("onedomain": the servers of the storage cluster all have the same).
BackupServerFound(c) == ~On(c, "onedomain")

\* Storage clusters are mounted over a virtual network.
StorageMountable(c) ==
  On(c, "storage") => On(c, "vnet") /\ MountOptionsAllowed(c) /\ BackupServerFound(c)
FstabMountable(c) == On(c, "fstab") => ~On(c, "auto")
AadGiven(c) == On(c, "vnet") \/ On(c, "publicips") \/ Custom(c) => On(c, "aad")

\* A subnet, of 8 addresses here (/29), less the 5 that Azure takes, must have one for each
\* node; the count asked for later, when the pool is resized, is not compared.
Allowable(mask) == 2^(32 - mask) - 5
AddressesSuffice(c) ==
  On(c, "vnet") /\ On(c, "smallsubnet") => c.dedicated + c.lowpri <= Allowable(29)
PublicIpsNamed(c) == On(c, "publicips") => ~On(c, "unnamedips")
InsightsGiven(c) == On(c, "insights") => On(c, "appkeys")

Constructs(c) == /\ StorageMountable(c) /\ FstabMountable(c)
                 /\ AadGiven(c) /\ AddressesSuffice(c) /\ PublicIpsNamed(c)
                 /\ InsightsGiven(c)

\* Packages fetched to the client's machine first, and who gets them.
lis_pkg(c) == ~Windows(c) /\ ~Native(c) /\ ~Custom(c) /\ LisRequired(c)
intel_mpi_rt_pkg(c) ==
  /\ ~Windows(c) /\ Native(c) /\ ~Custom(c)
  /\ Rdma(c) /\ c.image = "ubuntucontainerrdma"
gpu_env(c) == ~Native(c) /\ Gpu(c) /\ ~Custom(c)

\* The scripts that mount blob containers and file shares are written for the pool; a
\* container is created if it is not there.  Windows mounts shares by a command file.
BlobMount(c) == Opt(On(c, "azureblob"), "azureblob-mount.sh")
FileMount(c) ==
  Opt(On(c, "azurefile"), IF Windows(c) THEN "azurefile-mount.cmd" ELSE "azurefile-mount.sh")

PrometheusTools(c) ==
  Opt(On(c, "exporter"), "node_exporter.tar.gz") \cup Opt(On(c, "cadvisor"), "cadvisor.gz")

\* The files uploaded for the start task ("driver": the user names a URL of
\* the GPU driver, which becomes one more resource file).
ResourceFiles(c) ==
       (IF Windows(c)
        THEN {"registry_login.ps1", "shipyard_blobxfer.ps1", "nodeprep_nativedocker.ps1"}
        ELSE {"registry_login.sh", "shipyard_blobxfer.sh", "shipyard_cascade.sh",
              "shipyard_nodeprep.sh"})
  \cup Opt(Cascades(c), "wait_for_images.sh")
  \cup (IF Cascades(c) /\ ~On(c, "container")
        THEN {"cascade.py", "requirements.txt"} ELSE {})
  \cup Opt(Cascades(c) /\ On(c, "timing"), "perf.py")
  \cup Opt(On(c, "hpn"), "shipyard_hpnssh.sh")
  \cup BlobMount(c) \cup FileMount(c)
  \cup Opt(lis_pkg(c), "lis.tar.gz")
  \cup Opt(intel_mpi_rt_pkg(c), "intel_mpi_rt.tar.gz")
  \cup Opt(gpu_env(c), "nvidia-driver.run")
  \cup (IF Windows(c) THEN {} ELSE PrometheusTools(c))
  \cup Opt(On(c, "insights"), "batch-insights")
  \cup (IF Native(c) THEN {}
        ELSE {"shipyard_task_runner.sh", "shipyard_docker_exec_task_runner.sh"})

\* The certificates Batch installs on the node for the start task.
CertificateFiles(c) ==
  Opt(On(c, "encrypt"), "encryption.pfx")
  \cup Opt(On(c, "singularityimages") /\ On(c, "imagecerts"), "image.pfx")

\* The options of the start task's command line.
Flags(c) ==
       Opt(On(c, "azurefile"), "a") \cup Opt(On(c, "block"), "b")
  \cup Opt(On(c, "azureblob"), "c") \cup Opt(On(c, "container"), "d")
  \cup Opt(On(c, "encrypt"), "e") \cup Opt(On(c, "gluster"), "f")
  \cup Opt(gpu_env(c), "g") \cup Opt(On(c, "singularity"), "i")
  \cup Opt(Delayed(c), "j") \cup Opt(On(c, "kata"), "k")
  \cup Opt(lis_pkg(c), "l") \cup Opt(On(c, "storage"), "m")
  \cup Opt(Native(c), "n") \cup Opt(On(c, "insights"), "q")
  \cup Opt(Custom(c), "u") \cup Opt(On(c, "hpn"), "w")
  \cup Opt(On(c, "autoscratch"), "y")

\* The environment of the start task.
Environment(c) ==
       Opt(Cascades(c), "SHIPYARD_STORAGE_ENV")
  \cup Opt(On(c, "singularityimages") /\ On(c, "imagecerts"),
           "SHIPYARD_SINGULARITY_DECRYPTION_CERTIFICATES")
  \cup Opt(On(c, "storage"), "SHIPYARD_STORAGE_CLUSTER_FSTAB")
  \cup Opt(On(c, "fstab"), "SHIPYARD_CUSTOM_MOUNTS_FSTAB")
  \cup Opt(~Native(c) /\ On(c, "timing"), "SHIPYARD_TIMING")
  \cup Opt(On(c, "block"), "SHIPYARD_CONTAINER_IMAGES_PRELOAD")
  \cup Opt(On(c, "exporter"), "PROM_NODE_EXPORTER_PORT")
  \cup Opt(On(c, "cadvisor"), "PROM_CADVISOR_PORT")

\* Images the node must hold before its start task ends.  Native pools without
\* delay have Batch load them before the start task.
BlockList(c) ==
  IF ~On(c, "block") THEN {}
  ELSE Opt(On(c, "images") /\ (Cascades(c)), "docker")
         \cup Opt(On(c, "singularityimages"), "singularity")

----------------------------------------------------------------------------

\* A configuration as _construct_pool_object reads it after the adjustments.
Settled(c) == VmConfiguration(Adjusted(c))
============================================================================
