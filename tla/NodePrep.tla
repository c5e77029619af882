------------------------------ MODULE NodePrep ------------------------------
(***************************************************************************)
(* The start task of a Linux node, shipyard_nodeprep.sh, and the cascade   *)
(* script it ends with.  One operator per shell function says what that    *)
(* function needs and leaves:                                              *)
(*   files  the resource files it uses, which Batch downloads before every *)
(*          run of the start task                                          *)
(*   wants  what must already be on the node's disk                        *)
(*   disk   what it leaves on the disk, kept over a reboot                 *)
(*   live   what it leaves mounted or running, lost by a reboot            *)
(* A step whose needs are not met ends the script ("set -e", "exit 1").    *)
(* The operators read the command line and the environment of PoolConfig,  *)
(* as the script reads its options, and never the configuration behind     *)
(* them.  Three files on the disk order the runs: lis_installed,           *)
(* node_prep_finished and cascade_failed.                                  *)
(***************************************************************************)
EXTENDS PoolConfig, Sequences

Step(files, wants, disk, live) ==
  [files |-> files, wants |-> wants, disk |-> disk, live |-> live]
Nothing == Step({}, {}, {}, {})
Exit == Step({}, {"never"}, {}, {})
When(condition, step) == IF condition THEN step ELSE Nothing

Flag(c, x) == x \in Flags(c)
Env(c, x) == x \in Environment(c)

\* What an image has on its disk when the node starts: custom images are
\* assumed to have what the options need, HPC images their devices.
Shipped(c) ==
  IF Custom(c)
  THEN {"docker", "nvidia", "gluster", "nfs", "ib", "intelmpi", "beeond"}
  ELSE Opt(Native(c), "docker") \cup Opt(Native(c) /\ Gpu(c), "nvidia")
         \cup (IF c.image \in {"centoshpc", "centoscontainerrdma"} THEN {"ib", "intelmpi"} ELSE {})
         \cup Opt(c.image = "ubuntucontainerrdma", "ib")

DistribUbuntu18(c) == c.image \in {"ubuntu18"}

----------------------------------------------------------------------------
(* Run on every boot *)

\* The devices an RDMA size must show are there only with the image's drivers.
get_vm_size_from_imds(c) == When(Rdma(c), Step({}, {"ib"}, {}, {}))

install_lis(c) == When(Flag(c, "l"), Step({"lis.tar.gz"}, {}, {"lis_installed"}, {}))

\* Decrypting an absent SHIPYARD_STORAGE_ENV fails.
decrypt_encrypted_credentials(c) ==
  When(Flag(c, "e"),
       IF Env(c, "SHIPYARD_STORAGE_ENV") THEN Step({"encryption.pfx"}, {}, {}, {}) ELSE Exit)

convert_singularity_certificates(c) ==
  When(Env(c, "SHIPYARD_SINGULARITY_DECRYPTION_CERTIFICATES"),
       Step({"image.pfx"}, {}, {"pem"}, {}))

check_for_docker_host_engine == Step({}, {"docker"}, {}, {"docker"})

check_for_nvidia_on_custom_or_native(c) == When(Gpu(c), Step({}, {"nvidia"}, {}, {}))

mount_azurefile_share(c) ==
  When(Flag(c, "a"), Step({"azurefile-mount.sh"}, {}, {}, {"azurefile"}))

mount_azureblob_container(c) ==
  When(Flag(c, "c"), Step({"azureblob-mount.sh"}, {}, {"blobfuse"}, {"azureblob"}))

\* Mutant: the task runner is made executable in native mode, too.
TaskRunnerAlways(c) == Step({"shipyard_task_runner.sh"}, {}, {}, {})

task_runner(c) == When(~Flag(c, "n"), Step({"shipyard_task_runner.sh"}, {}, {}, {}))

EveryBoot(c) ==
  << get_vm_size_from_imds(c), install_lis(c), decrypt_encrypted_credentials(c),
     convert_singularity_certificates(c),
     When(Flag(c, "u") \/ Flag(c, "n"), check_for_docker_host_engine),
     When(Flag(c, "u") \/ Flag(c, "n"), check_for_nvidia_on_custom_or_native(c)),
     mount_azurefile_share(c), mount_azureblob_container(c), task_runner(c) >>

----------------------------------------------------------------------------
(* The functions of a first run *)

optimize_tcp_network_settings(c) == When(Flag(c, "w"), Step({"shipyard_hpnssh.sh"}, {}, {}, {}))

install_docker_host_engine == Step({}, {}, {"docker"}, {"docker"})

set_default_pool_user_privileges(c) == When(~Flag(c, "n"), Step({}, {"docker"}, {}, {}))

registry_login == Step({"registry_login.sh"}, {}, {}, {})

install_nvidia_software(c) == Step({"nvidia-driver.run"}, {"docker"}, {"nvidia"}, {})

install_glusterfs_on_compute(c) ==
  IF Flag(c, "u") THEN Step({}, {"gluster"}, {}, {})
  ELSE Step({}, {}, {"gluster"}, {})

install_storage_cluster_dependencies(c) ==
  IF Flag(c, "u") THEN Step({}, {"nfs"}, {}, {}) ELSE Step({}, {}, {"nfs"}, {})

install_intel_mpi(c) ==
  IF Flag(c, "u") \/ "intelmpi" \in Shipped(c) THEN Nothing
  ELSE Step({"intel_mpi_rt.tar.gz"}, {}, {"intelmpi"}, {})

check_for_mellanox_card(c) ==
  When(Rdma(c), IF NetworkDirect(c) THEN install_intel_mpi(c)
                ELSE Step({}, {"ib"}, {"UCX_IB_PKEY"}, {}))

install_and_start_batch_insights(c) ==
  When(Flag(c, "q"), Step({"batch-insights"}, {}, {}, {"insights"}))

install_and_start_node_exporter(c) ==
  When(Env(c, "PROM_NODE_EXPORTER_PORT"),
       Step({"node_exporter.tar.gz"}, {}, {}, {"exporter"}))

install_and_start_cadvisor(c) ==
  When(Env(c, "PROM_CADVISOR_PORT"), Step({"cadvisor.gz"}, {}, {}, {"cadvisor"}))

\* The script's own test for cascade: not native, or preload delayed.
RunsCascade(c) == ~Flag(c, "n") \/ Flag(c, "j")

install_cascade_dependencies(c) ==
  When(RunsCascade(c) /\ ~Flag(c, "d"), Step({"requirements.txt"}, {}, {}, {}))

docker_pull_image == Step({}, {"docker"}, {}, {})

install_singularity(c) ==
  When(~Flag(c, "n") /\ Flag(c, "i"), Step({}, {"docker"}, {"singularity"}, {}))

install_kata_containers(c) ==
  When(Flag(c, "k") /\ ~Flag(c, "u"), Step({}, {"docker"}, {"kata"}, {}))

\* There is no BeeOND for Ubuntu 18.04.
install_beeond(c) ==
  When(Flag(c, "y") /\ ~Flag(c, "u"),
       IF DistribUbuntu18(c) THEN Exit ELSE Step({}, {}, {"beeond"}, {}))

process_storage_clusters(c) ==
  When(Flag(c, "m"), Step({}, {"nfs"}, {"fstab_storage"}, {"storage"}))

process_custom_fstab(c) ==
  When(Env(c, "SHIPYARD_CUSTOM_MOUNTS_FSTAB"), Step({}, {}, {"fstab_custom"}, {"fstab"}))

Plain(c) == ~Flag(c, "u") /\ ~Flag(c, "n")

Install(c) ==
  << optimize_tcp_network_settings(c),
     When(Plain(c), install_docker_host_engine),
     set_default_pool_user_privileges(c), registry_login,
     When(Flag(c, "g") /\ Plain(c), install_nvidia_software(c)),
     When(Flag(c, "f"), install_glusterfs_on_compute(c)),
     When(Flag(c, "m"), install_storage_cluster_dependencies(c)),
     check_for_mellanox_card(c), install_and_start_batch_insights(c),
     install_and_start_node_exporter(c), install_and_start_cadvisor(c),
     install_cascade_dependencies(c), docker_pull_image, install_singularity(c),
     install_kata_containers(c), install_beeond(c), process_storage_clusters(c),
     process_custom_fstab(c) >>

----------------------------------------------------------------------------
(* The functions of a run after a reboot *)

mount_storage_clusters(c) ==
  When(Env(c, "SHIPYARD_STORAGE_CLUSTER_FSTAB"),
       Step({}, {"fstab_storage"}, {}, {"storage"}))

mount_custom_fstab(c) ==
  When(Env(c, "SHIPYARD_CUSTOM_MOUNTS_FSTAB"), Step({}, {"fstab_custom"}, {}, {"fstab"}))

mount_gluster(c) ==
  When(Flag(c, "f") /\ Flag(c, "u"), Step({}, {"fstab_gluster"}, {}, {"gluster"}))

ensure_nvidia_driver_installed(c) ==
  When(Flag(c, "g"), Step({}, {"nvidia"}, {}, {}))

\* Mutant: storage clusters are mounted on the first boot only.
RestartWithoutStorage(c) ==
  << install_and_start_node_exporter(c), install_and_start_cadvisor(c),
     mount_custom_fstab(c), mount_gluster(c),
     When(Plain(c), check_for_docker_host_engine),
     When(Plain(c), ensure_nvidia_driver_installed(c)) >>

Restart(c) ==
  << install_and_start_node_exporter(c), install_and_start_cadvisor(c),
     mount_storage_clusters(c), mount_custom_fstab(c), mount_gluster(c),
     When(Plain(c), check_for_docker_host_engine),
     When(Plain(c), ensure_nvidia_driver_installed(c)) >>

----------------------------------------------------------------------------
(* Running the steps *)

\* The marks on the disk say which boot this is, and which functions are run.
Boots == {"first", "again", "broken"}
Boot(disk) ==
  CASE "cascade_failed" \in disk -> "broken"
    [] "cascade_failed" \notin disk /\ "node_prep_finished" \in disk -> "again"
    [] OTHER -> "first"

\* The steps of a boot that do something, each with its place in the script.
Steps(c, boot) ==
  EveryBoot(c) \o (CASE boot = "first" -> Install(c)
                     [] boot = "again" -> Restart(c)
                     [] boot = "broken" -> << Exit >>)
Place(step, i) ==
  [at |-> i, files |-> step.files, wants |-> step.wants, disk |-> step.disk, live |-> step.live]
Script(c, boot) ==
  LET steps == Steps(c, boot) IN
  {Place(steps[i], i) : i \in {j \in DOMAIN steps : steps[j] # Nothing}}

\* What some steps of the script leave.
DiskAfter(steps, disk) == disk \cup UNION {step.disk : step \in steps}
LiveAfter(steps, live) == live \cup UNION {step.live : step \in steps}

\* The steps whose needs are not met where they come, and those that run when nothing
\* outside goes wrong: all before the first such step.
Before(step, script) == {s \in script : s.at < step.at}
Blocked(script, files, disk) ==
  {step \in script : \/ ~(step.files \subseteq files)
                     \/ ~(step.wants \subseteq DiskAfter(Before(step, script), disk))}
Running(script, blocked) == {step \in script : \A b \in blocked : step.at < b.at}

\* The steps at which the node reboots itself: the integration services are
\* installed once.
LisReboots(steps, disk) == {step \in steps : "lis_installed" \in step.disk \ disk}

\* The files cascade needs, which runs when everything else is done.
CascadeFiles(c) ==
  {"shipyard_cascade.sh", "wait_for_images.sh"}
    \cup Opt(~Flag(c, "d"), "cascade.py")
    \cup Opt(~Flag(c, "d") /\ Env(c, "SHIPYARD_TIMING"), "perf.py")

\* Do the images the start task waits for ever come?  Singularity images are
\* replicated only when the runtime was installed.
ImagesCome(c) == "singularity" \in BlockList(c) => Flag(c, "i")

\* What no start task can do: RDMA sizes on images without the drivers or the
\* MPI library, credentials to decrypt that were not given, BeeOND on Ubuntu 18.04.
CannotPrepare(c) ==
  \/ Rdma(c) /\ "ib" \notin Shipped(c)
  \/ NetworkDirect(c) /\ c.image \notin CustomImages
                             \cup {"centoshpc", "centoscontainerrdma", "ubuntucontainerrdma"}
  \/ On(c, "encrypt") /\ ~Cascades(c)
  \/ On(c, "autoscratch") /\ c.image = "ubuntu18"

\* What runs on a node beside its tasks.
Served(c) == {"docker"} \cup (c.on \cap {"exporter", "cadvisor"})
============================================================================
