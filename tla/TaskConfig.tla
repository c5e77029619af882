----------------------------- MODULE TaskConfig -----------------------------
(***************************************************************************)
(* What "jobs add" makes of a task on a pool: which tasks task_settings    *)
(* and _construct_task accept (convoy/settings.py, convoy/batch.py), and   *)
(* what their command lines take for granted on the node.  NodePrep puts   *)
(* it there, from the pool's configuration alone; nothing but this         *)
(* agreement connects the two.                                             *)
(*                                                                         *)
(* A task is a record                                                      *)
(*   runtime     the kind of container image                               *)
(*   volumes     the shared data volumes it names                          *)
(*   gpus        as given: a count or device is "some"                     *)
(*   infiniband  as given by the task, the job's setting is not used       *)
(*   mpi         the MPI runtime of a multi-instance task                  *)
(*   on          the options switched on: "multi" instances, "restrict"ed  *)
(*               default bind mounts, auto "scratch", task-level "input"   *)
(*               data, an image "undeclared" in the configuration, which   *)
(*               the job may allow ("allowed")                            *)
(***************************************************************************)
EXTENDS NodePrep

Volumes == {"azurefile", "azureblob", "gluster", "storage", "fstab"}
Tasks ==
  [runtime : {"docker", "singularity"},
   volumes : {{}} \cup {{v} : v \in Volumes},
   gpus : {"default", "all", "some", "disable"},
   infiniband : {"default", "yes", "no"},
   mpi : {"none", "intelmpi", "mpich", "openmpi"},
   on : SUBSET {"multi", "restrict", "scratch", "input", "undeclared", "allowed"}]

Docker(t) == t.runtime = "docker"
Multi(t) == "multi" \in t.on

----------------------------------------------------------------------------
(* Which tasks are accepted *)

ImageAccepted(c, t) == Docker(t) \/ (~Native(c) /\ ~Windows(c))

\* The images on the pool are those of the configuration.
Preloaded(t) == "undeclared" \in t.on => "allowed" \in t.on

\* A GPU is given to every task on a GPU pool, unless told otherwise.
GpuTask(c, t) ==
  IF t.gpus = "default" THEN Gpu(c) /\ ~Windows(c) ELSE t.gpus # "disable"
GpuAccepted(c, t) ==
  GpuTask(c, t) => Gpu(c) /\ ~Windows(c) /\ (t.gpus = "some" => Docker(t))

\* InfiniBand, too, where nodes can communicate.
InfinibandTask(c, t) ==
  IF t.infiniband = "default" THEN Rdma(c) /\ On(c, "internode") /\ ~Windows(c)
  ELSE t.infiniband = "yes"

\* Outside of native pools the image must be one whose RDMA files are known
\* ("custom" is a CentOS image).
InfinibandAccepted(c, t) ==
  InfinibandTask(c, t) =>
    /\ On(c, "internode") /\ Rdma(c)
    /\ Native(c) \/ c.image \in {"centoshpc", "custom", "customubuntu"}

MultiInstanceAccepted(c, t) == Multi(t) => On(c, "internode")

VolumesAccepted(c, t) == t.volumes \subseteq c.on

InputAccepted(c, t) == "input" \in t.on => ~Native(c)

TaskAccepted(c, t) ==
  /\ ImageAccepted(c, t) /\ Preloaded(t) /\ GpuAccepted(c, t)
  /\ InfinibandAccepted(c, t) /\ MultiInstanceAccepted(c, t) /\ VolumesAccepted(c, t)
  /\ InputAccepted(c, t)

----------------------------------------------------------------------------
(* What an accepted task takes for granted *)

\* The job preparation task waits until the node has all the images of the
\* configuration, whichever the tasks use.
JobPreparation(c) ==
  IF Native(c) THEN {}
  ELSE {"wait_for_images.sh"} \cup Opt(On(c, "singularityimages"), "singularity")

\* A multi-instance Docker task runs inside of its coordination command's container.
InContainer(c, t) == Docker(t) /\ Multi(t) /\ ~Native(c)
TaskRunner(c, t) ==
  IF Native(c) THEN {}
  ELSE {"shipyard_task_runner.sh"}
         \cup Opt(InContainer(c, t), "shipyard_docker_exec_task_runner.sh")

\* What the container mounts from the node.  Gluster is set up after the pool is.
Mounts(c, t) ==
  (t.volumes \ {"gluster"})
    \cup Opt(InfinibandTask(c, t) /\ NetworkDirect(c), "intelmpi")
    \cup Opt("scratch" \in t.on /\ On(c, "autoscratch"), "beeond")

Devices(c, t) == Opt(GpuTask(c, t), "nvidia") \cup Opt(InfinibandTask(c, t), "ib")

\* The MPI command reads the partition key that the node's start task wrote.
MpiCommand(c, t) ==
  Opt(/\ Multi(t) /\ t.mpi \in {"mpich", "openmpi"}
      /\ InfinibandTask(c, t) /\ ~NetworkDirect(c), "UCX_IB_PKEY")

\* An encrypted Singularity image is decrypted with the certificate's key.
Decryption(c, t) == Opt(~Docker(t) /\ On(c, "singularityimages") /\ On(c, "imagecerts"), "pem")

TaskNeeds(c, t) ==
  {t.runtime} \cup JobPreparation(c) \cup TaskRunner(c, t) \cup Mounts(c, t)
    \cup Devices(c, t) \cup MpiCommand(c, t) \cup Decryption(c, t)

\* Accepted, but nobody sees to it that it can run: Singularity on a pool without the
\* runtime, auto scratch on a pool without it, and a multi-instance Docker task whose
\* container does not see the runner, as it sees the task's directory only.
CannotRun(c, t) ==
  \/ ~On(c, "singularity") /\ (~Docker(t) \/ (On(c, "singularityimages") /\ ~Native(c)))
  \/ "scratch" \in t.on /\ ~On(c, "autoscratch")
  \/ InContainer(c, t) /\ "restrict" \in t.on

\* All that any of the tasks needs that can run.
Needs(c) == UNION {TaskNeeds(c, t) : t \in {u \in Tasks : TaskAccepted(c, u) /\ ~CannotRun(c, u)}}
============================================================================
