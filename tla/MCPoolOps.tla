----------------------------- MODULE MCPoolOps ------------------------------
(***************************************************************************)
(* Pool configurations for PoolOps: every Linux image on every kind of VM  *)
(* size, with sets of options that go together, on one node, and a few     *)
(* configurations of two nodes.                                            *)
(***************************************************************************)
EXTENDS PoolOps

Network == {"vnet", "smallsubnet", "publicips", "aad"}
All == Network \cup {"internode", "native", "delay", "block", "images", "encrypt", "azureblob", "azurefile",
                    "storage", "fstab", "exporter", "cadvisor", "timing", "reboot"}
Singularity == Network \cup {"singularityimages", "imagecerts", "singularity", "block", "hpn"}

OneNode(images, sizes, options) ==
  [image : images, vm : sizes, on : options, dedicated : {1}, lowpri : {0}]

MCConfigs ==
       OneNode({"ubuntu16", "ubuntu18", "debian10", "centos"}, {"gpu", "sriov"}, {All})
  \cup OneNode({"centoshpc", "ubuntucontainerrdma", "customnative"},
              {"ndgpu"}, {All, Network \cup {"native", "encrypt"}})
  \cup OneNode({"ubuntu18", "debian9", "customubuntu"}, {"plain"}, {Singularity})
  \cup OneNode({"centoshpc", "customubuntu"}, {"sriov"}, {Network \cup {"internode", "autoscratch"}})
  \cup OneNode({"ubuntu16"}, {"plain"},
              {{"kata", "insights"}, {"insights", "appkeys"},
               {"vnet", "aad", "storage", "onedomain"}})
  \cup [image : {"ubuntu16"}, vm : {"plain"}, on : {{"reboot", "recover"}},
       dedicated : {1}, lowpri : {0}]
  \cup [image : {"ubuntu16"}, vm : {"plain"}, on : {{"recover"}},
       dedicated : {0}, lowpri : {2}]
  \cup [image : {"customubuntu"}, vm : {"plain"},
       on : {{"internode", "gluster", "aad"}},
       dedicated : {2}, lowpri : {0}]

\* The pools with few options are resized and repaired; those with many are
\* added, rebooted and deleted.
MCCommands(c) ==
  CASE On(c, "reboot") /\ On(c, "recover") ->
         {"add", "addnowait", "addrecreate", "del", "delwait", "resize", "resizewait",
          "delfailed", "delstarting", "delallunusable", "rebootfailed"}
    [] c.dedicated + c.lowpri > 1 -> {"add", "resizewait"}
    [] OTHER -> {"add", "delwait", "rebootfailed"}
============================================================================
