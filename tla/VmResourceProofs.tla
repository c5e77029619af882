--------------------------- MODULE VmResourceProofs ---------------------------
(***************************************************************************)
(* Proofs about the commands on VMs outside of Batch, for any number of    *)
(* VMs, commands and failures.                                             *)
(*                                                                         *)
(* The argument: a command goes through its calls in order, so what the    *)
(* calls before the one that runs made is there (Making), what they        *)
(* deleted is gone (Deleting), and a create that started from nothing has  *)
(* not made yet what the calls to come would make (FromNothing).  Nothing  *)
(* exists that has not the name of a configured VM (Within), so a delete   *)
(* by prefix finds all of it.                                              *)
(***************************************************************************)
EXTENDS VmResource, TLAPS

Within ==
  /\ vms \subseteq Vms /\ nics \subseteq Vms /\ pips \subseteq Vms /\ conf \subseteq Vms
  /\ kind = "remotefs" /\ "avset" \in shared => vmCount > 1
  /\ kind # "monitor" => "port80" \notin shared

\* What the running command works on.
Working ==
  pc # "idle" =>
    /\ cmd.op \in {"create", "resize", "delete"} /\ pc \in DOMAIN Steps /\ ~clean
    /\ last = "none"
    /\ cmd.op = "create" => cmd.new = Vms
    /\ cmd.op = "resize" => kind = "remotefs" /\ cmd.new \subseteq Vms
                            /\ Vms \subseteq vms \cup cmd.new
    /\ cmd.op = "delete" => cmd.keys \subseteq Vms /\ (cmd.prefix => cmd.keys = Vms)

\* What a create or a resize has made.
Running == pc # "idle" /\ cmd.op \in {"create", "resize"}

HasVms == {"bricks", "roles", "open", "exts", "close"}
HasNics == HasVms \cup {"vms"} \cup (IF kind = "slurm" THEN {} ELSE {"avset"})
HasPips == HasVms \cup {"nics", "avset", "vms"}
HasVnet == HasPips \cup {"pips"}

Making ==
  Running =>
    /\ pc \in HasPips => cmd.new \subseteq pips
    /\ pc \in HasNics => cmd.new \subseteq nics
    /\ pc \in HasVms => cmd.new \subseteq vms
    /\ cmd.op = "resize" /\ pc = "exts" /\ cmd.added => cmd.new \subseteq bricks
    /\ pc = "close" => cmd.new \subseteq exts
    /\ cmd.op = "create" =>
         /\ pc # "store" => "store" \in shared
         /\ pc \in HasVnet \cup {"vnet"} => "nsg" \in shared
         /\ pc \in HasVnet => "vnet" \in shared
         /\ kind = "slurm" /\ pc \notin {"store", "parts"} => parts = Pools
         /\ kind = "slurm" /\ pc \notin {"store", "parts", "files", "pools"}
              => joined = Pools

\* What a create that follows a delete by prefix has not made yet.
FromNothing ==
  pc # "idle" /\ cmd.op = "create" /\ cmd.base /\ kind \in {"remotefs", "monitor"} =>
    /\ pc \notin HasVnet \cup {"vnet"} => "nsg" \notin shared
    /\ pc \notin HasPips => pips = {}
    /\ pc \notin HasNics => nics = {}
    /\ kind = "remotefs" /\ pc \notin HasVms \cup {"vms"} => "avset" \notin shared

\* What a delete has deleted.
NoVms == {"delNics", "delNsg", "delPips", "delVnet", "delAvset", "await"}
           \cup (IF kind = "slurm" THEN {"delStore"} ELSE {})
NoNics == NoVms \ {"delNics"}
NoPips == NoNics \ {"delNsg", "delPips"}

Deleting ==
  pc # "idle" /\ cmd.op = "delete" =>
    /\ pc \in NoVms => vms \cap cmd.keys = {}
    /\ pc \in NoNics => nics \cap cmd.keys = {}
    /\ pc \in NoPips => pips \cap cmd.keys = {}
    /\ kind # "slurm" /\ pc # "delStore" => "store" \notin shared
    /\ kind = "remotefs" /\ pc = "await" /\ cmd.prefix => "avset" \notin shared

Inv ==
  /\ TypeOK /\ Within /\ Working /\ Making /\ FromNothing /\ Deleting
  /\ PrefixCleans /\ ReportsTrue

-----------------------------------------------------------------------------
(* The order of the calls *)

LEMMA CreateOrder ==
  ASSUME TypeOK, Working, pc # "idle", cmd.op = "create"
  PROVE  /\ pc \in {"store", "parts", "files", "pools", "nsg", "vnet", "pips", "nics",
                    "avset", "vms", "roles", "open", "exts", "close"}
         /\ pc = "store" => After = IF kind = "slurm" THEN "parts"
                                    ELSE IF kind = "monitor" THEN "files" ELSE "nsg"
         /\ pc = "parts" => After = "files" /\ kind = "slurm"
         /\ pc = "files" => /\ kind \in {"monitor", "slurm"}
                            /\ After = IF kind = "slurm" THEN "pools" ELSE "nsg"
         /\ pc = "pools" => After = "nsg" /\ kind = "slurm"
         /\ pc = "nsg" => After = "vnet"
         /\ pc = "vnet" => After = "pips"
         /\ pc = "pips" => After = IF kind = "slurm" THEN "avset" ELSE "nics"
         /\ pc = "nics" => After = IF kind = "remotefs" THEN "avset" ELSE "vms"
         /\ pc = "avset" => /\ kind \in {"remotefs", "slurm"}
                            /\ After = IF kind = "slurm" THEN "nics" ELSE "vms"
         /\ pc = "vms" => After = IF kind = "remotefs" THEN "exts" ELSE "roles"
         /\ pc = "roles" => After = IF kind = "monitor" THEN "open" ELSE "exts"
         /\ pc = "open" => After = "exts" /\ kind = "monitor"
         /\ pc = "exts" => After = IF kind = "monitor" THEN "close" ELSE "idle"
         /\ pc = "close" => After = "idle" /\ kind = "monitor"
<1> USE DEF TypeOK, Working, Steps, After, Creates
<1>1. CASE kind = "remotefs"
  BY <1>1 DEF ClusterCreates
<1>2. CASE kind = "monitor"
  BY <1>2 DEF MonitorCreates
<1>3. CASE kind = "federation"
  BY <1>3 DEF ProxyCreates
<1>4. CASE kind = "slurm"
  BY <1>4 DEF SlurmCreates
<1> QED
  BY <1>1, <1>2, <1>3, <1>4

LEMMA ResizeOrder ==
  ASSUME TypeOK, Working, pc # "idle", cmd.op = "resize"
  PROVE  /\ kind = "remotefs"
         /\ pc \in {"store", "pips", "nics", "avset", "vms", "bricks", "exts"}
         /\ pc = "store" => After = "pips"
         /\ pc = "pips" => After = "nics"
         /\ pc = "nics" => After = "avset"
         /\ pc = "avset" => After = "vms"
         /\ pc = "vms" => After = "bricks"
         /\ pc = "bricks" => After = "exts"
         /\ pc = "exts" => After = "idle"
  BY DEF TypeOK, Working, Steps, After, ClusterResizes

LEMMA DeleteOrder ==
  ASSUME TypeOK, Working, pc # "idle", cmd.op = "delete"
  PROVE  /\ pc \in {"delStore", "delVms", "delNics", "delNsg", "delPips", "delVnet",
                    "delAvset", "await"}
         /\ pc = "delStore" => After = IF kind = "slurm" THEN "await" ELSE "delVms"
         /\ pc = "delVms" => After = "delNics"
         /\ pc = "delNics" => After = "delNsg"
         /\ pc = "delNsg" => After = "delPips"
         /\ pc = "delPips" => After = "delVnet"
         /\ pc = "delVnet" => After = IF kind \in {"remotefs", "slurm"} THEN "delAvset"
                                                                       ELSE "await"
         /\ pc = "delAvset" => /\ kind \in {"remotefs", "slurm"}
                               /\ After = IF kind = "slurm" THEN "delStore" ELSE "await"
         /\ pc = "await" => After = "idle"
<1> USE DEF TypeOK, Working, Steps, After, Deletes
<1>1. CASE kind = "remotefs"
  BY <1>1 DEF ClusterDeletes
<1>2. CASE kind = "monitor"
  BY <1>2 DEF MonitorDeletes
<1>3. CASE kind = "federation"
  BY <1>3 DEF ProxyDeletes
<1>4. CASE kind = "slurm"
  BY <1>4 DEF SlurmDeletes
<1> QED
  BY <1>1, <1>2, <1>3, <1>4

\* The order leads to calls of the order, or to the end.
LEMMA OrderIsClosed ==
  ASSUME TypeOK, Working, pc # "idle"
  PROVE  After \in {"idle"} \cup DOMAIN Steps
<1> USE DEF TypeOK, Working, Steps, After
<1>1. CASE cmd.op = "resize"
  BY <1>1 DEF ClusterResizes
<1>2. CASE cmd.op = "create"
  <2> USE <1>2 DEF Creates
  <2>1. CASE kind = "remotefs"
    BY <2>1 DEF ClusterCreates
  <2>2. CASE kind = "monitor"
    BY <2>2 DEF MonitorCreates
  <2>3. CASE kind = "federation"
    BY <2>3 DEF ProxyCreates
  <2>4. CASE kind = "slurm"
    BY <2>4 DEF SlurmCreates
  <2> QED
    BY <2>1, <2>2, <2>3, <2>4
<1>3. CASE cmd.op = "delete"
  <2> USE <1>3 DEF Deletes
  <2>1. CASE kind = "remotefs"
    BY <2>1 DEF ClusterDeletes
  <2>2. CASE kind = "monitor"
    BY <2>2 DEF MonitorDeletes
  <2>3. CASE kind = "federation"
    BY <2>3 DEF ProxyDeletes
  <2>4. CASE kind = "slurm"
    BY <2>4 DEF SlurmDeletes
  <2> QED
    BY <2>1, <2>2, <2>3, <2>4
<1> QED
  BY <1>1, <1>2, <1>3

-----------------------------------------------------------------------------
(* Calls *)

\* What AsyncOperation makes of the resources in new and those in S.
LEMMA MadeFacts ==
  ASSUME NEW new \in SUBSET Nat, NEW S, NEW o \in Made(new, S)
  PROVE  /\ S \subseteq o.to /\ o.to \subseteq S \cup new
         /\ o.end \in {"ok", "raise", "fail"}
         /\ o.end = "ok" => new \subseteq o.to
         /\ o.end = "raise" => new \cap S # {}
<1> DEFINE started == {i \in new : \A j \in new \cap S : i < j}
<1>1. \/ o = Outcome(S \cup started, IF new \cap S = {} THEN "ok" ELSE "raise")
      \/ o \in {Outcome(S \cup T, "fail") : T \in SUBSET started}
  BY DEF Made
<1>2. started \subseteq new /\ (new \cap S = {} => started = new)
  OBVIOUS
<1> HIDE DEF started
<1>3. CASE o = Outcome(S \cup started, IF new \cap S = {} THEN "ok" ELSE "raise")
  <2>1. o.to = S \cup started /\ o.end = IF new \cap S = {} THEN "ok" ELSE "raise"
    BY <1>3 DEF Outcome
  <2> QED
    BY <2>1, <1>2
<1>4. ASSUME NEW T \in SUBSET started, o = Outcome(S \cup T, "fail")
      PROVE  /\ S \subseteq o.to /\ o.to \subseteq S \cup new
             /\ o.end = "fail"
  <2>1. o.to = S \cup T /\ o.end = "fail"
    BY <1>4 DEF Outcome
  <2> QED
    BY <2>1, <1>2
<1> QED
  BY <1>1, <1>3, <1>4

LEMMA RemovedFacts ==
  ASSUME NEW gone, NEW S, NEW o \in Removed(gone, S)
  PROVE  /\ o.to \subseteq S /\ S \ gone \subseteq o.to
         /\ o.end \in {"ok", "fail"}
         /\ o.end = "ok" => o.to = S \ gone
BY DEF Removed, Outcome

\* The part of the type invariant about configuration and resources.
Typed ==
  /\ kind \in {"remotefs", "monitor", "federation", "slurm"}
  /\ vmCount \in 1..MaxVm /\ existingOk \in BOOLEAN /\ conf \subseteq Offset
  /\ vms \subseteq nics /\ nics \subseteq Offset
  /\ pips \subseteq Offset /\ exts \subseteq vms
  /\ bricks \subseteq vms /\ stopped \subseteq vms
  /\ shared \subseteq {"store", "nsg", "port80", "vnet", "avset"}
  /\ parts \subseteq Pools /\ joined \subseteq Pools
  /\ grown \subseteq att /\ att \subseteq vms

\* What a create or a resize that ended well has to report.
Reported ==
  /\ Vms \subseteq vms \cap nics
  /\ cmd.new \subseteq exts \cap pips
  /\ kind = "remotefs" => cmd.new \subseteq bricks
  /\ cmd.op = "create" =>
       /\ {"store", "nsg", "vnet"} \subseteq shared
       /\ kind = "slurm" => parts = Pools /\ joined = Pools
       /\ "port80" \notin shared

\* A create that must not raise.
Unhindered == cmd.op = "create" /\ cmd.base /\ existingOk /\ kind \in {"remotefs", "monitor"}

\* The call that runs ends: what is left to show is about the resources.
LEMMA CallEnds ==
  ASSUME Inv, pc # "idle", NEW end, Go(end), UNCHANGED config, Typed', Within',
         end = "ok" => Making' /\ FromNothing' /\ Deleting',
         cmd.op = "resize" => Vms \subseteq vms' \cup cmd.new,
         end = "ok" /\ After = "idle" /\ cmd.op \in {"create", "resize"} /\ cmd.added
           => Reported',
         Unhindered => end # "raise"
  PROVE  Inv'
<1> USE DEF Inv
<1>1. /\ cmd' = cmd /\ clean' = FALSE /\ faults' \in 0..MaxFaults
      /\ cmd \in Command /\ last = "none"
      /\ UNCHANGED <<kind, vmCount, existingOk, conf>>
  BY VmResourceAssumption DEF Go, TypeOK, Working, config
<1>2. Steps' = Steps /\ Vms' = Vms
  BY <1>1 DEF Steps, Vms
<1>3. CASE end = "ok"
  <2>1. /\ pc' = After
        /\ last' = IF After # "idle" THEN "none" ELSE IF cmd.added THEN "done" ELSE "failed"
    BY <1>1, <1>3 DEF Go
  <2>2. pc' \in {"idle"} \cup DOMAIN Steps
    BY <2>1, OrderIsClosed
  <2>3. TypeOK'
    BY <1>1, <1>2, <2>1, <2>2 DEF TypeOK, Typed
  <2>4. Working'
    BY <1>1, <1>2, <2>1, <2>2 DEF Working
  <2>5. PrefixCleans'
    BY <1>1, <2>1 DEF PrefixCleans
  <2>6. ReportsTrue'
    BY <1>1, <1>2, <1>3, <2>1 DEF ReportsTrue, Reported, Working
  <2> QED
    BY <1>3, <2>3, <2>4, <2>5, <2>6
<1>4. CASE end # "ok"
  <2>1. pc' = "idle" /\ last' \in {"raised", "failed"}
    BY <1>4 DEF Go
  <2>2. last' = "raised" => end = "raise"
    BY <1>4 DEF Go
  <2>3. TypeOK'
    BY <1>1, <2>1 DEF TypeOK, Typed
  <2>4. Working' /\ Making' /\ FromNothing' /\ Deleting'
    BY <2>1 DEF Working, Making, Running, FromNothing, Deleting
  <2>5. PrefixCleans'
    BY <1>1, <2>2 DEF PrefixCleans, Unhindered
  <2>6. ReportsTrue'
    BY <2>1 DEF ReportsTrue
  <2> QED
    BY <2>3, <2>4, <2>5, <2>6
<1> QED
  BY <1>3, <1>4

LEMMA InvInit == Init => Inv
<1> SUFFICES ASSUME Init PROVE Inv
  OBVIOUS
<1>1. NoCommand \in Command
  BY DEF NoCommand, Command, Offset
<1>2. kind \in {"remotefs", "monitor", "federation", "slurm"} /\ vmCount \in 1..MaxVm
  BY VmResourceAssumption DEF Init
<1> QED
  BY <1>1, <1>2, VmResourceAssumption DEF Init, Inv, TypeOK, Within, Working, Making, Running,
     FromNothing, Deleting, PrefixCleans, NothingLeft, ReportsTrue, NoCommand

-----------------------------------------------------------------------------
(* The calls of create and resize *)

LEMMA VmsInRange == TypeOK => Vms \subseteq Offset
BY VmResourceAssumption DEF TypeOK, Vms, Offset

\* A call that is only made by create or resize.
LEMMA Makes ==
  ASSUME Inv, pc \in {"store", "parts", "files", "pools", "nsg", "vnet", "pips", "nics",
                      "avset", "vms", "roles", "bricks", "open", "exts", "close"}
  PROVE  /\ cmd.op \in {"create", "resize"} /\ Running
         /\ cmd.new \subseteq Vms /\ cmd.new \in SUBSET Nat
         /\ cmd.op = "resize" => Vms \subseteq vms \cup cmd.new
<1>1. cmd.op # "delete"
  BY DeleteOrder DEF Inv
<1> QED
  BY <1>1 DEF Inv, Working, Running, Vms, TypeOK

\* What the order says of a call that makes something.
LEMMA Order ==
  ASSUME Inv, Running
  PROVE  /\ pc = "store" => After \in {"parts", "files", "nsg", "pips"}
         /\ pc = "store" /\ After = "files" => kind = "monitor" /\ cmd.op = "create"
         /\ pc = "store" /\ After = "nsg" => kind # "slurm" /\ cmd.op = "create"
         /\ pc = "store" /\ After = "pips" => kind = "remotefs" /\ cmd.op = "resize"
         /\ pc = "parts" => After = "files" /\ kind = "slurm" /\ cmd.op = "create"
         /\ pc = "files" => /\ kind \in {"monitor", "slurm"} /\ cmd.op = "create"
                            /\ After = IF kind = "slurm" THEN "pools" ELSE "nsg"
         /\ pc = "pools" => After = "nsg" /\ kind = "slurm" /\ cmd.op = "create"
         /\ pc = "nsg" => After = "vnet" /\ cmd.op = "create"
         /\ pc = "vnet" => After = "pips" /\ cmd.op = "create"
         /\ pc = "pips" => After \in {"avset", "nics"} /\ (After = "avset" <=> kind = "slurm")
         /\ pc = "nics" => After \in {"avset", "vms"} /\ (After = "avset" <=> kind = "remotefs")
         /\ pc = "avset" => After \in {"nics", "vms"} /\ (After = "nics" <=> kind = "slurm")
                            /\ kind \in {"remotefs", "slurm"}
         /\ pc = "vms" => After \in {"exts", "roles", "bricks"}
                          /\ (After = "bricks" <=> cmd.op = "resize")
         /\ pc = "roles" => After \in {"open", "exts"} /\ cmd.op = "create"
         /\ pc = "bricks" => After = "exts" /\ cmd.op = "resize"
         /\ pc = "open" => After = "exts" /\ cmd.op = "create" /\ kind = "monitor"
         /\ pc = "exts" => After = IF kind = "monitor" THEN "close" ELSE "idle"
         /\ pc = "close" => After = "idle" /\ cmd.op = "create" /\ kind = "monitor"
<1>1. CASE cmd.op = "create"
  BY <1>1, CreateOrder DEF Inv, Running, TypeOK
<1>2. CASE cmd.op = "resize"
  BY <1>2, ResizeOrder DEF Inv, Running
<1> QED
  BY <1>1, <1>2 DEF Running

LEMMA CreateStoreKeeps == ASSUME Inv, CreateStore PROVE Inv'
<1>1. /\ UNCHANGED config /\ UNCHANGED <<vms, exts, bricks, stopped, nics, pips, parts, joined, att, grown>>
      /\ pc = "store" /\ Running /\ cmd' = cmd
  BY Makes DEF CreateStore, Go, machines, pools, disks
<1>2. UNCHANGED <<kind, vmCount, existingOk, conf>> /\ Vms' = Vms
  BY <1>1 DEF config, Vms
<1>3. PICK end \in {"ok", "fail"} :
         Go(end) /\ shared' = IF end = "ok" THEN shared \cup {"store"} ELSE shared
  BY DEF CreateStore
<1>4. Typed'
  BY <1>1, <1>2, <1>3 DEF Inv, TypeOK, Typed
<1>5. Within'
  BY <1>1, <1>2, <1>3 DEF Inv, Within
<1>6. ASSUME end = "ok" PROVE Making' /\ FromNothing' /\ Deleting'
  <2>1. pc' = After
    BY <1>3, <1>6 DEF Go
  <2>2. After \in {"parts", "files", "nsg", "pips"}
    BY <1>1, Order
  <2>3. Making'
    BY <1>1, <1>2, <1>3, <1>6, <2>1, <2>2, Order DEF Making, Running, HasPips, HasNics, HasVms, HasVnet
  <2>4. FromNothing'
    BY <1>1, <1>2, <1>3, <2>1, <2>2 DEF Inv, FromNothing, HasPips, HasNics, HasVms, HasVnet
  <2>5. Deleting'
    BY <1>1, Makes DEF Deleting, Running
  <2> QED
    BY <2>3, <2>4, <2>5
<1>7. After # "idle" /\ pc # "idle" /\ (cmd.op = "resize" => Vms \subseteq vms' \cup cmd.new)
  BY <1>1, Makes, Order
<1> QED
  BY <1>1, <1>3, <1>4, <1>5, <1>6, <1>7, CallEnds

LEMMA CreatePartitionsKeeps == ASSUME Inv, CreatePartitions PROVE Inv'
<1>1. /\ UNCHANGED config /\ UNCHANGED <<vms, exts, bricks, stopped, nics, pips, shared, joined, att, grown>>
      /\ pc = "parts" /\ Running /\ cmd' = cmd
  BY Makes DEF CreatePartitions, Go, machines, pools, disks, azure
<1>2. /\ UNCHANGED <<kind, vmCount, existingOk, conf>> /\ Vms' = Vms
      /\ cmd.new \subseteq Vms /\ cmd.new \in SUBSET Nat /\ Vms \subseteq Offset
  <2>1. UNCHANGED <<kind, vmCount, existingOk, conf>> /\ Vms' = Vms
    BY <1>1 DEF config, Vms
  <2> QED
    BY <1>1, <2>1, Makes, VmsInRange DEF Inv
<1>3. PICK end \in {"ok", "raise", "fail"}, n \in 0..2 :
         (end = "ok" <=> n = 2) /\ parts' = parts \cup 1..n /\ Go(end)
  BY DEF CreatePartitions
<1>10. parts' \subseteq Pools /\ (end = "ok" => parts' = Pools)
  <2>1. parts \subseteq 1..2 /\ Pools = 1..2
    BY DEF Inv, TypeOK, Pools
  <2>2. 1..n \subseteq 1..2 /\ (n = 2 => 1..n = 1..2)
    OBVIOUS
  <2> QED
    BY <2>1, <2>2, <1>3
<1>4. Typed'
  BY <1>1, <1>2, <1>3, <1>10 DEF Inv, TypeOK, Typed
<1>5. Within'
  BY <1>1, <1>2, <1>3, <1>10 DEF Inv, Within
<1>6. ASSUME end = "ok" PROVE Making' /\ FromNothing' /\ Deleting'
  <2>1. pc' = After
    BY <1>3, <1>6 DEF Go
  <2>2. After = "files" /\ kind = "slurm" /\ cmd.op = "create"
    BY <1>1, Order
  <2>3. Making'
    BY <1>1, <1>2, <1>3, <1>6, <1>10, <2>1, <2>2, Order
       DEF Inv, Making, Running, HasPips, HasNics, HasVms, HasVnet
  <2>4. FromNothing'
    BY <1>1, <1>2, <1>3, <1>6, <2>1, <2>2 DEF Inv, FromNothing, HasPips, HasNics, HasVms, HasVnet
  <2>5. Deleting'
    BY <1>1, Makes DEF Deleting, Running
  <2> QED
    BY <2>3, <2>4, <2>5
<1>7. cmd.op = "resize" => Vms \subseteq vms' \cup cmd.new
  BY <1>1, <1>3, <1>10, Makes
<1>8. Unhindered => end # "raise"
  BY <1>1, <1>2, <1>3, <1>10, Order DEF Inv, Unhindered, FromNothing, Running, HasPips, HasNics,
     HasVms, HasVnet, TypeOK
<1>9. After # "idle"
  BY <1>1, Order
<1> QED
  BY <1>1, <1>3, <1>4, <1>5, <1>6, <1>7, <1>8, <1>9, CallEnds

LEMMA MonitorFilesKeeps == ASSUME Inv, MonitorFiles PROVE Inv'
<1>1. /\ UNCHANGED config /\ UNCHANGED <<vms, exts, bricks, stopped, nics, pips, shared, parts, joined, att, grown>>
      /\ pc = "files" /\ kind = "monitor" /\ Running /\ cmd' = cmd
  BY Makes DEF MonitorFiles, Go, machines, pools, disks, azure
<1>2. /\ UNCHANGED <<kind, vmCount, existingOk, conf>> /\ Vms' = Vms
      /\ cmd.new \subseteq Vms /\ cmd.new \in SUBSET Nat /\ Vms \subseteq Offset
  <2>1. UNCHANGED <<kind, vmCount, existingOk, conf>> /\ Vms' = Vms
    BY <1>1 DEF config, Vms
  <2> QED
    BY <1>1, <2>1, Makes, VmsInRange DEF Inv
<1>3. PICK end \in {"ok", "fail"} : Go(end)
  BY DEF MonitorFiles
<1>4. Typed'
  BY <1>1, <1>2, <1>3 DEF Inv, TypeOK, Typed
<1>5. Within'
  BY <1>1, <1>2, <1>3 DEF Inv, Within
<1>6. ASSUME end = "ok" PROVE Making' /\ FromNothing' /\ Deleting'
  <2>1. pc' = After
    BY <1>3, <1>6 DEF Go
  <2>2. After = "nsg" /\ cmd.op = "create"
    BY <1>1, Order
  <2>3. Making'
    BY <1>1, <1>2, <1>3, <1>6, <2>1, <2>2, Order
       DEF Inv, Making, Running, HasPips, HasNics, HasVms, HasVnet
  <2>4. FromNothing'
    BY <1>1, <1>2, <1>3, <1>6, <2>1, <2>2 DEF Inv, FromNothing, HasPips, HasNics, HasVms, HasVnet
  <2>5. Deleting'
    BY <1>1, Makes DEF Deleting, Running
  <2> QED
    BY <2>3, <2>4, <2>5
<1>7. cmd.op = "resize" => Vms \subseteq vms' \cup cmd.new
  BY <1>1, <1>3, Makes
<1>8. Unhindered => end # "raise"
  BY <1>1, <1>2, <1>3, Order DEF Inv, Unhindered, FromNothing, Running, HasPips, HasNics,
     HasVms, HasVnet, TypeOK
<1>9. After # "idle"
  BY <1>1, Order
<1> QED
  BY <1>1, <1>3, <1>4, <1>5, <1>6, <1>7, <1>8, <1>9, CallEnds

LEMMA SlurmFilesKeeps == ASSUME Inv, SlurmFiles PROVE Inv'
<1>1. /\ UNCHANGED config /\ UNCHANGED <<vms, exts, bricks, stopped, nics, pips, shared, parts, joined, att, grown>>
      /\ pc = "files" /\ kind = "slurm" /\ Running /\ cmd' = cmd
  BY Makes DEF SlurmFiles, Go, machines, pools, disks, azure
<1>2. /\ UNCHANGED <<kind, vmCount, existingOk, conf>> /\ Vms' = Vms
      /\ cmd.new \subseteq Vms /\ cmd.new \in SUBSET Nat /\ Vms \subseteq Offset
  <2>1. UNCHANGED <<kind, vmCount, existingOk, conf>> /\ Vms' = Vms
    BY <1>1 DEF config, Vms
  <2> QED
    BY <1>1, <2>1, Makes, VmsInRange DEF Inv
<1>3. PICK end \in {"ok", "raise", "fail"} : Go(end)
  BY DEF SlurmFiles
<1>4. Typed'
  BY <1>1, <1>2, <1>3 DEF Inv, TypeOK, Typed
<1>5. Within'
  BY <1>1, <1>2, <1>3 DEF Inv, Within
<1>6. ASSUME end = "ok" PROVE Making' /\ FromNothing' /\ Deleting'
  <2>1. pc' = After
    BY <1>3, <1>6 DEF Go
  <2>2. After = "pools" /\ cmd.op = "create"
    BY <1>1, Order
  <2>3. Making'
    BY <1>1, <1>2, <1>3, <1>6, <2>1, <2>2, Order
       DEF Inv, Making, Running, HasPips, HasNics, HasVms, HasVnet
  <2>4. FromNothing'
    BY <1>1, <1>2, <1>3, <1>6, <2>1, <2>2 DEF Inv, FromNothing, HasPips, HasNics, HasVms, HasVnet
  <2>5. Deleting'
    BY <1>1, Makes DEF Deleting, Running
  <2> QED
    BY <2>3, <2>4, <2>5
<1>7. cmd.op = "resize" => Vms \subseteq vms' \cup cmd.new
  BY <1>1, <1>3, Makes
<1>8. Unhindered => end # "raise"
  BY <1>1, <1>2, <1>3, Order DEF Inv, Unhindered, FromNothing, Running, HasPips, HasNics,
     HasVms, HasVnet, TypeOK
<1>9. After # "idle"
  BY <1>1, Order
<1> QED
  BY <1>1, <1>3, <1>4, <1>5, <1>6, <1>7, <1>8, <1>9, CallEnds

LEMMA ApplyToPoolsKeeps == ASSUME Inv, ApplyToPools PROVE Inv'
<1>1. /\ UNCHANGED config /\ UNCHANGED <<vms, exts, bricks, stopped, nics, pips, shared, parts, att, grown>>
      /\ pc = "pools" /\ Running /\ cmd' = cmd
  BY Makes DEF ApplyToPools, Go, machines, pools, disks, azure
<1>2. /\ UNCHANGED <<kind, vmCount, existingOk, conf>> /\ Vms' = Vms
      /\ cmd.new \subseteq Vms /\ cmd.new \in SUBSET Nat /\ Vms \subseteq Offset
  <2>1. UNCHANGED <<kind, vmCount, existingOk, conf>> /\ Vms' = Vms
    BY <1>1 DEF config, Vms
  <2> QED
    BY <1>1, <2>1, Makes, VmsInRange DEF Inv
<1>3. PICK end \in {"ok", "raise", "fail"}, n \in 0..2 :
         (end = "ok" <=> n = 2) /\ joined' = joined \cup 1..n /\ Go(end)
  BY DEF ApplyToPools
<1>10. joined' \subseteq Pools /\ (end = "ok" => joined' = Pools)
  <2>1. joined \subseteq 1..2 /\ Pools = 1..2
    BY DEF Inv, TypeOK, Pools
  <2>2. 1..n \subseteq 1..2 /\ (n = 2 => 1..n = 1..2)
    OBVIOUS
  <2> QED
    BY <2>1, <2>2, <1>3
<1>4. Typed'
  BY <1>1, <1>2, <1>3, <1>10 DEF Inv, TypeOK, Typed
<1>5. Within'
  BY <1>1, <1>2, <1>3, <1>10 DEF Inv, Within
<1>6. ASSUME end = "ok" PROVE Making' /\ FromNothing' /\ Deleting'
  <2>1. pc' = After
    BY <1>3, <1>6 DEF Go
  <2>2. After = "nsg" /\ kind = "slurm" /\ cmd.op = "create"
    BY <1>1, Order
  <2>3. Making'
    BY <1>1, <1>2, <1>3, <1>6, <1>10, <2>1, <2>2, Order
       DEF Inv, Making, Running, HasPips, HasNics, HasVms, HasVnet
  <2>4. FromNothing'
    BY <1>1, <1>2, <1>3, <1>6, <2>1, <2>2 DEF Inv, FromNothing, HasPips, HasNics, HasVms, HasVnet
  <2>5. Deleting'
    BY <1>1, Makes DEF Deleting, Running
  <2> QED
    BY <2>3, <2>4, <2>5
<1>7. cmd.op = "resize" => Vms \subseteq vms' \cup cmd.new
  BY <1>1, <1>3, <1>10, Makes
<1>8. Unhindered => end # "raise"
  BY <1>1, <1>2, <1>3, <1>10, Order DEF Inv, Unhindered, FromNothing, Running, HasPips, HasNics,
     HasVms, HasVnet, TypeOK
<1>9. After # "idle"
  BY <1>1, Order
<1> QED
  BY <1>1, <1>3, <1>4, <1>5, <1>6, <1>7, <1>8, <1>9, CallEnds

LEMMA CreateNsgKeeps == ASSUME Inv, CreateNsg PROVE Inv'
<1>1. /\ UNCHANGED config /\ UNCHANGED <<vms, exts, bricks, stopped, nics, pips, parts, joined, att, grown>>
      /\ pc = "nsg" /\ Running /\ cmd' = cmd
  BY Makes DEF CreateNsg, Go, machines, pools, disks, azure
<1>2. /\ UNCHANGED <<kind, vmCount, existingOk, conf>> /\ Vms' = Vms
      /\ cmd.new \subseteq Vms /\ cmd.new \in SUBSET Nat /\ Vms \subseteq Offset
  <2>1. UNCHANGED <<kind, vmCount, existingOk, conf>> /\ Vms' = Vms
    BY <1>1 DEF config, Vms
  <2> QED
    BY <1>1, <2>1, Makes, VmsInRange DEF Inv
<1>3. PICK end \in {"ok", "raise", "fail"} :
         /\ Go(end) /\ shared' \in {shared, shared \cup {"nsg"}}
         /\ end = "ok" => "nsg" \in shared'
         /\ end = "raise" => "nsg" \in shared
  BY DEF CreateNsg
<1>4. Typed'
  BY <1>1, <1>2, <1>3 DEF Inv, TypeOK, Typed
<1>5. Within'
  BY <1>1, <1>2, <1>3 DEF Inv, Within
<1>6. ASSUME end = "ok" PROVE Making' /\ FromNothing' /\ Deleting'
  <2>1. pc' = After
    BY <1>3, <1>6 DEF Go
  <2>2. After = "vnet" /\ cmd.op = "create"
    BY <1>1, Order
  <2>3. Making'
    BY <1>1, <1>2, <1>3, <1>6, <2>1, <2>2, Order
       DEF Inv, Making, Running, HasPips, HasNics, HasVms, HasVnet
  <2>4. FromNothing'
    BY <1>1, <1>2, <1>3, <1>6, <2>1, <2>2 DEF Inv, FromNothing, HasPips, HasNics, HasVms, HasVnet
  <2>5. Deleting'
    BY <1>1, Makes DEF Deleting, Running
  <2> QED
    BY <2>3, <2>4, <2>5
<1>7. cmd.op = "resize" => Vms \subseteq vms' \cup cmd.new
  BY <1>1, <1>3, Makes
<1>8. Unhindered => end # "raise"
  BY <1>1, <1>2, <1>3, Order DEF Inv, Unhindered, FromNothing, Running, HasPips, HasNics,
     HasVms, HasVnet, TypeOK
<1>9. After # "idle"
  BY <1>1, Order
<1> QED
  BY <1>1, <1>3, <1>4, <1>5, <1>6, <1>7, <1>8, <1>9, CallEnds

LEMMA CreateVnetKeeps == ASSUME Inv, CreateVnet PROVE Inv'
<1>1. /\ UNCHANGED config /\ UNCHANGED <<vms, exts, bricks, stopped, nics, pips, parts, joined, att, grown>>
      /\ pc = "vnet" /\ Running /\ cmd' = cmd
  BY Makes DEF CreateVnet, Go, machines, pools, disks, azure
<1>2. /\ UNCHANGED <<kind, vmCount, existingOk, conf>> /\ Vms' = Vms
      /\ cmd.new \subseteq Vms /\ cmd.new \in SUBSET Nat /\ Vms \subseteq Offset
  <2>1. UNCHANGED <<kind, vmCount, existingOk, conf>> /\ Vms' = Vms
    BY <1>1 DEF config, Vms
  <2> QED
    BY <1>1, <2>1, Makes, VmsInRange DEF Inv
<1>3. PICK end \in {"ok", "raise", "fail"} :
         /\ Go(end) /\ shared' = IF end = "ok" THEN shared \cup {"vnet"} ELSE shared
         /\ end = "raise" => ~existingOk
  BY DEF CreateVnet
<1>4. Typed'
  BY <1>1, <1>2, <1>3 DEF Inv, TypeOK, Typed
<1>5. Within'
  BY <1>1, <1>2, <1>3 DEF Inv, Within
<1>6. ASSUME end = "ok" PROVE Making' /\ FromNothing' /\ Deleting'
  <2>1. pc' = After
    BY <1>3, <1>6 DEF Go
  <2>2. After = "pips" /\ cmd.op = "create"
    BY <1>1, Order
  <2>3. Making'
    BY <1>1, <1>2, <1>3, <1>6, <2>1, <2>2, Order
       DEF Inv, Making, Running, HasPips, HasNics, HasVms, HasVnet
  <2>4. FromNothing'
    BY <1>1, <1>2, <1>3, <1>6, <2>1, <2>2 DEF Inv, FromNothing, HasPips, HasNics, HasVms, HasVnet
  <2>5. Deleting'
    BY <1>1, Makes DEF Deleting, Running
  <2> QED
    BY <2>3, <2>4, <2>5
<1>7. cmd.op = "resize" => Vms \subseteq vms' \cup cmd.new
  BY <1>1, <1>3, Makes
<1>8. Unhindered => end # "raise"
  BY <1>1, <1>2, <1>3, Order DEF Inv, Unhindered, FromNothing, Running, HasPips, HasNics,
     HasVms, HasVnet, TypeOK
<1>9. After # "idle"
  BY <1>1, Order
<1> QED
  BY <1>1, <1>3, <1>4, <1>5, <1>6, <1>7, <1>8, <1>9, CallEnds

LEMMA CreatePipsKeeps == ASSUME Inv, CreatePips PROVE Inv'
<1>1. /\ UNCHANGED config /\ UNCHANGED <<vms, exts, bricks, stopped, nics, shared, parts, joined, att, grown>>
      /\ pc = "pips" /\ Running /\ cmd' = cmd
  BY Makes DEF CreatePips, Go, machines, pools, disks, azure
<1>2. /\ UNCHANGED <<kind, vmCount, existingOk, conf>> /\ Vms' = Vms
      /\ cmd.new \subseteq Vms /\ cmd.new \in SUBSET Nat /\ Vms \subseteq Offset
  <2>1. UNCHANGED <<kind, vmCount, existingOk, conf>> /\ Vms' = Vms
    BY <1>1 DEF config, Vms
  <2> QED
    BY <1>1, <2>1, Makes, VmsInRange DEF Inv
<1>3. PICK o \in Made(cmd.new, pips) : pips' = o.to /\ Go(o.end)
  BY DEF CreatePips
<1>10. /\ pips \subseteq pips' /\ pips' \subseteq pips \cup cmd.new
       /\ o.end = "ok" => cmd.new \subseteq pips'
       /\ o.end = "raise" => cmd.new \cap pips # {}
  BY <1>2, <1>3, MadeFacts
<1>4. Typed'
  BY <1>1, <1>2, <1>3, <1>10 DEF Inv, TypeOK, Typed
<1>5. Within'
  BY <1>1, <1>2, <1>3, <1>10 DEF Inv, Within
<1>6. ASSUME o.end = "ok" PROVE Making' /\ FromNothing' /\ Deleting'
  <2>1. pc' = After
    BY <1>3, <1>6 DEF Go
  <2>2. After \in {"avset", "nics"} /\ (After = "avset" <=> kind = "slurm")
    BY <1>1, Order
  <2>3. Making'
    BY <1>1, <1>2, <1>3, <1>6, <1>10, <2>1, <2>2, Order
       DEF Inv, Making, Running, HasPips, HasNics, HasVms, HasVnet
  <2>4. FromNothing'
    BY <1>1, <1>2, <1>3, <1>6, <2>1, <2>2 DEF Inv, FromNothing, HasPips, HasNics, HasVms, HasVnet
  <2>5. Deleting'
    BY <1>1, Makes DEF Deleting, Running
  <2> QED
    BY <2>3, <2>4, <2>5
<1>7. cmd.op = "resize" => Vms \subseteq vms' \cup cmd.new
  BY <1>1, <1>3, <1>10, Makes
<1>8. Unhindered => o.end # "raise"
  BY <1>1, <1>2, <1>3, <1>10, Order DEF Inv, Unhindered, FromNothing, Running, HasPips, HasNics,
     HasVms, HasVnet, TypeOK
<1>9. After # "idle"
  BY <1>1, Order
<1> QED
  BY <1>1, <1>3, <1>4, <1>5, <1>6, <1>7, <1>8, <1>9, CallEnds

LEMMA CreateNicsKeeps == ASSUME Inv, CreateNics PROVE Inv'
<1>1. /\ UNCHANGED config /\ UNCHANGED <<vms, exts, bricks, stopped, pips, shared, parts, joined, att, grown>>
      /\ pc = "nics" /\ Running /\ cmd' = cmd
  BY Makes DEF CreateNics, Go, machines, pools, disks, azure
<1>2. /\ UNCHANGED <<kind, vmCount, existingOk, conf>> /\ Vms' = Vms
      /\ cmd.new \subseteq Vms /\ cmd.new \in SUBSET Nat /\ Vms \subseteq Offset
  <2>1. UNCHANGED <<kind, vmCount, existingOk, conf>> /\ Vms' = Vms
    BY <1>1 DEF config, Vms
  <2> QED
    BY <1>1, <2>1, Makes, VmsInRange DEF Inv
<1>3. PICK o \in Made(cmd.new, nics) : nics' = o.to /\ Go(o.end)
  BY DEF CreateNics
<1>10. /\ nics \subseteq nics' /\ nics' \subseteq nics \cup cmd.new
       /\ o.end = "ok" => cmd.new \subseteq nics'
       /\ o.end = "raise" => cmd.new \cap nics # {}
  BY <1>2, <1>3, MadeFacts
<1>4. Typed'
  BY <1>1, <1>2, <1>3, <1>10 DEF Inv, TypeOK, Typed
<1>5. Within'
  BY <1>1, <1>2, <1>3, <1>10 DEF Inv, Within
<1>6. ASSUME o.end = "ok" PROVE Making' /\ FromNothing' /\ Deleting'
  <2>1. pc' = After
    BY <1>3, <1>6 DEF Go
  <2>2. After \in {"avset", "vms"} /\ (After = "avset" <=> kind = "remotefs")
    BY <1>1, Order
  <2>3. Making'
    BY <1>1, <1>2, <1>3, <1>6, <1>10, <2>1, <2>2, Order
       DEF Inv, Making, Running, HasPips, HasNics, HasVms, HasVnet
  <2>4. FromNothing'
    BY <1>1, <1>2, <1>3, <1>6, <2>1, <2>2 DEF Inv, FromNothing, HasPips, HasNics, HasVms, HasVnet
  <2>5. Deleting'
    BY <1>1, Makes DEF Deleting, Running
  <2> QED
    BY <2>3, <2>4, <2>5
<1>7. cmd.op = "resize" => Vms \subseteq vms' \cup cmd.new
  BY <1>1, <1>3, <1>10, Makes
<1>8. Unhindered => o.end # "raise"
  BY <1>1, <1>2, <1>3, <1>10, Order DEF Inv, Unhindered, FromNothing, Running, HasPips, HasNics,
     HasVms, HasVnet, TypeOK
<1>9. After # "idle"
  BY <1>1, Order
<1> QED
  BY <1>1, <1>3, <1>4, <1>5, <1>6, <1>7, <1>8, <1>9, CallEnds

LEMMA AvailabilitySetKeeps == ASSUME Inv, AvailabilitySet PROVE Inv'
<1>1. /\ UNCHANGED config /\ UNCHANGED <<vms, exts, bricks, stopped, nics, pips, parts, joined, att, grown>>
      /\ pc = "avset" /\ Running /\ cmd' = cmd
  BY Makes DEF AvailabilitySet, Go, machines, pools, disks, azure
<1>2. /\ UNCHANGED <<kind, vmCount, existingOk, conf>> /\ Vms' = Vms
      /\ cmd.new \subseteq Vms /\ cmd.new \in SUBSET Nat /\ Vms \subseteq Offset
  <2>1. UNCHANGED <<kind, vmCount, existingOk, conf>> /\ Vms' = Vms
    BY <1>1 DEF config, Vms
  <2> QED
    BY <1>1, <2>1, Makes, VmsInRange DEF Inv
<1>3. PICK end \in {"ok", "raise", "fail"} :
         /\ Go(end)
         /\ \/ shared' = shared
            \/ shared' = shared \cup {"avset"} /\ (kind = "remotefs" => vmCount > 1)
         /\ end = "raise" /\ cmd.op = "create" => "avset" \in shared
  BY DEF AvailabilitySet
<1>4. Typed'
  BY <1>1, <1>2, <1>3 DEF Inv, TypeOK, Typed
<1>5. Within'
  BY <1>1, <1>2, <1>3 DEF Inv, Within
<1>6. ASSUME end = "ok" PROVE Making' /\ FromNothing' /\ Deleting'
  <2>1. pc' = After
    BY <1>3, <1>6 DEF Go
  <2>2. /\ After \in {"nics", "vms"} /\ (After = "nics" <=> kind = "slurm")
        /\ kind \in {"remotefs", "slurm"}
    BY <1>1, Order
  <2>3. Making'
    BY <1>1, <1>2, <1>3, <1>6, <2>1, <2>2, Order
       DEF Inv, Making, Running, HasPips, HasNics, HasVms, HasVnet
  <2>4. FromNothing'
    BY <1>1, <1>2, <1>3, <1>6, <2>1, <2>2 DEF Inv, FromNothing, HasPips, HasNics, HasVms, HasVnet
  <2>5. Deleting'
    BY <1>1, Makes DEF Deleting, Running
  <2> QED
    BY <2>3, <2>4, <2>5
<1>7. cmd.op = "resize" => Vms \subseteq vms' \cup cmd.new
  BY <1>1, <1>3, Makes
<1>8. Unhindered => end # "raise"
  BY <1>1, <1>2, <1>3, Order DEF Inv, Unhindered, FromNothing, Running, HasPips, HasNics,
     HasVms, HasVnet, TypeOK
<1>9. After # "idle"
  BY <1>1, Order
<1> QED
  BY <1>1, <1>3, <1>4, <1>5, <1>6, <1>7, <1>8, <1>9, CallEnds

LEMMA CreateVmsKeeps == ASSUME Inv, CreateVms PROVE Inv'
<1>1. /\ UNCHANGED config /\ UNCHANGED <<exts, bricks, stopped, nics, pips, shared, parts, joined, grown>>
      /\ pc = "vms" /\ Running /\ cmd' = cmd
  BY Makes DEF CreateVms, Go, machines, pools, disks, azure
<1>2. /\ UNCHANGED <<kind, vmCount, existingOk, conf>> /\ Vms' = Vms
      /\ cmd.new \subseteq Vms /\ cmd.new \in SUBSET Nat /\ Vms \subseteq Offset
  <2>1. UNCHANGED <<kind, vmCount, existingOk, conf>> /\ Vms' = Vms
    BY <1>1 DEF config, Vms
  <2> QED
    BY <1>1, <2>1, Makes, VmsInRange DEF Inv
<1>3. PICK o \in Made(cmd.new \ vms, vms) :
         /\ vms' = o.to /\ att' = att \cup (conf \cap (o.to \ vms))
         /\ Go(o.end)
  BY DEF CreateVms
<1>10. /\ vms \subseteq vms' /\ vms' \subseteq vms \cup cmd.new
       /\ o.end = "ok" => cmd.new \subseteq vms'
       /\ o.end # "raise"
  <2>1. cmd.new \ vms \in SUBSET Nat
    BY <1>2
  <2> QED
    BY <1>3, <2>1, MadeFacts
<1>11. cmd.new \subseteq nics
  BY <1>1 DEF Inv, Making, HasNics, HasVms
<1>4. Typed'
  BY <1>1, <1>2, <1>3, <1>10, <1>11 DEF Inv, TypeOK, Typed
<1>5. Within'
  BY <1>1, <1>2, <1>3, <1>10, <1>11 DEF Inv, Within
<1>6. ASSUME o.end = "ok" PROVE Making' /\ FromNothing' /\ Deleting'
  <2>1. pc' = After
    BY <1>3, <1>6 DEF Go
  <2>2. /\ After \in {"exts", "roles", "bricks"}
        /\ (After = "bricks" <=> cmd.op = "resize")
    BY <1>1, Order
  <2>3. Making'
    BY <1>1, <1>2, <1>3, <1>6, <1>10, <1>11, <2>1, <2>2, Order
       DEF Inv, Making, Running, HasPips, HasNics, HasVms, HasVnet
  <2>4. FromNothing'
    BY <1>1, <1>2, <1>3, <1>6, <2>1, <2>2 DEF Inv, FromNothing, HasPips, HasNics, HasVms, HasVnet
  <2>5. Deleting'
    BY <1>1, Makes DEF Deleting, Running
  <2> QED
    BY <2>3, <2>4, <2>5
<1>7. cmd.op = "resize" => Vms \subseteq vms' \cup cmd.new
  BY <1>1, <1>3, <1>10, <1>11, Makes
<1>8. Unhindered => o.end # "raise"
  BY <1>1, <1>2, <1>3, <1>10, <1>11, Order DEF Inv, Unhindered, FromNothing, Running, HasPips, HasNics,
     HasVms, HasVnet, TypeOK
<1>9. After # "idle"
  BY <1>1, Order
<1> QED
  BY <1>1, <1>3, <1>4, <1>5, <1>6, <1>7, <1>8, <1>9, CallEnds

LEMMA AssignRolesKeeps == ASSUME Inv, AssignRoles PROVE Inv'
<1>1. /\ UNCHANGED config /\ UNCHANGED <<vms, exts, bricks, stopped, nics, pips, shared, parts, joined, att, grown>>
      /\ pc = "roles" /\ Running /\ cmd' = cmd
  BY Makes DEF AssignRoles, Go, machines, pools, disks, azure
<1>2. /\ UNCHANGED <<kind, vmCount, existingOk, conf>> /\ Vms' = Vms
      /\ cmd.new \subseteq Vms /\ cmd.new \in SUBSET Nat /\ Vms \subseteq Offset
  <2>1. UNCHANGED <<kind, vmCount, existingOk, conf>> /\ Vms' = Vms
    BY <1>1 DEF config, Vms
  <2> QED
    BY <1>1, <2>1, Makes, VmsInRange DEF Inv
<1>3. PICK end \in {"ok", "fail"} : Go(end)
  BY DEF AssignRoles
<1>4. Typed'
  BY <1>1, <1>2, <1>3 DEF Inv, TypeOK, Typed
<1>5. Within'
  BY <1>1, <1>2, <1>3 DEF Inv, Within
<1>6. ASSUME end = "ok" PROVE Making' /\ FromNothing' /\ Deleting'
  <2>1. pc' = After
    BY <1>3, <1>6 DEF Go
  <2>2. After \in {"open", "exts"} /\ cmd.op = "create"
    BY <1>1, Order
  <2>3. Making'
    BY <1>1, <1>2, <1>3, <1>6, <2>1, <2>2, Order
       DEF Inv, Making, Running, HasPips, HasNics, HasVms, HasVnet
  <2>4. FromNothing'
    BY <1>1, <1>2, <1>3, <1>6, <2>1, <2>2 DEF Inv, FromNothing, HasPips, HasNics, HasVms, HasVnet
  <2>5. Deleting'
    BY <1>1, Makes DEF Deleting, Running
  <2> QED
    BY <2>3, <2>4, <2>5
<1>7. cmd.op = "resize" => Vms \subseteq vms' \cup cmd.new
  BY <1>1, <1>3, Makes
<1>8. Unhindered => end # "raise"
  BY <1>1, <1>2, <1>3, Order DEF Inv, Unhindered, FromNothing, Running, HasPips, HasNics,
     HasVms, HasVnet, TypeOK
<1>9. After # "idle"
  BY <1>1, Order
<1> QED
  BY <1>1, <1>3, <1>4, <1>5, <1>6, <1>7, <1>8, <1>9, CallEnds

LEMMA OpenPortKeeps == ASSUME Inv, OpenPort PROVE Inv'
<1>1. /\ UNCHANGED config /\ UNCHANGED <<vms, exts, bricks, stopped, nics, pips, parts, joined, att, grown>>
      /\ pc = "open" /\ Running /\ cmd' = cmd
  BY Makes DEF OpenPort, Go, machines, pools, disks, azure
<1>2. /\ UNCHANGED <<kind, vmCount, existingOk, conf>> /\ Vms' = Vms
      /\ cmd.new \subseteq Vms /\ cmd.new \in SUBSET Nat /\ Vms \subseteq Offset
  <2>1. UNCHANGED <<kind, vmCount, existingOk, conf>> /\ Vms' = Vms
    BY <1>1 DEF config, Vms
  <2> QED
    BY <1>1, <2>1, Makes, VmsInRange DEF Inv
<1>3. PICK end \in {"ok", "fail"} :
         Go(end) /\ shared' \in {shared, shared \cup {"port80"}}
  BY DEF OpenPort
<1>10. kind = "monitor"
  BY <1>1, Order
<1>4. Typed'
  BY <1>1, <1>2, <1>3 DEF Inv, TypeOK, Typed
<1>5. Within'
  BY <1>1, <1>2, <1>3, <1>10 DEF Inv, Within
<1>6. ASSUME end = "ok" PROVE Making' /\ FromNothing' /\ Deleting'
  <2>1. pc' = After
    BY <1>3, <1>6 DEF Go
  <2>2. After = "exts" /\ cmd.op = "create"
    BY <1>1, Order
  <2>3. Making'
    BY <1>1, <1>2, <1>3, <1>6, <2>1, <2>2, Order
       DEF Inv, Making, Running, HasPips, HasNics, HasVms, HasVnet
  <2>4. FromNothing'
    BY <1>1, <1>2, <1>3, <1>6, <2>1, <2>2 DEF Inv, FromNothing, HasPips, HasNics, HasVms, HasVnet
  <2>5. Deleting'
    BY <1>1, Makes DEF Deleting, Running
  <2> QED
    BY <2>3, <2>4, <2>5
<1>7. cmd.op = "resize" => Vms \subseteq vms' \cup cmd.new
  BY <1>1, <1>3, Makes
<1>8. Unhindered => end # "raise"
  BY <1>1, <1>2, <1>3, Order DEF Inv, Unhindered, FromNothing, Running, HasPips, HasNics,
     HasVms, HasVnet, TypeOK
<1>9. After # "idle"
  BY <1>1, Order
<1> QED
  BY <1>1, <1>3, <1>4, <1>5, <1>6, <1>7, <1>8, <1>9, CallEnds

LEMMA AddBricksKeeps == ASSUME Inv, AddBricks PROVE Inv'
<1>1. /\ UNCHANGED config /\ UNCHANGED <<vms, exts, stopped, nics, pips, shared, parts, joined, att, grown>>
      /\ pc = "bricks" /\ Running /\ After = "exts" /\ cmd.op = "resize"
  <2>1. pc = "bricks" /\ Running
    BY Makes DEF AddBricks
  <2> QED
    BY <2>1, Order DEF AddBricks, pools, disks
<1>2. UNCHANGED <<kind, vmCount, existingOk, conf>> /\ Vms' = Vms
  BY <1>1 DEF config, Vms
<1>3. cmd.new \subseteq vms /\ cmd.new \subseteq nics /\ cmd.new \subseteq pips
  BY <1>1 DEF Inv, Making, HasPips, HasNics, HasVms
<1>4. Within'
  BY <1>1, <1>2 DEF Inv, Within
<1>5. CASE Go("ok") /\ bricks' = bricks \cup cmd.new
  <2>1. cmd' = cmd /\ pc' = "exts"
    BY <1>1, <1>5 DEF Go
  <2>2. Typed'
    BY <1>1, <1>2, <1>3, <1>5 DEF Inv, TypeOK, Typed
  <2>3. Making' /\ FromNothing' /\ Deleting'
    BY <1>1, <1>2, <1>3, <1>5, <2>1
       DEF Making, FromNothing, Deleting, Running, HasPips, HasNics, HasVms, HasVnet
  <2>4. Vms \subseteq vms' \cup cmd.new
    BY <1>1, Makes
  <2> QED
    BY <1>1, <1>4, <1>5, <2>2, <2>3, <2>4, CallEnds DEF Unhindered
<1>6. CASE ~(Go("ok") /\ bricks' = bricks \cup cmd.new)
  <2>1. /\ faults' \in 0..MaxFaults /\ pc' = "exts" /\ cmd' = [cmd EXCEPT !.added = FALSE]
        /\ UNCHANGED <<last, clean, bricks>>
    BY <1>1, <1>6, VmResourceAssumption DEF AddBricks, Inv, TypeOK
  <2>2. /\ cmd' \in Command /\ cmd'.op = "resize" /\ cmd'.new = cmd.new /\ ~cmd'.added
        /\ last = "none"
    BY <1>1, <2>1 DEF Inv, TypeOK, Command, Working
  <2>3. "exts" \in DOMAIN Steps'
    BY <2>2 DEF Steps, ClusterResizes
  <2>4. TypeOK'
    BY <1>1, <1>2, <2>1, <2>2, <2>3 DEF Inv, TypeOK
  <2>5. Working'
    BY <1>1, <1>2, <2>1, <2>2, <2>3 DEF Inv, Working
  <2>6. Making' /\ FromNothing' /\ Deleting'
    BY <1>1, <1>2, <1>3, <2>1, <2>2
       DEF Making, FromNothing, Deleting, Running, HasPips, HasNics, HasVms, HasVnet
  <2>7. PrefixCleans' /\ ReportsTrue'
    BY <1>1, <2>1, <2>2 DEF Inv, Working, PrefixCleans, ReportsTrue
  <2> QED
    BY <1>4, <2>4, <2>5, <2>6, <2>7 DEF Inv
<1> QED
  BY <1>5, <1>6

\* The bootstrap scripts, that may build the volume and make file systems.
LEMMA InstallExtsKeeps ==
  ASSUME Inv, pc = "exts", InstallExts,
         bricks \subseteq bricks', bricks' \subseteq bricks \cup cmd.new, grown' \subseteq att,
         kind = "remotefs" /\ cmd.op = "create" /\ cmd.new \subseteq exts'
           => cmd.new \subseteq bricks',
         UNCHANGED <<config, vms, stopped, att, nics, pips, shared, pools>>
  PROVE  Inv'
<1>1. /\ UNCHANGED config /\ UNCHANGED <<vms, stopped, nics, pips, shared, parts, joined, att>>
      /\ pc = "exts" /\ Running /\ After = IF kind = "monitor" THEN "close" ELSE "idle"
  <2>1. pc = "exts" /\ Running
    BY Makes
  <2> QED
    BY <2>1, Order DEF pools
<1>2. /\ UNCHANGED <<kind, vmCount, existingOk, conf>> /\ Vms' = Vms
      /\ cmd.new \in SUBSET Nat
  BY <1>1, Makes DEF config, Vms
<1>3. cmd.new \subseteq vms /\ cmd.new \subseteq nics /\ cmd.new \subseteq pips
  BY <1>1 DEF Inv, Making, HasPips, HasNics, HasVms
<1>4. Within'
  BY <1>1, <1>2 DEF Inv, Within
<1>6. Vms \subseteq vms \cup cmd.new /\ cmd.op \in {"create", "resize"}
  BY <1>1, Makes DEF Inv, Working
<1>8. PICK end \in {"ok", "fail"} :
         /\ Go(end) /\ exts' \subseteq vms
         /\ end = "ok" => cmd.new \subseteq exts'
  <2>1. PICK o \in Made(cmd.new \ exts, exts) : exts' = o.to \cap vms /\ Go(o.end)
    BY DEF InstallExts
  <2>2. cmd.new \ exts \in SUBSET Nat
    BY <1>2
  <2>3. /\ exts \subseteq o.to /\ o.end \in {"ok", "raise", "fail"}
        /\ o.end = "ok" => cmd.new \ exts \subseteq o.to
        /\ o.end # "raise"
    BY <2>1, <2>2, MadeFacts
  <2> QED
    BY <1>3, <2>1, <2>3
<1>9. Typed'
  BY <1>1, <1>2, <1>3, <1>8 DEF Inv, TypeOK, Typed
<1>10. ASSUME end = "ok" PROVE Making' /\ FromNothing' /\ Deleting'
  <2>1. pc' = After /\ cmd' = cmd
    BY <1>8, <1>10 DEF Go
  <2>2. Making'
    BY <1>1, <1>2, <1>3, <1>8, <1>10, <2>1
       DEF Inv, Making, Running, HasPips, HasNics, HasVms, HasVnet
  <2>3. FromNothing'
    BY <1>1, <1>2, <2>1 DEF FromNothing, HasPips, HasNics, HasVms, HasVnet
  <2>4. Deleting'
    BY <1>6, <2>1 DEF Deleting
  <2> QED
    BY <2>2, <2>3, <2>4
<1>11. ASSUME end = "ok", cmd.added, After = "idle" PROVE Reported'
  <2>1. cmd' = cmd /\ kind # "monitor"
    BY <1>1, <1>8, <1>11 DEF Go
  <2>2. kind = "remotefs" => cmd.new \subseteq bricks'
    BY <1>1, <1>6, <1>8, <1>11 DEF Inv, Making
  <2>3. cmd.op = "create" =>
          /\ {"store", "nsg", "vnet"} \subseteq shared
          /\ kind = "slurm" => parts = Pools /\ joined = Pools
    BY <1>1 DEF Inv, Making, HasVnet, HasPips, HasVms
  <2>4. Vms \subseteq vms /\ vms \subseteq nics /\ "port80" \notin shared
    BY <1>3, <1>6, <2>1 DEF Inv, TypeOK, Within
  <2> QED
    BY <1>1, <1>2, <1>3, <1>8, <1>11, <2>1, <2>2, <2>3, <2>4 DEF Reported
<1> QED
  BY <1>1, <1>4, <1>6, <1>8, <1>9, <1>10, <1>11, CallEnds DEF Unhindered

LEMMA ExtsKeep ==
  ASSUME Inv, ClusterExts \/ MonitorExts \/ ProxyExts \/ SlurmExts
  PROVE  Inv'
<1>1. CASE ClusterExts
  <2>1. /\ bricks' = IF cmd.op = "create" /\ cmd.new \subseteq exts' \cap cmd.new
                    THEN bricks \cup cmd.new ELSE bricks
        /\ grown' = grown \cup (att \cap (exts' \cap cmd.new))
    BY <1>1 DEF ClusterExts
  <2>2. grown \subseteq att
    BY DEF Inv, TypeOK
  <2> QED
    BY <1>1, <2>1, <2>2, InstallExtsKeeps DEF ClusterExts
<1>2. CASE MonitorExts
  BY <1>2, InstallExtsKeeps DEF MonitorExts, disks, Inv, TypeOK
<1>3. CASE ProxyExts
  <2>1. /\ UNCHANGED config /\ Go("raise") /\ pc = "exts" /\ kind = "federation"
        /\ UNCHANGED <<vms, exts, bricks, stopped, nics, pips, shared, parts, joined, att, grown>>
    BY <1>3 DEF ProxyExts, azure, machines, pools, disks
  <2>2. UNCHANGED <<kind, vmCount, existingOk, conf>> /\ Vms' = Vms
    BY <2>1 DEF config, Vms
  <2>3. Typed' /\ Within' /\ (cmd.op = "resize" => Vms \subseteq vms' \cup cmd.new)
    BY <2>1, <2>2, Makes DEF Inv, TypeOK, Typed, Within
  <2> QED
    BY <2>1, <2>3, CallEnds DEF Unhindered
<1>4. CASE SlurmExts
  BY <1>4, InstallExtsKeeps DEF SlurmExts, disks, Inv, TypeOK
<1> QED
  BY <1>1, <1>2, <1>3, <1>4

LEMMA ClosePortKeeps == ASSUME Inv, ClosePort PROVE Inv'
<1>1. /\ UNCHANGED config /\ UNCHANGED <<vms, exts, bricks, stopped, nics, pips, parts, joined, att, grown>>
      /\ pc = "close" /\ Running /\ cmd' = cmd
  BY Makes DEF ClosePort, Go, machines, pools, disks
<1>2. /\ UNCHANGED <<kind, vmCount, existingOk, conf>> /\ Vms' = Vms
      /\ After = "idle" /\ kind = "monitor" /\ cmd.op = "create"
  BY <1>1, Order DEF config, Vms
<1>3. PICK end \in {"ok", "fail"} :
         Go(end) /\ shared' = IF end = "ok" THEN shared \ {"port80"} ELSE shared
  BY DEF ClosePort
<1>4. Typed'
  BY <1>1, <1>2, <1>3 DEF Inv, TypeOK, Typed
<1>5. Within'
  BY <1>1, <1>2, <1>3 DEF Inv, Within
<1>6. ASSUME end = "ok" PROVE Making' /\ FromNothing' /\ Deleting'
  <2>1. pc' = "idle"
    BY <1>2, <1>3, <1>6 DEF Go
  <2> QED
    BY <2>1 DEF Making, FromNothing, Deleting, Running
<1>7. ASSUME end = "ok" PROVE Reported'
  <2>1. cmd.new = Vms /\ cmd.new \subseteq vms \cap exts \cap pips
    BY <1>1, <1>2 DEF Inv, Working, Making, Running, HasPips, HasNics, HasVms
  <2>2. {"store", "nsg", "vnet"} \subseteq shared'
    BY <1>1, <1>2, <1>3, <1>7 DEF Inv, Making, HasVnet, HasPips, HasVms
  <2>3. vms \subseteq nics
    BY DEF Inv, TypeOK
  <2> QED
    BY <1>1, <1>2, <1>3, <1>7, <2>1, <2>2, <2>3 DEF Reported
<1> QED
  BY <1>1, <1>2, <1>3, <1>4, <1>5, <1>6, <1>7, CallEnds DEF Unhindered

-----------------------------------------------------------------------------
(* The calls of delete *)

\* A call that is only made by delete.
LEMMA Unmakes ==
  ASSUME Inv, pc \in {"delStore", "delVms", "delNics", "delNsg", "delPips", "delVnet",
                      "delAvset", "await"}
  PROVE  /\ cmd.op = "delete" /\ cmd.keys \subseteq Vms
         /\ cmd.prefix => cmd.keys = Vms
<1>1. cmd.op # "create" /\ cmd.op # "resize"
  BY CreateOrder, ResizeOrder DEF Inv
<1> QED
  BY <1>1 DEF Inv, Working

LEMMA DeleteStoreKeeps == ASSUME Inv, DeleteStore PROVE Inv'
<1>1. /\ UNCHANGED config /\ UNCHANGED <<vms, exts, bricks, stopped, nics, pips, joined, att, grown>>
      /\ pc = "delStore" /\ cmd.op = "delete"
  BY Unmakes DEF DeleteStore, machines, pools, disks
<1>2. UNCHANGED <<kind, vmCount, existingOk, conf>> /\ Vms' = Vms
  BY <1>1 DEF config, Vms
<1>3. PICK end \in {"ok", "fail"} :
         /\ Go(end) /\ shared' \subseteq shared /\ parts' \in {parts, {}}
         /\ end = "ok" /\ kind # "slurm" => shared' = shared \ {"store"}
  BY DEF DeleteStore
<1>4. Typed'
  BY <1>1, <1>2, <1>3 DEF Inv, TypeOK, Typed
<1>5. Within'
  BY <1>1, <1>2, <1>3 DEF Inv, Within
<1>6. ASSUME end = "ok" PROVE Making' /\ FromNothing' /\ Deleting'
  <2>1. pc' = After /\ cmd' = cmd
    BY <1>3, <1>6 DEF Go
  <2>2. After = IF kind = "slurm" THEN "await" ELSE "delVms"
    BY <1>1, DeleteOrder DEF Inv
  <2>3. Deleting'
    BY <1>1, <1>2, <1>3, <1>6, <2>1, <2>2 DEF Inv, Deleting, NoVms, NoNics, NoPips
  <2> QED
    BY <1>1, <2>1, <2>3 DEF Making, FromNothing, Running
<1> QED
  BY <1>1, <1>3, <1>4, <1>5, <1>6, CallEnds DEF Unhindered

LEMMA DeleteVmsKeeps == ASSUME Inv, DeleteVms PROVE Inv'
<1>1. /\ UNCHANGED config /\ UNCHANGED <<nics, pips, shared, parts, joined>>
      /\ pc = "delVms" /\ cmd.op = "delete"
  BY Unmakes DEF DeleteVms, machines, pools, disks
<1>2. UNCHANGED <<kind, vmCount, existingOk, conf>> /\ Vms' = Vms
  BY <1>1 DEF config, Vms
<1>3. PICK end \in {"ok", "fail"} :
         /\ Go(end) /\ vms' \subseteq vms
         /\ exts' = exts \cap vms' /\ stopped' = stopped \cap vms'
         /\ bricks' = bricks \cap vms' /\ att' = att \cap vms' /\ grown' = grown \cap vms'
         /\ end = "ok" => vms' \cap cmd.keys = {}
  <2>1. PICK o \in Removed(vms \cap cmd.keys, vms) :
           /\ vms' = o.to /\ Go(o.end)
           /\ exts' = exts \cap o.to /\ stopped' = stopped \cap o.to
           /\ bricks' = bricks \cap o.to
           /\ att' = att \cap o.to /\ grown' = grown \cap o.to
    BY DEF DeleteVms
  <2> QED
    BY <2>1, RemovedFacts
<1>4. Typed'
  BY <1>1, <1>2, <1>3 DEF Inv, TypeOK, Typed
<1>5. Within'
  BY <1>1, <1>2, <1>3 DEF Inv, Within
<1>6. ASSUME end = "ok" PROVE Making' /\ FromNothing' /\ Deleting'
  <2>1. pc' = After /\ cmd' = cmd
    BY <1>3, <1>6 DEF Go
  <2>2. After = "delNics"
    BY <1>1, DeleteOrder DEF Inv
  <2>3. Deleting'
    BY <1>1, <1>2, <1>3, <1>6, <2>1, <2>2 DEF Inv, Deleting, NoVms, NoNics, NoPips
  <2> QED
    BY <1>1, <2>1, <2>3 DEF Making, FromNothing, Running
<1> QED
  BY <1>1, <1>3, <1>4, <1>5, <1>6, CallEnds DEF Unhindered

LEMMA DeleteNicsKeeps == ASSUME Inv, DeleteNics PROVE Inv'
<1>1. /\ UNCHANGED config /\ UNCHANGED <<vms, exts, bricks, stopped, pips, shared, parts, joined, att, grown>>
      /\ pc = "delNics" /\ cmd.op = "delete"
  BY Unmakes DEF DeleteNics, machines, pools, disks
<1>2. UNCHANGED <<kind, vmCount, existingOk, conf>> /\ Vms' = Vms
  BY <1>1 DEF config, Vms
<1>3. PICK end \in {"ok", "fail"} :
         /\ Go(end) /\ nics' \subseteq nics /\ nics \ cmd.keys \subseteq nics'
         /\ end = "ok" => nics' \cap cmd.keys = {}
  <2>1. PICK o \in Removed(nics \cap cmd.keys, nics) : nics' = o.to /\ Go(o.end)
    BY DEF DeleteNics
  <2> QED
    BY <2>1, RemovedFacts
<1>7. vms \cap cmd.keys = {}
  BY <1>1 DEF Inv, Deleting, NoVms
<1>4. Typed'
  BY <1>1, <1>2, <1>3, <1>7 DEF Inv, TypeOK, Typed
<1>5. Within'
  BY <1>1, <1>2, <1>3 DEF Inv, Within
<1>6. ASSUME end = "ok" PROVE Making' /\ FromNothing' /\ Deleting'
  <2>1. pc' = After /\ cmd' = cmd
    BY <1>3, <1>6 DEF Go
  <2>2. After = "delNsg"
    BY <1>1, DeleteOrder DEF Inv
  <2>3. Deleting'
    BY <1>1, <1>2, <1>3, <1>6, <2>1, <2>2 DEF Inv, Deleting, NoVms, NoNics, NoPips
  <2> QED
    BY <1>1, <2>1, <2>3 DEF Making, FromNothing, Running
<1> QED
  BY <1>1, <1>3, <1>4, <1>5, <1>6, CallEnds DEF Unhindered

LEMMA DeletePipsKeeps == ASSUME Inv, DeletePips PROVE Inv'
<1>1. /\ UNCHANGED config /\ UNCHANGED <<vms, exts, bricks, stopped, nics, shared, parts, joined, att, grown>>
      /\ pc = "delPips" /\ cmd.op = "delete"
  BY Unmakes DEF DeletePips, machines, pools, disks
<1>2. UNCHANGED <<kind, vmCount, existingOk, conf>> /\ Vms' = Vms
  BY <1>1 DEF config, Vms
<1>3. PICK end \in {"ok", "fail"} :
         /\ Go(end) /\ pips' \subseteq pips /\ pips \ cmd.keys \subseteq pips'
         /\ end = "ok" => pips' \cap cmd.keys = {}
  <2>1. PICK o \in Removed(pips \cap cmd.keys, pips) : pips' = o.to /\ Go(o.end)
    BY DEF DeletePips
  <2> QED
    BY <2>1, RemovedFacts
<1>4. Typed'
  BY <1>1, <1>2, <1>3 DEF Inv, TypeOK, Typed
<1>5. Within'
  BY <1>1, <1>2, <1>3 DEF Inv, Within
<1>6. ASSUME end = "ok" PROVE Making' /\ FromNothing' /\ Deleting'
  <2>1. pc' = After /\ cmd' = cmd
    BY <1>3, <1>6 DEF Go
  <2>2. After = "delVnet"
    BY <1>1, DeleteOrder DEF Inv
  <2>3. Deleting'
    BY <1>1, <1>2, <1>3, <1>6, <2>1, <2>2 DEF Inv, Deleting, NoVms, NoNics, NoPips
  <2> QED
    BY <1>1, <2>1, <2>3 DEF Making, FromNothing, Running
<1> QED
  BY <1>1, <1>3, <1>4, <1>5, <1>6, CallEnds DEF Unhindered

LEMMA DeleteNsgKeeps == ASSUME Inv, DeleteNsg PROVE Inv'
<1>1. /\ UNCHANGED config /\ UNCHANGED <<vms, exts, bricks, stopped, nics, pips, parts, joined, att, grown>>
      /\ pc = "delNsg" /\ cmd.op = "delete"
  BY Unmakes DEF DeleteNsg, machines, pools, disks
<1>2. UNCHANGED <<kind, vmCount, existingOk, conf>> /\ Vms' = Vms
  BY <1>1 DEF config, Vms
<1>3. PICK end \in {"ok", "raise", "fail"} : Go(end) /\ shared' \subseteq shared
  BY DEF DeleteNsg
<1>4. Typed'
  BY <1>1, <1>2, <1>3 DEF Inv, TypeOK, Typed
<1>5. Within'
  BY <1>1, <1>2, <1>3 DEF Inv, Within
<1>6. ASSUME end = "ok" PROVE Making' /\ FromNothing' /\ Deleting'
  <2>1. pc' = After /\ cmd' = cmd
    BY <1>3, <1>6 DEF Go
  <2>2. After = "delPips"
    BY <1>1, DeleteOrder DEF Inv
  <2>3. Deleting'
    BY <1>1, <1>2, <1>3, <1>6, <2>1, <2>2 DEF Inv, Deleting, NoVms, NoNics, NoPips
  <2> QED
    BY <1>1, <2>1, <2>3 DEF Making, FromNothing, Running
<1> QED
  BY <1>1, <1>3, <1>4, <1>5, <1>6, CallEnds DEF Unhindered

LEMMA DeleteVnetKeeps == ASSUME Inv, DeleteVnet PROVE Inv'
<1>1. /\ UNCHANGED config /\ UNCHANGED <<vms, exts, bricks, stopped, nics, pips, parts, joined, att, grown>>
      /\ pc = "delVnet" /\ cmd.op = "delete"
  BY Unmakes DEF DeleteVnet, machines, pools, disks
<1>2. UNCHANGED <<kind, vmCount, existingOk, conf>> /\ Vms' = Vms
  BY <1>1 DEF config, Vms
<1>3. PICK end \in {"ok", "fail"} : Go(end) /\ shared' \subseteq shared
  BY DEF DeleteVnet
<1>4. Typed'
  BY <1>1, <1>2, <1>3 DEF Inv, TypeOK, Typed
<1>5. Within'
  BY <1>1, <1>2, <1>3 DEF Inv, Within
<1>6. ASSUME end = "ok" PROVE Making' /\ FromNothing' /\ Deleting'
  <2>1. pc' = After /\ cmd' = cmd
    BY <1>3, <1>6 DEF Go
  <2>2. After = IF kind \in {"remotefs", "slurm"} THEN "delAvset" ELSE "await"
    BY <1>1, DeleteOrder DEF Inv
  <2>3. Deleting'
    BY <1>1, <1>2, <1>3, <1>6, <2>1, <2>2 DEF Inv, Deleting, NoVms, NoNics, NoPips
  <2> QED
    BY <1>1, <2>1, <2>3 DEF Making, FromNothing, Running
<1> QED
  BY <1>1, <1>3, <1>4, <1>5, <1>6, CallEnds DEF Unhindered

LEMMA DeleteAvsetKeeps == ASSUME Inv, DeleteAvset PROVE Inv'
<1>1. /\ UNCHANGED config /\ UNCHANGED <<vms, exts, bricks, stopped, nics, pips, parts, joined, att, grown>>
      /\ pc = "delAvset" /\ cmd.op = "delete"
  BY Unmakes DEF DeleteAvset, machines, pools, disks
<1>2. UNCHANGED <<kind, vmCount, existingOk, conf>> /\ Vms' = Vms
  BY <1>1 DEF config, Vms
<1>3. PICK end \in {"ok", "fail"} :
         /\ Go(end) /\ shared' \subseteq shared
         /\ end = "ok" /\ kind = "remotefs" => "avset" \notin shared'
  BY DEF DeleteAvset, Inv, Within, TypeOK
<1>4. Typed'
  BY <1>1, <1>2, <1>3 DEF Inv, TypeOK, Typed
<1>5. Within'
  BY <1>1, <1>2, <1>3 DEF Inv, Within
<1>6. ASSUME end = "ok" PROVE Making' /\ FromNothing' /\ Deleting'
  <2>1. pc' = After /\ cmd' = cmd
    BY <1>3, <1>6 DEF Go
  <2>2. /\ kind \in {"remotefs", "slurm"}
        /\ After = IF kind = "slurm" THEN "delStore" ELSE "await"
    BY <1>1, DeleteOrder DEF Inv
  <2>3. Deleting'
    BY <1>1, <1>2, <1>3, <1>6, <2>1, <2>2 DEF Inv, Deleting, NoVms, NoNics, NoPips
  <2> QED
    BY <1>1, <2>1, <2>3 DEF Making, FromNothing, Running
<1> QED
  BY <1>1, <1>3, <1>4, <1>5, <1>6, CallEnds DEF Unhindered

LEMMA AwaitKeeps == ASSUME Inv, Await PROVE Inv'
<1>1. /\ UNCHANGED config /\ UNCHANGED <<vms, exts, bricks, stopped, nics, pips, parts, joined, att, grown>>
      /\ pc = "await" /\ cmd.op = "delete" /\ UNCHANGED <<cmd, faults>>
      /\ pc' = "idle" /\ last' = "done" /\ clean' = (cmd.prefix /\ cmd.wait)
      /\ shared' = IF cmd.wait THEN shared \ {"nsg", "port80"} ELSE shared
      /\ cmd.prefix => cmd.keys = Vms
  BY Unmakes DEF Await, machines, pools, disks
<1>2. UNCHANGED <<kind, vmCount, existingOk, conf>> /\ Vms' = Vms /\ Steps' = Steps
  BY <1>1 DEF config, Vms, Steps
<1>3. clean' \in BOOLEAN
  BY <1>1 DEF Inv, TypeOK, Command
<1>4. TypeOK'
  BY <1>1, <1>2, <1>3 DEF Inv, TypeOK
<1>5. clean' => NothingLeft'
  BY <1>1, <1>2 DEF Inv, Within, Deleting, NothingLeft, NoVms, NoNics, NoPips
<1> QED
  BY <1>1, <1>2, <1>4, <1>5 DEF Inv, Within, Working, Making, Running, FromNothing, Deleting,
     PrefixCleans, ReportsTrue

LEMMA InterruptKeeps == ASSUME Inv, Interrupt PROVE Inv'
<1>1. /\ pc # "idle" /\ pc' = "idle" /\ last' = "failed" /\ UNCHANGED <<cmd, clean, faults>>
      /\ UNCHANGED <<kind, vmCount, existingOk, conf>>
      /\ UNCHANGED <<vms, exts, bricks, stopped, nics, pips, shared, parts, joined, att, grown>>
  BY DEF Interrupt, config, azure, machines, pools, disks
<1>2. Steps' = Steps /\ Vms' = Vms
  BY <1>1 DEF Steps, Vms
<1> QED
  BY <1>1, <1>2 DEF Inv, TypeOK, Within, Working, Making, Running, FromNothing, Deleting,
     PrefixCleans, ReportsTrue

-----------------------------------------------------------------------------
(* The start of a command *)

\* A command that is over at once.
LEMMA EndsAtOnce ==
  ASSUME Inv, UNCHANGED config, pc' = "idle", Typed', Within', cmd' \in Command,
         last' \in {"none", "done", "raised", "failed", "expanded"}, clean' = FALSE,
         faults' \in 0..MaxFaults,
         cmd'.op = "create" /\ cmd'.base => last' # "raised",
         ReportsTrue'
  PROVE  Inv'
<1>1. TypeOK'
  BY DEF TypeOK, Typed
<1> QED
  BY <1>1 DEF Inv, Working, Making, Running, FromNothing, Deleting, PrefixCleans

LEMMA CreateKeeps == ASSUME Inv, Create PROVE Inv'
<1> DEFINE c == [NoCommand EXCEPT !.op = "create", !.new = Vms, !.base = clean]
<1>1. /\ pc = "idle" /\ UNCHANGED config /\ UNCHANGED <<kind, vmCount, existingOk, conf>>
      /\ UNCHANGED <<vms, exts, bricks, stopped, nics, pips, shared, parts, joined, att, grown>>
      /\ \/ vms # {} /\ Returns(c, "raised")
         \/ Begin(c, "store")
  BY DEF Create, ClusterCreate, MonitorCreate, ProxyCreate, SlurmCreate, Creation, Found,
     config, azure, machines, pools, disks
<1>2. Vms' = Vms /\ Vms \in SUBSET Offset
  BY <1>1, VmsInRange DEF Vms, Inv
<1>3. /\ c \in Command /\ c.op = "create" /\ c.new = Vms /\ c.base = clean /\ c.added
  BY <1>2 DEF NoCommand, Command, Inv, TypeOK
<1> HIDE DEF c
<1>4. Typed' /\ Within'
  BY <1>1, <1>2 DEF Inv, TypeOK, Typed, Within
<1>5. CASE vms # {} /\ Returns(c, "raised")
  <2>1. pc' = "idle" /\ cmd' = c /\ last' = "raised" /\ clean' = FALSE /\ faults' = faults
    BY <1>5 DEF Returns
  <2>2. ~clean
    BY <1>5 DEF Inv, PrefixCleans, NothingLeft
  <2> QED
    BY <1>1, <1>3, <1>4, <2>1, <2>2, EndsAtOnce DEF Inv, TypeOK, ReportsTrue
<1>6. CASE Begin(c, "store")
  <2>1. pc' = "store" /\ cmd' = c /\ last' = "none" /\ clean' = FALSE /\ faults' = faults
    BY <1>6 DEF Begin
  <2>2. "store" \in DOMAIN Steps'
    BY <1>1, <1>3, <2>1 DEF Inv, TypeOK, Steps, Creates, ClusterCreates, MonitorCreates,
       ProxyCreates, SlurmCreates
  <2>3. TypeOK' /\ Working'
    BY <1>1, <1>2, <1>3, <1>4, <2>1, <2>2 DEF Inv, TypeOK, Typed, Working
  <2>4. Making' /\ Deleting' /\ PrefixCleans' /\ ReportsTrue'
    BY <1>3, <2>1 DEF Making, Running, Deleting, PrefixCleans, ReportsTrue,
       HasPips, HasNics, HasVms, HasVnet
  <2>5. FromNothing'
    BY <1>1, <1>3, <2>1 DEF FromNothing, Inv, TypeOK, PrefixCleans, NothingLeft
  <2> QED
    BY <1>4, <2>3, <2>4, <2>5 DEF Inv
<1> QED
  BY <1>1, <1>5, <1>6

LEMMA ResizeKeeps == ASSUME Inv, Resize PROVE Inv'
<1> DEFINE c == [NoCommand EXCEPT !.op = "resize", !.new = Vms \ vms]
<1>1. /\ pc = "idle" /\ UNCHANGED config /\ UNCHANGED <<kind, vmCount, existingOk, conf>>
      /\ kind = "remotefs"
      /\ UNCHANGED <<vms, exts, bricks, stopped, nics, pips, shared, parts, joined, att, grown>>
      /\ \/ c.new = {} /\ Returns(c, "done")
         \/ Returns(c, "raised")
         \/ Begin(c, "store")
  BY DEF Resize, config, azure, machines, pools, disks
<1>2. Vms' = Vms /\ Vms \in SUBSET Offset
  BY <1>1, VmsInRange DEF Vms, Inv
<1>3. c \in Command /\ c.op = "resize" /\ c.new = Vms \ vms /\ c.added
  BY <1>2 DEF NoCommand, Command
<1> HIDE DEF c
<1>4. Typed' /\ Within'
  BY <1>1, <1>2 DEF Inv, TypeOK, Typed, Within
<1>5. ASSUME NEW r \in {"done", "raised"}, Returns(c, r), r = "done" => c.new = {}
      PROVE  Inv'
  <2>1. pc' = "idle" /\ cmd' = c /\ last' = r /\ clean' = FALSE /\ faults' = faults
    BY <1>5 DEF Returns
  <2>2. ReportsTrue'
    BY <1>1, <1>2, <1>3, <1>5, <2>1 DEF Inv, TypeOK, ReportsTrue
  <2> QED
    BY <1>1, <1>3, <1>4, <2>1, <2>2, EndsAtOnce DEF Inv, TypeOK
<1>6. CASE Begin(c, "store")
  <2>1. pc' = "store" /\ cmd' = c /\ last' = "none" /\ clean' = FALSE /\ faults' = faults
    BY <1>6 DEF Begin
  <2>2. "store" \in DOMAIN Steps'
    BY <1>3, <2>1 DEF Steps, ClusterResizes
  <2>3. TypeOK' /\ Working'
    BY <1>1, <1>2, <1>3, <1>4, <2>1, <2>2 DEF Inv, TypeOK, Typed, Working
  <2>4. Making' /\ FromNothing' /\ Deleting' /\ PrefixCleans' /\ ReportsTrue'
    BY <1>3, <2>1 DEF Making, Running, FromNothing, Deleting, PrefixCleans, ReportsTrue,
       HasPips, HasNics, HasVms, HasVnet
  <2> QED
    BY <1>4, <2>3, <2>4 DEF Inv
<1> QED
  BY <1>1, <1>5, <1>6

LEMMA DeleteKeeps == ASSUME Inv, Delete PROVE Inv'
<1> DEFINE c(prefix, wait, vnet) ==
             [NoCommand EXCEPT !.op = "delete", !.found = Found,
                !.keys = Keys(Found, prefix), !.prefix = prefix, !.wait = wait, !.vnet = vnet]
<1>1. /\ pc = "idle" /\ UNCHANGED config /\ UNCHANGED <<kind, vmCount, existingOk, conf>>
      /\ UNCHANGED <<vms, exts, bricks, stopped, nics, pips, shared, parts, joined, att, grown>>
      /\ \E prefix, wait, vnet \in BOOLEAN :
           \/ Returns(c(prefix, wait, vnet), "done")
           \/ Begin(c(prefix, wait, vnet), FirstDelete)
  BY DEF Delete, ClusterDelete, MonitorDelete, ProxyDelete, SlurmDelete, Deletion, config,
     azure, machines, pools, disks
<1>2. Vms' = Vms /\ Vms \in SUBSET Offset
  BY <1>1, VmsInRange DEF Vms, Inv
<1>3. PICK prefix, wait, vnet \in BOOLEAN :
           \/ Returns(c(prefix, wait, vnet), "done")
           \/ Begin(c(prefix, wait, vnet), FirstDelete)
  BY <1>1
<1> DEFINE d == c(prefix, wait, vnet)
<1>4. /\ d \in Command /\ d.op = "delete" /\ d.keys \subseteq Vms
      /\ d.prefix => d.keys = Vms
  BY <1>2 DEF NoCommand, Command, Keys, Found
<1>5. Returns(d, "done") \/ Begin(d, FirstDelete)
  BY <1>3
<1> HIDE DEF d
<1>6. Typed' /\ Within'
  BY <1>1, <1>2 DEF Inv, TypeOK, Typed, Within
<1>7. CASE Returns(d, "done")
  <2>1. pc' = "idle" /\ cmd' = d /\ last' = "done" /\ clean' = FALSE /\ faults' = faults
    BY <1>7 DEF Returns
  <2> QED
    BY <1>1, <1>4, <1>6, <2>1, EndsAtOnce DEF Inv, TypeOK, ReportsTrue
<1>8. CASE Begin(d, FirstDelete)
  <2>1. /\ pc' = IF kind = "slurm" THEN "delVms" ELSE "delStore"
        /\ cmd' = d /\ last' = "none" /\ clean' = FALSE /\ faults' = faults
    BY <1>8 DEF Begin, FirstDelete
  <2>2. pc' \in DOMAIN Steps'
    BY <1>1, <1>4, <2>1 DEF Inv, TypeOK, Steps, Deletes, ClusterDeletes, MonitorDeletes,
       ProxyDeletes, SlurmDeletes
  <2>3. TypeOK' /\ Working'
    BY <1>1, <1>2, <1>4, <1>6, <2>1, <2>2 DEF Inv, TypeOK, Typed, Working
  <2>4. Making' /\ FromNothing' /\ Deleting' /\ PrefixCleans' /\ ReportsTrue'
    BY <1>1, <1>4, <2>1 DEF Making, Running, FromNothing, Deleting, PrefixCleans, ReportsTrue,
       NoVms, NoNics, NoPips
  <2> QED
    BY <1>6, <2>3, <2>4 DEF Inv
<1> QED
  BY <1>5, <1>7, <1>8

LEMMA DeleteGroupKeeps == ASSUME Inv, DeleteGroup PROVE Inv'
<1> DEFINE c == [NoCommand EXCEPT !.op = "delete"]
<1>1. c \in Command /\ c.op = "delete"
  BY DEF NoCommand, Command
<1>2. /\ UNCHANGED config /\ UNCHANGED <<kind, vmCount, existingOk, conf>>
      /\ \E r \in {"raised", "done"} : Returns(c, r)
  BY DEF DeleteGroup, config
<1> HIDE DEF c
<1>3. /\ pc' = "idle" /\ cmd' = c /\ last' \in {"raised", "done"} /\ clean' = FALSE
      /\ faults' = faults
  BY <1>2 DEF Returns
<1>4. /\ vms' \subseteq vms /\ vms' \subseteq nics' /\ nics' \subseteq nics
      /\ pips' \subseteq pips /\ exts' \subseteq vms' /\ bricks' \subseteq vms'
      /\ stopped' \subseteq vms' /\ grown' \subseteq att' /\ att' \subseteq vms'
      /\ shared' \subseteq shared /\ UNCHANGED <<parts, joined>>
  BY DEF DeleteGroup, azure, machines, pools, disks, Inv, TypeOK
<1>5. Vms' = Vms
  BY <1>2 DEF Vms
<1>6. Typed' /\ Within'
  BY <1>2, <1>3, <1>4, <1>5 DEF Inv, TypeOK, Typed, Within
<1> QED
  BY <1>1, <1>2, <1>3, <1>6, EndsAtOnce DEF Inv, TypeOK, ReportsTrue

LEMMA ExpandKeeps == ASSUME Inv, Expand PROVE Inv'
<1> DEFINE new == (conf \ att) \cap Vms
           c == [NoCommand EXCEPT !.op = "expand", !.new = new]
<1>1. /\ pc = "idle" /\ UNCHANGED config /\ UNCHANGED <<kind, vmCount, existingOk, conf>>
      /\ UNCHANGED <<vms, exts, bricks, stopped, nics, pips, shared, parts, joined>>
  BY DEF Expand, config, machines, pools
<1>2. Vms' = Vms /\ Vms \in SUBSET Offset
  BY <1>1, VmsInRange DEF Vms, Inv
<1>3. c \in Command /\ c.op = "expand"
  BY <1>2 DEF NoCommand, Command
<1>4. \E r \in {"raised", "done", "expanded", "failed"} :
        /\ pc' = "idle" /\ cmd' = c /\ last' = r /\ clean' = FALSE /\ faults' \in 0..MaxFaults
        /\ grown' \subseteq att' /\ att' \subseteq vms
        /\ r = "expanded" => Vms \subseteq grown'
  <2>1. CASE Returns(c, "raised") /\ UNCHANGED <<att, grown>>
    BY <2>1 DEF Returns, Inv, TypeOK
  <2>2. CASE Returns(c, "done") /\ UNCHANGED <<att, grown>>
    BY <2>2 DEF Returns, Inv, TypeOK
  <2>3. CASE /\ Vms \subseteq vms
             /\ Returns(c, IF new = Vms THEN "expanded" ELSE "raised")
             /\ att' = att \cup new /\ grown' = grown \cup new
    BY <2>3 DEF Returns, Inv, TypeOK
  <2>4. CASE /\ Vms \subseteq vms /\ faults < MaxFaults
             /\ \E T \in SUBSET new : \E G \in SUBSET T :
                  att' = att \cup T /\ grown' = grown \cup G
             /\ faults' = faults + 1 /\ pc' = "idle" /\ cmd' = c /\ clean' = FALSE
             /\ last' = "failed"
    <3>1. faults' \in 0..MaxFaults
      BY <2>4, VmResourceAssumption DEF Inv, TypeOK
    <3>2. grown' \subseteq att' /\ att' \subseteq vms
      BY <2>4 DEF Inv, TypeOK
    <3> QED
      BY <2>4, <3>1, <3>2
  <2> QED
    BY <2>1, <2>2, <2>3, <2>4 DEF Expand
<1>5. Typed' /\ Within'
  BY <1>1, <1>2, <1>4 DEF Inv, TypeOK, Typed, Within
<1>6. ReportsTrue'
  BY <1>1, <1>2, <1>3, <1>4 DEF ReportsTrue
<1> QED
  BY <1>1, <1>3, <1>4, <1>5, <1>6, EndsAtOnce

\* suspend and start only stop and start VMs that exist.
LEMMA StopsKeep == ASSUME Inv, Suspend \/ Start \/ SuspendVms \/ StartVms PROVE Inv'
<1>1. /\ pc = "idle" /\ UNCHANGED config /\ UNCHANGED <<kind, vmCount, existingOk, conf>>
      /\ UNCHANGED <<vms, exts, bricks, nics, pips, shared, parts, joined, att, grown>>
  BY DEF Suspend, Start, SuspendVms, StartVms, config, pools, disks
<1>2. Vms' = Vms
  BY <1>1 DEF Vms
<1>3. /\ [NoCommand EXCEPT !.op = "suspend"] \in Command
      /\ [NoCommand EXCEPT !.op = "start"] \in Command
  BY DEF NoCommand, Command
<1>4. /\ pc' = "idle" /\ cmd' \in Command /\ cmd'.op \in {"suspend", "start"}
      /\ clean' = FALSE
      /\ last' \in {"done", "raised", "failed"}
      /\ stopped' \subseteq vms
      /\ faults' \in 0..MaxFaults
  <2>1. CASE Suspend
    <3>1. PICK o \in Removed(Found, vms \ stopped), wait \in BOOLEAN :
             /\ stopped' = vms \ o.to
             /\ pc' = "idle" /\ cmd' = [NoCommand EXCEPT !.op = "suspend"] /\ clean' = FALSE
             /\ last' = IF wait /\ o.end = "fail" THEN "failed" ELSE "done"
             /\ IF o.end = "fail" THEN faults < MaxFaults /\ faults' = faults + 1
                                 ELSE UNCHANGED faults
      BY <2>1 DEF Suspend
    <3>2. faults' \in 0..MaxFaults
      BY <3>1, VmResourceAssumption DEF Inv, TypeOK
    <3> QED
      BY <1>3, <3>1, <3>2 DEF NoCommand
  <2>2. CASE Start
    BY <1>3, <2>2 DEF Start, Returns, NoCommand, Inv, TypeOK
  <2>3. CASE SuspendVms
    BY <1>3, <2>3 DEF SuspendVms, Returns, NoCommand, Inv, TypeOK
  <2>4. CASE StartVms
    BY <1>3, <2>4 DEF StartVms, Returns, NoCommand, Inv, TypeOK
  <2> QED
    BY <2>1, <2>2, <2>3, <2>4
<1>5. Typed' /\ Within'
  BY <1>1, <1>2, <1>4 DEF Inv, TypeOK, Typed, Within
<1> QED
  BY <1>1, <1>4, <1>5, EndsAtOnce DEF ReportsTrue

LEMMA ConfigureKeeps == ASSUME Inv, Configure PROVE Inv'
<1>1. /\ pc = "idle" /\ kind = "remotefs" /\ last' = "none"
      /\ UNCHANGED <<kind, existingOk, pc, cmd, clean, faults>>
      /\ UNCHANGED <<vms, exts, bricks, stopped, nics, pips, shared, parts, joined, att, grown>>
      /\ vmCount' \in 1..MaxVm /\ vmCount <= vmCount'
      /\ conf' \subseteq conf \cup Vms
  <2>1. vmCount \in 1..MaxVm /\ 0 \in Vms
    BY VmResourceAssumption DEF Inv, TypeOK, Vms
  <2>2. /\ vmCount' \in 1..MaxVm /\ vmCount <= vmCount'
        /\ conf' \subseteq conf \cup Vms
    BY <2>1, VmResourceAssumption DEF Configure
  <2> QED
    BY <2>2 DEF Configure, azure, machines, pools, disks
<1>2. Vms \subseteq Vms' /\ Vms' \subseteq Offset /\ Steps' = Steps /\ Offset' = Offset
  BY <1>1, VmResourceAssumption DEF Inv, TypeOK, Vms, Offset, Steps
<1>3. TypeOK' /\ Within'
  BY <1>1, <1>2, VmResourceAssumption DEF Inv, TypeOK, Within
<1> QED
  BY <1>1, <1>3 DEF Inv, Working, Making, Running, FromNothing, Deleting, PrefixCleans,
     NothingLeft, ReportsTrue

-----------------------------------------------------------------------------
(* The theorems *)

LEMMA InvNext == Inv /\ [Next]_vars => Inv'
<1> SUFFICES ASSUME Inv, [Next]_vars PROVE Inv'
  OBVIOUS
<1>1. CASE UNCHANGED vars
  <2>1. /\ UNCHANGED <<kind, vmCount, existingOk, conf, pc, cmd, last, clean, faults>>
        /\ UNCHANGED <<vms, exts, bricks, stopped, nics, pips, shared, parts, joined, att, grown>>
    BY <1>1 DEF vars, config, azure, machines, pools, disks
  <2>2. Steps' = Steps /\ Vms' = Vms
    BY <2>1 DEF Steps, Vms
  <2>3. TypeOK' /\ Within' /\ Working'
    BY <2>1, <2>2 DEF Inv, TypeOK, Within, Working
  <2>4. Making'
    BY <2>1, <2>2 DEF Inv, Making, Running, HasPips, HasNics, HasVms, HasVnet
  <2>5. FromNothing'
    BY <2>1 DEF Inv, FromNothing, HasPips, HasNics, HasVms, HasVnet
  <2>6. Deleting'
    BY <2>1 DEF Inv, Deleting, NoVms, NoNics, NoPips
  <2>7. PrefixCleans' /\ ReportsTrue'
    BY <2>1, <2>2 DEF Inv, PrefixCleans, NothingLeft, ReportsTrue
  <2> QED
    BY <2>3, <2>4, <2>5, <2>6, <2>7 DEF Inv
<1>2. CASE Step
  BY <1>2, CreateStoreKeeps, CreatePartitionsKeeps, MonitorFilesKeeps, SlurmFilesKeeps,
     ApplyToPoolsKeeps, AddBricksKeeps, AssignRolesKeeps, DeleteStoreKeeps, CreateNsgKeeps,
     CreateVnetKeeps, CreatePipsKeeps, CreateNicsKeeps, AvailabilitySetKeeps, CreateVmsKeeps,
     OpenPortKeeps, ExtsKeep, ClosePortKeeps, DeleteVmsKeeps, DeleteNicsKeeps,
     DeleteNsgKeeps, DeletePipsKeeps, DeleteVnetKeeps, DeleteAvsetKeeps, AwaitKeeps DEF Step
<1> QED
  BY <1>1, <1>2, CreateKeeps, ResizeKeeps, ExpandKeeps, StopsKeep, DeleteKeeps,
     DeleteGroupKeeps, ConfigureKeeps, InterruptKeeps DEF Next

LEMMA Invariance == Spec => []Inv
BY InvInit, InvNext, PTL DEF Spec

\* Every reachable state of a deployment is well typed: in particular no interface
\* goes before its VM, and no VM exists without one.
THEOREM TypeCorrect == Spec => []TypeOK
<1>1. Inv => TypeOK
  BY DEF Inv
<1> QED
  BY <1>1, Invariance, PTL

\* delete --generate-from-prefix leaves nothing behind that stops the next create,
\* whatever commands failed at whatever call before (delete_storage_cluster,
\* delete_monitoring_resource, delete_federation_proxy, delete_slurm_controller).
THEOREM PrefixDeleteCleans == Spec => []PrefixCleans
<1>1. Inv => PrefixCleans
  BY DEF Inv
<1> QED
  BY <1>1, Invariance, PTL

\* A create, resize or expansion that reports success has made all it reports, for
\* any number of VMs and whatever commands failed before it.
THEOREM CommandsReportTruly == Spec => []ReportsTrue
<1>1. Inv => ReportsTrue
  BY DEF Inv
<1> QED
  BY <1>1, Invariance, PTL

=============================================================================
