------------------------------ MODULE LinodePowerMC ------------------------------
(* Two handlers of one Linode with two disks and three configs, and every pair of *)
(* tasks; the handlers, the disks and the configs are alike, so that the first    *)
(* handler is the one of the first disk or config.  No task is about the third    *)
(* config: the Linode may run it when the two others are created.                 *)
EXTENDS LinodePower, TLC

CONSTANTS h1, h2, d1, d2, c1, c2, c3

TwoHandlers == {h1, h2}
TwoDisks    == {d1, d2}
ThreeConfigs == {c1, c2, c3}

DiskTasks(d) == [verb : DiskVerbs, on : {d}, booted : {"unset"}]
ConfigTasks(c) ==
    [verb : {"create", "remove"}, on : {c}, booted : {"true", "false"}]
        \union [verb : {"change", "rewire"}, on : {c}, booted : {"unset", "true", "false"}]
Reboot == [verb |-> "reboot", on |-> Nothing, booted |-> "unset"]

TwoTasks ==
    {h1 :> first @@ h2 :> second :
        first \in DiskTasks(d1) \union ConfigTasks(c1),
        second \in DiskTasks(d2) \union ConfigTasks(c2) \union {Reboot}}
==================================================================================
