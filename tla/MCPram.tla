------------------------------- MODULE MCPram -------------------------------
(* PramStore with a PRAM of two bytes and short waits. *)
EXTENDS PramStore

Quiet == [card |-> "image", cmds |-> {}, cmd |-> 0, mac |-> 0, zap |-> 0,
          boot |-> HoldMax, rst |-> 0, err |-> 0, scsi |-> 0, cut |-> 0]

AllScenarios ==
  \* every kind of sector, SD errors, the CPU held meanwhile
  {[Quiet EXCEPT !.card = k, !.boot = 1, !.err = 1] :
     k \in {"image", "blank", "magic", "version", "length", "cksum"}}
  \cup
  \* a save with the Mac running and SCSI busy, then a load
  {[Quiet EXCEPT !.card = "blank", !.cmds = {"SAVE", "LOAD"}, !.cmd = 2,
                 !.err = 1],
   [Quiet EXCEPT !.cmds = {"SAVE", "LOAD"}, !.cmd = 1, !.mac = 1],
   [Quiet EXCEPT !.cmds = {"SAVE", "SNAP", "BAD"}, !.cmd = 1, !.zap = 1],
   [Quiet EXCEPT !.cmds = {"SAVE", "LOAD"}, !.cmd = 1, !.scsi = 2],
   [Quiet EXCEPT !.cmds = {"SAVE", "LOAD"}, !.cmd = 1, !.rst = 1],
   [Quiet EXCEPT !.cmds = {"SAVE"}, !.cmd = 1, !.mac = 1, !.cut = 1]}

\* The boot outlasts the bounded hold.
SlowBoot == {Quiet}
=============================================================================
