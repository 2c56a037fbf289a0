---------------------------- MODULE CompanionInv ----------------------------
(***************************************************************************)
(* The inductive invariant of Companion, from which CompanionProofs        *)
(* derives its theorems.                                                   *)
(*                                                                         *)
(* Where says which step of which command the main thread can be at, and   *)
(* NoStrayDaemon that an unkilled app holds every live daemon.  Agreed is  *)
(* the heart of it: the folder a command works with is the configured one  *)
(* unless the configuration has been removed meanwhile, and the daemon the *)
(* app holds serves that folder, except while start_serving has saved a    *)
(* new one and not yet killed the old daemon.                              *)
(***************************************************************************)
EXTENDS Companion

Polling  == {"port", "token", "status", "ensure"}
Starting == {"kill", "ensure"}

Where ==
  /\ cmd.op = "none" => cmd = Idle
  /\ cmd.op = "app_state" => cmd.pc \in Polling \cup {"load"}
  /\ cmd.op = "start_serving" => cmd.pc \in Starting \cup {"check", "save"} /\ cmd.root \in Roots
  /\ cmd.op = "disconnect" => cmd.pc \in {"kill", "remove"}
  /\ cmd.pc \in {"token", "status"} => cmd.port # 0
  /\ cmd.pc = "status" => cmd.token # 0
  /\ cmd.op = "app_state" /\ cmd.pc \in Polling => cmd.root \in Roots

Held == handle # 0 /\ Alive(handle)

Agreed ==
  /\ cmd.op = "app_state" /\ cmd.pc \in Polling => config \in {cmd.root, None}
  /\ cmd.op = "start_serving" /\ cmd.pc \in Starting => config \in {cmd.root, None}
  /\ Held /\ cmd.op = "start_serving" => cmd.pc # "ensure"
  /\ Held /\ config # None /\ ~(cmd.op = "start_serving" /\ cmd.pc = "kill")
       => procs[handle].root = config
  /\ Held /\ cmd.op = "app_state" /\ cmd.pc \in Polling => procs[handle].root = cmd.root

IInv == TypeOK /\ Where /\ NoStrayDaemon /\ Agreed
=============================================================================
