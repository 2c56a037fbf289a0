----------------------------- MODULE Companion -----------------------------
(***************************************************************************)
(* The companion app on a host that can serve: the screens and the polling *)
(* loop of companion/ui/main.js, the commands and the supervision of       *)
(* unasd in companion/src-tauri/src/lib.rs, and the state files that       *)
(* write_state of src/core/unasd.c leaves for it.                          *)
(*                                                                         *)
(* Four kinds of actors interleave: the web view, whose handlers run to    *)
(* their next await; the main thread, which executes the commands the web  *)
(* view sends one at a time and in order; the thread on which the answer   *)
(* to the Reconfigure dialog arrives; and the daemons, which go on when    *)
(* the app is gone.  The handle of the daemon is behind a mutex, so each   *)
(* locked section is one step.                                             *)
(***************************************************************************)
EXTENDS Naturals, Sequences

CONSTANTS
  Roots,      \* the folders the user may choose to serve
  MaxPolls,   \* bound: status polls in flight at once
  Budget,     \* bound: clicks, quits, crashes, mount changes, start-ups that fail
              \* and requests left without an answer, in a behaviour
  Crashes,    \* whether the app may be killed
  None

ASSUME CompanionAssumption ==
  /\ MaxPolls \in Nat \ {0} /\ Budget \in Nat
  /\ Crashes \in BOOLEAN
  /\ None \notin Roots

VARIABLES
  config,    \* the root saved in config.json, None without the file
  mounted,   \* the folders that exist
  procs,     \* procs[i]: the i-th daemon ever spawned, its root and its stage
  port,      \* unas.port: the daemon that wrote it, 0 when absent or empty
  token,     \* unas.token: likewise
  handle,    \* the managed child, 0 for None
  calls,     \* commands sent by the web view, oldest first
  cmd,       \* the command the main thread executes
  replies,   \* answers on their way to the web view
  phase,     \* the screen
  dialog,    \* the Reconfigure dialog: "closed", "asked", "forget" after its kill
  app,       \* "up" or "down"
  orphaned,  \* whether the app ever died without stopping its daemon
  budget     \* what is left of Budget

disk == <<config, mounted>>
files == <<port, token>>
web  == <<calls, replies, phase>>
vars == <<disk, procs, files, handle, web, cmd, dialog, app, orphaned, budget>>

Idle == [op |-> "none", pc |-> "none", root |-> None, port |-> 0, token |-> 0]
Call(op, root) == [op |-> op, root |-> root]
Reply(op, mode, root) == [op |-> op, mode |-> mode, root |-> root]

Init ==
  /\ config \in Roots \cup {None} /\ mounted = Roots
  /\ procs = <<>> /\ port = 0 /\ token = 0 /\ handle = 0
  /\ calls = <<Call("app_state", None)>> /\ replies = <<>> /\ cmd = Idle
  /\ phase = "init" /\ dialog = "closed" /\ app = "up"
  /\ orphaned = FALSE /\ budget = Budget

Alive(i) == procs[i].st # "dead"
Spend == budget > 0 /\ budget' = budget - 1

-----------------------------------------------------------------------------
(***************************************************************************)
(* The web view.                                                           *)
(***************************************************************************)
IsPoll(x) == x.op = "app_state"
Polls == Len(SelectSeq(Append(calls, cmd), IsPoll)) + Len(SelectSeq(replies, IsPoll))

Send(op, root) == calls' = Append(calls, Call(op, root))
Elsewhere == UNCHANGED <<disk, procs, files, handle, cmd, dialog, app, orphaned>>

\* Mutant: an error screen is left to the user too
TickUnlessError ==
  /\ app = "up" /\ phase \notin {"wizard", "error"} /\ Polls < MaxPolls
  /\ Send("app_state", None)
  /\ UNCHANGED <<replies, phase, budget>> /\ Elsewhere

Tick ==
  /\ app = "up" /\ phase # "wizard" /\ Polls < MaxPolls
  /\ Send("app_state", None)
  /\ UNCHANGED <<replies, phase, budget>> /\ Elsewhere

ClickStart ==
  /\ app = "up" /\ phase = "wizard" /\ Spend
  /\ phase' = "busy"
  /\ \E r \in Roots : Send("start_serving", r)
  /\ UNCHANGED replies /\ Elsewhere

\* the button is on the error screen only
ClickBack ==
  /\ app = "up" /\ phase = "error" /\ Spend
  /\ Send("disconnect", None)
  /\ UNCHANGED <<replies, phase>> /\ Elsewhere

Route == [running |-> "running", connecting |-> "busy", error |-> "error", setup |-> "wizard"]

HandleReply ==
  /\ app = "up" /\ replies # <<>> /\ replies' = Tail(replies)
  /\ LET r == Head(replies)
     IN  \/ r.op = "app_state" /\ phase' = Route[r.mode] /\ UNCHANGED calls
         \/ r.op = "start_serving" /\ UNCHANGED calls
              /\ phase' = IF r.mode = "error" THEN "error" ELSE phase
         \/ r.op = "disconnect" /\ phase' = "init" /\ Send("app_state", None)
  /\ UNCHANGED budget /\ Elsewhere

-----------------------------------------------------------------------------
(***************************************************************************)
(* The main thread.                                                        *)
(***************************************************************************)
Doing(op, l) == app = "up" /\ cmd.op = op /\ cmd.pc = l
Then(l)  == cmd' = [cmd EXCEPT !.pc = l] /\ UNCHANGED replies
Done(mode, root) == cmd' = Idle /\ replies' = Append(replies, Reply(cmd.op, mode, root))
Beside == UNCHANGED <<mounted, files, calls, phase, dialog, app, orphaned>>
Others == Beside /\ UNCHANGED budget

First == [app_state |-> "load", start_serving |-> "check", disconnect |-> "kill"]

TakeCall ==
  /\ app = "up" /\ cmd = Idle /\ calls # <<>>
  /\ LET c == Head(calls)
     IN  cmd' = [Idle EXCEPT !.op = c.op, !.pc = First[c.op], !.root = c.root]
  /\ calls' = Tail(calls)
  /\ UNCHANGED <<disk, procs, files, handle, replies, phase, dialog, app, orphaned, budget>>

LoadConfig ==
  /\ Doing("app_state", "load")
  /\ \/ config = None /\ Done("setup", None)
     \/ config # None /\ cmd' = [cmd EXCEPT !.pc = "port", !.root = config] /\ UNCHANGED replies
  /\ UNCHANGED <<config, procs, handle>> /\ Others

\* resolve_endpoint reads the two files one after the other
ReadPort ==
  /\ Doing("app_state", "port")
  /\ \/ port = 0 /\ Then("ensure")
     \/ port # 0 /\ cmd' = [cmd EXCEPT !.pc = "token", !.port = port] /\ UNCHANGED replies
  /\ UNCHANGED <<config, procs, handle>> /\ Others

ReadToken ==
  /\ Doing("app_state", "token")
  /\ \/ token = 0 /\ Then("ensure")
     \/ token # 0 /\ cmd' = [cmd EXCEPT !.pc = "status", !.token = token] /\ UNCHANGED replies
  /\ UNCHANGED <<config, procs, handle>> /\ Others

\* GET /v1/status: the daemon on that port answers if the token is its own, but
\* at its cap it sends a 503, and busy it may take longer than the 1.5 seconds
GetStatus ==
  /\ Doing("app_state", "status")
  /\ LET answers == procs[cmd.port].st = "serving" /\ cmd.token = cmd.port
     IN  \/ answers /\ Done("running", procs[cmd.port].root) /\ UNCHANGED budget
         \/ answers /\ Spend /\ Then("ensure")
         \/ ~answers /\ Then("ensure") /\ UNCHANGED budget
  /\ UNCHANGED <<config, procs, handle>> /\ Beside

EnsureAnew ==
  /\ app = "up" /\ cmd.pc = "ensure"
  /\ procs' = Append(procs, [root |-> cmd.root, st |-> "boot"])
  /\ handle' = Len(procs) + 1
  /\ Done("connecting", cmd.root)
  /\ UNCHANGED config /\ Others

\* ensure_daemon, with the lock held throughout.  It fails without the folder,
\* and when there is no unasd, no log can be made or the spawn fails.
EnsureDaemon ==
  /\ app = "up" /\ cmd.pc = "ensure"
  /\ LET running == handle # 0 /\ Alive(handle)
     IN  \/ running /\ Done("connecting", cmd.root) /\ UNCHANGED <<procs, handle, budget>>
         \/ ~running /\ Done("error", cmd.root) /\ UNCHANGED <<procs, handle>>
              /\ IF cmd.root \in mounted THEN Spend ELSE UNCHANGED budget
         \/ ~running /\ cmd.root \in mounted /\ UNCHANGED budget
              /\ procs' = Append(procs, [root |-> cmd.root, st |-> "boot"])
              /\ handle' = Len(procs) + 1
              /\ Done("connecting", cmd.root)
  /\ UNCHANGED config /\ Beside

\* the folder may be gone, or the program
CheckFolder ==
  /\ Doing("start_serving", "check")
  /\ \/ cmd.root \in mounted /\ Then("save")
     \/ Done("error", None)
  /\ UNCHANGED <<config, procs, handle>> /\ Others

\* fs::write empties the file before it fills it, and either may fail
SaveConfig ==
  /\ Doing("start_serving", "save")
  /\ \/ config' = cmd.root /\ Then("kill")
     \/ config' \in {config, None} /\ Done("error", None)
  /\ UNCHANGED <<procs, handle>> /\ Others

\* kill_daemon: take the child, kill it and wait for it
KillDaemon ==
  /\ handle' = 0
  /\ procs' = [i \in DOMAIN procs |-> IF i = handle THEN [procs[i] EXCEPT !.st = "dead"]
                                                    ELSE procs[i]]

\* Mutant: the old daemon is left to ensure_daemon
KillNothing ==
  /\ app = "up" /\ cmd.pc = "kill"
  /\ Then(IF cmd.op = "start_serving" THEN "ensure" ELSE "remove")
  /\ UNCHANGED <<config, procs, handle>> /\ Others
Kill ==
  /\ app = "up" /\ cmd.pc = "kill"
  /\ KillDaemon
  /\ Then(IF cmd.op = "start_serving" THEN "ensure" ELSE "remove")
  /\ UNCHANGED config /\ Others

\* whether the file could be removed is not looked at
Removal == config' \in {None, config}

RemoveConfig ==
  /\ Doing("disconnect", "remove")
  /\ Removal /\ Done("ok", None)
  /\ UNCHANGED <<procs, handle>> /\ Others

Main ==
  \/ TakeCall \/ LoadConfig \/ ReadPort \/ ReadToken \/ GetStatus
  \/ EnsureDaemon \/ CheckFolder \/ SaveConfig \/ Kill \/ RemoveConfig

-----------------------------------------------------------------------------
(***************************************************************************)
(* The Reconfigure item of the tray, and the thread its answer arrives on. *)
(***************************************************************************)
Reconfigure ==
  /\ app = "up" /\ cmd = Idle /\ dialog = "closed" /\ Spend
  /\ dialog' = "asked"
  /\ UNCHANGED <<disk, procs, files, handle, web, cmd, app, orphaned>>

Cancel ==
  /\ app = "up" /\ dialog = "asked" /\ dialog' = "closed"
  /\ UNCHANGED <<disk, procs, files, handle, web, cmd, app, orphaned, budget>>

\* do_reconfigure
Confirm ==
  /\ app = "up" /\ dialog = "asked" /\ dialog' = "forget"
  /\ KillDaemon
  /\ UNCHANGED <<disk, files, web, cmd, app, orphaned, budget>>

Forget ==
  /\ app = "up" /\ dialog = "forget" /\ dialog' = "closed"
  /\ Removal
  /\ UNCHANGED <<mounted, procs, files, handle, web, cmd, app, orphaned, budget>>

-----------------------------------------------------------------------------
(***************************************************************************)
(* The life of the app and of the daemons.                                 *)
(***************************************************************************)
Close ==
  /\ app' = "down" /\ handle' = 0 /\ cmd' = Idle /\ dialog' = "closed"
  /\ calls' = <<>> /\ replies' = <<>> /\ phase' = "init"

\* Quit is an event of the main thread, and Exit kills the daemon
Quit ==
  /\ app = "up" /\ cmd = Idle /\ Spend
  /\ KillDaemon /\ Close
  /\ UNCHANGED <<disk, files, orphaned>>

\* a save that was cut short leaves a file load_config cannot read
Crash ==
  /\ Crashes /\ app = "up" /\ Spend
  /\ Close /\ orphaned' = (orphaned \/ (handle # 0 /\ Alive(handle)))
  /\ config' \in IF cmd.pc = "save" THEN {config, None} ELSE {config}
  /\ UNCHANGED <<mounted, procs, files>>

Launch ==
  /\ app = "down" /\ app' = "up"
  /\ Send("app_state", None)
  /\ UNCHANGED <<disk, procs, files, handle, replies, phase, cmd, dialog, orphaned, budget>>

\* main of unasd: check the folder and listen, then write_state, which empties
\* and fills each file.  It refuses to start when the folder is gone, and when
\* there is no token, no port to listen on or its user is the superuser.
After == [boot |-> "bound", bound |-> "noport", noport |-> "port", port |-> "notoken",
          notoken |-> "serving"]

Refuses(i) ==
  /\ procs[i].st = "boot"
  /\ \/ procs[i].root \notin mounted /\ UNCHANGED budget
     \/ procs[i].root \in mounted /\ Spend
Proceeds(i) ==
  /\ procs[i].st \in DOMAIN After
  /\ procs[i].st = "boot" => procs[i].root \in mounted
  /\ UNCHANGED budget

BootStep(i) ==
  /\ i \in DOMAIN procs
  /\ \/ Refuses(i) /\ procs' = [procs EXCEPT ![i].st = "dead"]
     \/ Proceeds(i) /\ procs' = [procs EXCEPT ![i].st = After[@]]
  /\ port' = IF procs[i].st = "bound" THEN 0 ELSE IF procs[i].st = "noport" THEN i ELSE port
  /\ token' = IF procs[i].st = "port" THEN 0 ELSE IF procs[i].st = "notoken" THEN i ELSE token
  /\ UNCHANGED <<disk, handle, web, cmd, dialog, app, orphaned>>

DaemonDies(i) ==
  /\ i \in DOMAIN procs /\ Alive(i) /\ Spend
  /\ procs' = [procs EXCEPT ![i].st = "dead"]
  /\ UNCHANGED <<disk, files, handle, web, cmd, dialog, app, orphaned>>

Mount ==
  /\ Spend
  /\ \E r \in Roots : mounted' = (mounted \ {r}) \cup ({r} \ mounted)
  /\ UNCHANGED <<config, procs, files, handle, web, cmd, dialog, app, orphaned>>

Next ==
  \/ Tick \/ ClickStart \/ ClickBack \/ HandleReply
  \/ Main
  \/ Reconfigure \/ Cancel \/ Confirm \/ Forget
  \/ Quit \/ Crash \/ Launch \/ Mount
  \/ \E i \in DOMAIN procs : BootStep(i) \/ DaemonDies(i)

Spec == Init /\ [][Next]_vars

\* every spawn but the first needs an event that Budget counts
MaxProcs == Budget + 1

\* The interval timer and the event loops run, get_json times out, and a
\* daemon that is not killed starts up.
FairSpec ==
  /\ Spec
  /\ WF_vars(Tick) /\ WF_vars(HandleReply) /\ WF_vars(Main) /\ WF_vars(Forget)
  /\ \A i \in 1 .. MaxProcs : WF_vars(BootStep(i))

-----------------------------------------------------------------------------
(***************************************************************************)
(* Properties.                                                             *)
(***************************************************************************)
Stages == {"boot", "bound", "noport", "port", "notoken", "serving", "dead"}
Ops    == {"app_state", "start_serving", "disconnect"}
Steps  == {"none", "load", "port", "token", "status", "ensure", "check", "save", "kill", "remove"}
Modes  == DOMAIN Route
Phases == {"init", "wizard", "busy", "running", "error"}
Ids    == 0 .. Len(procs)
CallType  == [op : {"app_state", "disconnect"}, root : {None}]
               \cup [op : {"start_serving"}, root : Roots]
ReplyType == [op : {"app_state"}, mode : Modes, root : Roots \cup {None}]
               \cup [op : Ops \ {"app_state"}, mode : Modes \cup {"ok"}, root : Roots \cup {None}]

\* Every variable keeps its type.
TypeOK ==
  /\ config \in Roots \cup {None} /\ mounted \subseteq Roots
  /\ procs \in Seq([root : Roots, st : Stages])
  /\ port \in Ids /\ token \in Ids /\ handle \in Ids
  /\ calls \in Seq(CallType)
  /\ cmd \in [op : Ops \cup {"none"}, pc : Steps, root : Roots \cup {None}, port : Ids, token : Ids]
  /\ replies \in Seq(ReplyType)
  /\ phase \in Phases
  /\ dialog \in {"closed", "asked", "forget"} /\ app \in {"up", "down"}
  /\ orphaned \in BOOLEAN /\ budget \in 0 .. Budget

\* Unless the app was killed, the only daemon alive is the one the app holds:
\* a restart loses none, two never share the state files, and Quit finds the
\* one there is, and leaves none behind (ensure_daemon, kill_daemon).  Whether
\* the daemon that is held ought to be there is ForgottenStops' question.
NoStrayDaemon == ~orphaned => \A i \in DOMAIN procs : Alive(i) => i = handle

\* "Running" is only told of a daemon that serves the folder the app is
\* configured with, never of a predecessor found through old state files.
TellsConfigured ==
  [][\A r \in Roots : ~orphaned /\ Len(replies') > Len(replies)
                       /\ replies'[Len(replies')] = Reply("app_state", "running", r)
                       => r = cmd.root]_vars

\* A configured app whose daemon is not up gets it up and shows it, whatever
\* died or was found in the state files before, unless an app was killed and
\* left a daemon that goes on beside it.
Shown == phase = "running" /\ handle # 0 /\ procs[handle] = [root |-> config, st |-> "serving"]
Released == app = "down" \/ config = None \/ config \notin mounted \/ phase = "wizard"

\* An app without a setup, be it new, forgotten by Reconfigure or Back, or lost
\* with a config.json that was cut short, ends up in the wizard: late answers of
\* polls, a failed start and daemons that still run put other screens over it
\* for a while only (tick, route and enterWizard of main.js, load_config).
BackToWizard == (app = "up" /\ config = None) ~> (app = "down" \/ config # None \/ phase = "wizard")

-----------------------------------------------------------------------------
(***************************************************************************)
(* What the documentation says, and the interleavings do not keep.         *)
(***************************************************************************)
\* The saved setup makes the app reconnect at its next start
\* (companion/README.md), whichever daemon answers.
Reconnects == (app = "up" /\ config # None) ~> (phase = "running" \/ Released)

\* Reconfigure "stops the unas server and forgets the share" (lib.rs) and goes
\* "to stop the daemon and return to the wizard" (companion/README.md): an app
\* that has no setup ends up without a daemon.
ForgottenStops ==
  (app = "up" /\ config = None)
    ~> (app = "down" \/ config # None \/ orphaned \/ \A i \in DOMAIN procs : ~Alive(i))
=============================================================================
