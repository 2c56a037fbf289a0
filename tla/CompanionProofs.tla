-------------------------- MODULE CompanionProofs --------------------------
(***************************************************************************)
(* Theorems of Companion, for any folders, polls, events and crashes.      *)
(* Every step keeps IInv; the two safety properties follow from it.        *)
(***************************************************************************)
EXTENDS CompanionInv, SequenceTheorems, TLAPS

ProcType  == [root : Roots, st : Stages]

\* What a step leaves alone that changes neither a daemon nor a command.
Quiet == UNCHANGED <<config, procs, port, token, handle, cmd, orphaned>>

\* Every daemon ever spawned has a folder and a stage.
LEMMA ProcTyped ==
  ASSUME TypeOK, NEW i \in DOMAIN procs
  PROVE  procs[i] \in ProcType /\ procs[i].root \in Roots
  <1>1. procs \in Seq(ProcType)
    BY DEF TypeOK, ProcType
  <1>2. procs[i] \in ProcType
    BY <1>1, ElementOfSeq
  <1> QED
    BY <1>2 DEF ProcType

\* A command the web view sends joins the others.
LEMMA SendTyped ==
  ASSUME TypeOK, NEW op, NEW r, Call(op, r) \in CallType, Send(op, r)
  PROVE  calls' \in Seq(CallType)
  <1>1. calls \in Seq(CallType)
    BY DEF TypeOK
  <1> QED
    BY <1>1, AppendProperties DEF Send

\* The steps of the web view keep the invariant.
LEMMA WebKeeps ==
  ASSUME IInv, Tick \/ ClickStart \/ ClickBack \/ HandleReply
  PROVE  IInv'
  <1>1. Quiet /\ UNCHANGED <<mounted, dialog, app>>
    BY DEF Tick, ClickStart, ClickBack, HandleReply, Elsewhere, Quiet, disk, files
  <1>2. TypeOK
    BY DEF IInv
  <1>3. calls' \in Seq(CallType)
    <2>1. Call("app_state", None) \in CallType /\ Call("disconnect", None) \in CallType
      BY DEF Call, CallType
    <2>2. \A r \in Roots : Call("start_serving", r) \in CallType
      BY DEF Call, CallType
    <2>3. CASE UNCHANGED calls
      BY <1>2, <2>3 DEF TypeOK
    <2>4. CASE Send("app_state", None) \/ Send("disconnect", None)
      BY <1>2, <2>1, <2>4, SendTyped
    <2>5. CASE \E r \in Roots : Send("start_serving", r)
      BY <1>2, <2>2, <2>5, SendTyped
    <2> QED
      BY <2>3, <2>4, <2>5 DEF Tick, ClickStart, ClickBack, HandleReply
  <1>4. replies' \in Seq(ReplyType) /\ phase' \in Phases
    <2>1. replies \in Seq(ReplyType) /\ phase \in Phases
      BY <1>2 DEF TypeOK
    <2>2. ASSUME HandleReply PROVE replies' \in Seq(ReplyType) /\ phase' \in Phases
      <3>1. replies # <<>> /\ replies' = Tail(replies)
        BY <2>2 DEF HandleReply
      <3>2. Head(replies) \in ReplyType /\ Tail(replies) \in Seq(ReplyType)
        BY <3>1, <2>1, HeadTailProperties
      <3>3. Head(replies).op = "app_state" => Route[Head(replies).mode] \in Phases
        BY <3>2 DEF ReplyType, Modes, Ops, Route, Phases
      <3>4. phase' \in {Route[Head(replies).mode], "error", "init", phase}
        BY <2>2 DEF HandleReply
      <3>5. Head(replies).op # "app_state" => phase' \in {"error", "init", phase}
        BY <2>2 DEF HandleReply
      <3> QED
        BY <3>1, <3>2, <3>3, <3>4, <3>5, <2>1 DEF Phases
    <2> QED
      BY <2>1, <2>2 DEF Tick, ClickStart, ClickBack, Phases
  <1>5. budget' \in 0 .. Budget
    BY <1>2, CompanionAssumption DEF Tick, ClickStart, ClickBack, HandleReply, Spend, TypeOK
  <1>6. TypeOK'
    BY <1>1, <1>2, <1>3, <1>4, <1>5 DEF TypeOK, Quiet, Ids
  <1>7. (Where /\ NoStrayDaemon /\ Agreed)'
    BY <1>1 DEF IInv, Where, NoStrayDaemon, Agreed, Held, Alive, Quiet
  <1> QED
    BY <1>6, <1>7 DEF IInv

-----------------------------------------------------------------------------
CmdType == [op : Ops \cup {"none"}, pc : Steps, root : Roots \cup {None}, port : Ids, token : Ids]

\* No command in progress is a typed command.
LEMMA IdleTyped == TypeOK => Idle \in CmdType
  BY DEF TypeOK, Idle, CmdType, Steps, Ids

\* The end of a command puts its answer behind the others.
LEMMA DoneTyped ==
  ASSUME TypeOK, NEW mode, NEW r, Reply(cmd.op, mode, r) \in ReplyType, Done(mode, r)
  PROVE  cmd' = Idle /\ cmd' \in CmdType /\ replies' \in Seq(ReplyType)
  <1>1. replies \in Seq(ReplyType)
    BY DEF TypeOK
  <1> QED
    BY <1>1, IdleTyped, AppendProperties DEF Done

\* A step within a command.
LEMMA ThenTyped ==
  ASSUME TypeOK, NEW l \in Steps, Then(l)
  PROVE  /\ cmd' \in CmdType /\ replies' \in Seq(ReplyType)
         /\ cmd'.pc = l /\ cmd'.op = cmd.op /\ cmd'.root = cmd.root
         /\ cmd'.port = cmd.port /\ cmd'.token = cmd.token
  BY DEF TypeOK, Then, CmdType

\* Whatever happens to the budget, it stays one.
LEMMA BudgetTyped ==
  ASSUME TypeOK, UNCHANGED budget \/ Spend
  PROVE  budget' \in 0 .. Budget
  BY CompanionAssumption DEF TypeOK, Spend

\* A step of the main thread that leaves the daemons alone keeps the types.
LEMMA MainTyped ==
  ASSUME TypeOK, Beside, budget' \in 0 .. Budget, UNCHANGED <<procs, handle>>,
         config' \in Roots \cup {None}, cmd' \in CmdType, replies' \in Seq(ReplyType)
  PROVE  TypeOK'
  BY DEF TypeOK, Beside, files, CmdType, Ids

\* Taking the next command.
LEMMA TakeKeeps ==
  ASSUME IInv, TakeCall
  PROVE  IInv'
  <1>1. TypeOK
    BY DEF IInv
  <1>2. Head(calls) \in CallType /\ Tail(calls) \in Seq(CallType)
    BY <1>1, HeadTailProperties DEF TakeCall, TypeOK
  <1>3. /\ cmd' = [Idle EXCEPT !.op = Head(calls).op, !.pc = First[Head(calls).op],
                               !.root = Head(calls).root]
        /\ calls' = Tail(calls)
        /\ UNCHANGED <<disk, procs, files, handle, replies, phase, dialog, app, orphaned, budget>>
    BY DEF TakeCall
  <1>4. /\ cmd'.op = Head(calls).op /\ cmd'.root = Head(calls).root
        /\ cmd'.pc = First[cmd'.op] /\ cmd'.port = 0 /\ cmd'.token = 0
        /\ cmd' = [op |-> cmd'.op, pc |-> cmd'.pc, root |-> cmd'.root, port |-> 0, token |-> 0]
    BY <1>3 DEF Idle
  <1>5. \/ cmd'.op = "app_state" /\ cmd'.pc = "load" /\ cmd'.root = None
        \/ cmd'.op = "disconnect" /\ cmd'.pc = "kill" /\ cmd'.root = None
        \/ cmd'.op = "start_serving" /\ cmd'.pc = "check" /\ cmd'.root \in Roots
    BY <1>2, <1>4 DEF CallType, First
  <1>6. cmd' \in CmdType
    BY <1>1, <1>4, <1>5 DEF CmdType, Ops, Steps, Ids, TypeOK
  <1>7. TypeOK'
    BY <1>1, <1>2, <1>3, <1>6 DEF TypeOK, CmdType, Ids, disk, files
  <1>8. Where'
    BY <1>5 DEF Where, Polling, Starting
  <1>9. NoStrayDaemon'
    BY <1>3 DEF IInv, NoStrayDaemon, Alive
  <1>10. Held' => Held /\ procs'[handle'] = procs[handle]
    BY <1>3 DEF Held, Alive
  <1>11. Held /\ config # None => procs[handle].root = config
    BY DEF IInv, Agreed, TakeCall, Idle
  <1>12. config' = config
    BY <1>3 DEF disk
  <1>13. Agreed'
    BY <1>5, <1>10, <1>11, <1>12 DEF Agreed, Polling, Starting
  <1> QED
    BY <1>7, <1>8, <1>9, <1>13 DEF IInv

\* The steps of app_state up to the request for the status, and its answer.
LEMMA PollKeeps ==
  ASSUME IInv, LoadConfig \/ ReadPort \/ ReadToken \/ GetStatus
  PROVE  IInv'
  <1>1. TypeOK /\ cmd.op = "app_state" /\ cmd \in CmdType
    BY DEF IInv, TypeOK, CmdType, LoadConfig, ReadPort, ReadToken, GetStatus, Doing
  <1>2. Beside /\ UNCHANGED <<config, procs, handle>> /\ budget' \in 0 .. Budget
    BY <1>1, BudgetTyped DEF LoadConfig, ReadPort, ReadToken, GetStatus, Others
  <1>3. \/ cmd' = Idle /\ cmd' \in CmdType /\ replies' \in Seq(ReplyType)
        \/ /\ cmd' \in CmdType /\ cmd'.op = "app_state" /\ cmd'.pc \in Polling
           /\ cmd'.root \in Roots /\ UNCHANGED replies
           /\ cmd'.pc \in {"token", "status"} => cmd'.port # 0
           /\ cmd'.pc = "status" => cmd'.token # 0
           /\ config \in {cmd'.root, None}
           /\ \/ cmd.pc = "load" /\ cmd'.root = config
              \/ cmd.pc \in Polling /\ cmd'.root = cmd.root
    <2>1. CASE LoadConfig
      <3>1. CASE config = None /\ Done("setup", None)
        <4>1. Reply(cmd.op, "setup", None) \in ReplyType
          BY <1>1 DEF Reply, ReplyType, Modes, Route
        <4> QED
          BY <1>1, <3>1, <4>1, DoneTyped
      <3>2. CASE /\ config # None /\ cmd' = [cmd EXCEPT !.pc = "port", !.root = config]
                 /\ UNCHANGED replies
        <4>1. config \in Roots /\ cmd.pc = "load"
          BY <1>1, <2>1, <3>2 DEF TypeOK, LoadConfig, Doing
        <4>2. cmd' \in CmdType
          BY <1>1, <3>2, <4>1 DEF CmdType, Steps
        <4>3. cmd'.op = "app_state" /\ cmd'.pc = "port" /\ cmd'.root = config
          BY <1>1, <3>2 DEF CmdType
        <4> QED
          BY <3>2, <4>1, <4>2, <4>3, CompanionAssumption DEF Polling
      <3> QED
        BY <2>1, <3>1, <3>2 DEF LoadConfig
    <2>2. CASE ReadPort
      <3>1. cmd.pc = "port" /\ cmd.root \in Roots /\ config \in {cmd.root, None}
        BY <1>1, <2>2 DEF ReadPort, Doing, IInv, Where, Agreed, Polling
      <3>2. CASE port = 0 /\ Then("ensure")
        BY <1>1, <3>1, <3>2, ThenTyped DEF Steps, Polling, Then
      <3>3. CASE /\ port # 0 /\ cmd' = [cmd EXCEPT !.pc = "token", !.port = port]
                 /\ UNCHANGED replies
        BY <1>1, <3>1, <3>3 DEF TypeOK, CmdType, Steps, Polling
      <3> QED
        BY <2>2, <3>2, <3>3 DEF ReadPort
    <2>3. CASE ReadToken
      <3>1. /\ cmd.pc = "token" /\ cmd.root \in Roots /\ config \in {cmd.root, None}
            /\ cmd.port # 0
        BY <1>1, <2>3 DEF ReadToken, Doing, IInv, Where, Agreed, Polling
      <3>2. CASE token = 0 /\ Then("ensure")
        BY <1>1, <3>1, <3>2, ThenTyped DEF Steps, Polling, Then
      <3>3. CASE /\ token # 0 /\ cmd' = [cmd EXCEPT !.pc = "status", !.token = token]
                 /\ UNCHANGED replies
        BY <1>1, <3>1, <3>3 DEF TypeOK, CmdType, Steps, Polling
      <3> QED
        BY <2>3, <3>2, <3>3 DEF ReadToken
    <2>4. CASE GetStatus
      <3>1. /\ cmd.pc = "status" /\ cmd.root \in Roots /\ config \in {cmd.root, None}
            /\ cmd.port \in DOMAIN procs
        BY <1>1, <2>4 DEF GetStatus, Doing, IInv, Where, Agreed, Polling, TypeOK, CmdType, Ids
      <3>2. CASE Then("ensure")
        BY <1>1, <3>1, <3>2, ThenTyped DEF Steps, Polling, Then
      <3>3. CASE Done("running", procs[cmd.port].root)
        <4>1. Reply(cmd.op, "running", procs[cmd.port].root) \in ReplyType
          <5>1. procs[cmd.port].root \in Roots
            BY <3>1, ProcTyped DEF IInv
          <5> QED
            BY <1>1, <5>1 DEF Reply, ReplyType, Modes, Route
        <4> QED
          BY <1>1, <3>3, <4>1, DoneTyped
      <3> QED
        BY <2>4, <3>2, <3>3 DEF GetStatus
    <2> QED
      BY <2>1, <2>2, <2>3, <2>4
  <1>4. TypeOK'
    <2>1. replies' \in Seq(ReplyType) /\ cmd' \in CmdType /\ config' \in Roots \cup {None}
      BY <1>1, <1>2, <1>3 DEF TypeOK
    <2> QED
      BY <1>1, <1>2, <2>1, MainTyped
  <1>5. Where'
    BY <1>3 DEF Where, Polling, Starting, Idle
  <1>6. NoStrayDaemon' /\ (Held' <=> Held) /\ UNCHANGED <<config, procs, handle>>
    BY <1>2 DEF IInv, NoStrayDaemon, Alive, Held, Beside
  <1>7. Held /\ config # None => procs[handle].root = config
    BY <1>1 DEF IInv, Agreed
  <1>8. Held /\ cmd.pc \in Polling => procs[handle].root = cmd.root
    BY <1>1 DEF IInv, Agreed
  <1>9. config = None => cmd.pc # "load" \/ cmd' = Idle
    BY <1>3, CompanionAssumption DEF Polling
  <1>10. Agreed'
    BY <1>3, <1>6, <1>7, <1>8, <1>9 DEF Agreed, Idle, Polling
  <1> QED
    BY <1>4, <1>5, <1>6, <1>10 DEF IInv

-----------------------------------------------------------------------------
\* After kill_daemon nothing is held, and nothing alive is left by an app that was not killed.
LEMMA KillEffect ==
  ASSUME TypeOK, KillDaemon
  PROVE  /\ procs' \in Seq([root : Roots, st : Stages]) /\ Len(procs') = Len(procs)
         /\ handle' = 0 /\ ~Held'
         /\ NoStrayDaemon => (~orphaned => \A i \in DOMAIN procs' : procs'[i].st = "dead")
  <1>1. procs \in Seq(ProcType)
    BY DEF TypeOK, ProcType
  <1>2. \A i \in DOMAIN procs : procs[i] \in ProcType
    BY ProcTyped
  <1>3. \A i \in DOMAIN procs : [procs[i] EXCEPT !.st = "dead"] \in ProcType
    BY <1>2 DEF ProcType, Stages
  <1>4. DOMAIN procs = 1 .. Len(procs) /\ Len(procs) \in Nat
    BY <1>1
  <1>5. procs' \in [1 .. Len(procs) -> ProcType]
    BY <1>2, <1>3, <1>4 DEF KillDaemon
  <1>6. procs' \in Seq(ProcType) /\ Len(procs') = Len(procs)
    BY <1>4, <1>5
  <1>7. \A i \in DOMAIN procs' : procs'[i].st = IF i = handle THEN "dead" ELSE procs[i].st
    BY <1>2 DEF KillDaemon, ProcType
  <1>8. DOMAIN procs' = DOMAIN procs
    BY DEF KillDaemon
  <1> QED
    BY <1>6, <1>7, <1>8 DEF KillDaemon, Held, NoStrayDaemon, Alive, ProcType

\* A spawn puts one daemon, in its first stage, behind the others and holds it.
LEMMA SpawnEffect ==
  ASSUME TypeOK, NEW r \in Roots, procs' = Append(procs, [root |-> r, st |-> "boot"])
  PROVE  /\ procs' \in Seq([root : Roots, st : Stages]) /\ Len(procs') = Len(procs) + 1
         /\ Len(procs) \in Nat /\ DOMAIN procs' = 1 .. Len(procs) + 1
         /\ procs'[Len(procs) + 1] = [root |-> r, st |-> "boot"]
         /\ \A i \in 1 .. Len(procs) : procs'[i] = procs[i]
  <1>1. procs \in Seq(ProcType) /\ [root |-> r, st |-> "boot"] \in ProcType
    BY DEF TypeOK, ProcType, Stages
  <1> QED
    BY <1>1, AppendProperties DEF ProcType

\* ensure_daemon spawns only when no daemon is alive, and for the configured folder.
LEMMA EnsureKeeps ==
  ASSUME IInv, EnsureDaemon
  PROVE  IInv'
  <1>1. TypeOK /\ cmd.pc = "ensure"
    BY DEF IInv, EnsureDaemon
  <1>2. cmd.op \in {"app_state", "start_serving"} /\ cmd.root \in Roots
    BY <1>1 DEF IInv, TypeOK, Ops, Where, Idle, Polling, Starting
  <1>3. config \in {cmd.root, None}
    BY <1>1, <1>2 DEF IInv, Agreed, Polling, Starting
  <1>4. UNCHANGED config /\ Beside /\ budget' \in 0 .. Budget
    BY <1>1, BudgetTyped DEF EnsureDaemon
  <1>5. /\ cmd' = Idle /\ replies' \in Seq(ReplyType)
        /\ \A n \in Nat : Idle \in [op : Ops \cup {"none"}, pc : Steps, root : Roots \cup {None},
                                    port : 0 .. n, token : 0 .. n]
    <2>1. PICK m \in {"connecting", "error"} : Done(m, cmd.root)
      BY DEF EnsureDaemon
    <2>2. Reply(cmd.op, m, cmd.root) \in ReplyType
      BY <1>2 DEF Reply, ReplyType, Modes, Route, Ops
    <2> QED
      BY <1>1, <2>1, <2>2, DoneTyped DEF Idle, Steps
  <1>6. Where'
    BY <1>5 DEF Where, Idle, Polling
  <1>7. CASE UNCHANGED <<procs, handle>>
    <2>1. TypeOK'
      BY <1>1, <1>4, <1>5, <1>7, MainTyped, IdleTyped DEF TypeOK
    <2>2. NoStrayDaemon'
      BY <1>4, <1>7 DEF IInv, NoStrayDaemon, Alive, Beside
    <2>3. Held' => Held /\ cmd.op # "start_serving"
      BY <1>1, <1>7 DEF IInv, Agreed, Held, Alive
    <2>4. Agreed'
      BY <1>1, <1>4, <1>5, <1>7, <2>3 DEF IInv, Agreed, Idle
    <2> QED
      BY <1>6, <2>1, <2>2, <2>4 DEF IInv
  <1>8. CASE /\ ~(handle # 0 /\ Alive(handle))
             /\ procs' = Append(procs, [root |-> cmd.root, st |-> "boot"])
             /\ handle' = Len(procs) + 1
    <2>1. /\ procs' \in Seq([root : Roots, st : Stages]) /\ Len(procs') = Len(procs) + 1
          /\ Len(procs) \in Nat /\ DOMAIN procs' = 1 .. Len(procs) + 1
          /\ procs'[Len(procs) + 1] = [root |-> cmd.root, st |-> "boot"]
          /\ \A i \in 1 .. Len(procs) : procs'[i] = procs[i]
      BY <1>1, <1>2, <1>8, SpawnEffect
    <2>2. TypeOK'
      <3>1. Ids' = 0 .. Len(procs) + 1 /\ Ids \subseteq Ids' /\ handle' \in Ids'
        BY <1>8, <2>1 DEF Ids
      <3>2. cmd' \in [op : Ops \cup {"none"}, pc : Steps, root : Roots \cup {None}, port : Ids', token : Ids']
        BY <1>5, <2>1, <3>1
      <3> QED
        BY <1>1, <1>4, <1>5, <2>1, <3>1, <3>2 DEF TypeOK, Beside, files
    <2>3. NoStrayDaemon'
      <3>1. DOMAIN procs = 1 .. Len(procs)
        BY <1>1 DEF TypeOK
      <3>2. ~orphaned => \A i \in 1 .. Len(procs) : ~Alive(i)
        BY <1>8, <3>1 DEF IInv, NoStrayDaemon
      <3> QED
        BY <1>4, <1>8, <2>1, <3>2 DEF NoStrayDaemon, Alive, Beside
    <2>4. Agreed'
      BY <1>3, <1>4, <1>5, <1>8, <2>1 DEF Agreed, Idle, Polling
    <2> QED
      BY <1>6, <2>2, <2>3, <2>4 DEF IInv
  <1> QED
    BY <1>7, <1>8 DEF EnsureDaemon

\* The steps of start_serving and disconnect around their use of the daemon.
LEMMA ConfigureKeeps ==
  ASSUME IInv, CheckFolder \/ SaveConfig \/ RemoveConfig
  PROVE  IInv'
  <1>1. TypeOK /\ cmd \in CmdType
    BY DEF IInv, TypeOK, CmdType
  <1>2. Beside /\ budget' \in 0 .. Budget /\ UNCHANGED <<procs, handle>>
    BY <1>1, BudgetTyped DEF CheckFolder, SaveConfig, RemoveConfig, Others
  <1>3. NoStrayDaemon' /\ (Held' <=> Held)
    BY <1>2 DEF IInv, NoStrayDaemon, Alive, Held, Beside
  <1>4. CASE CheckFolder
    <2>1. cmd.op = "start_serving" /\ cmd.pc = "check" /\ UNCHANGED config
      BY <1>4 DEF CheckFolder, Doing
    <2>2. Held /\ config # None => procs[handle].root = config
      BY <2>1 DEF IInv, Agreed
    <2>3. CASE Then("save")
      <3>1. /\ cmd' \in CmdType /\ replies' \in Seq(ReplyType) /\ cmd'.pc = "save"
            /\ cmd'.op = "start_serving" /\ cmd'.root = cmd.root
        BY <1>1, <2>1, <2>3, ThenTyped DEF Steps
      <3>2. TypeOK'
        BY <1>1, <1>2, <2>1, <3>1, MainTyped DEF TypeOK
      <3>3. Where' /\ Agreed'
        BY <1>2, <1>3, <2>1, <2>2, <3>1 DEF IInv, Where, Agreed, Starting
      <3> QED
        BY <1>3, <3>2, <3>3 DEF IInv
    <2>4. CASE Done("error", None)
      <3>1. Reply(cmd.op, "error", None) \in ReplyType
        BY <2>1 DEF Reply, ReplyType, Modes, Route, Ops
      <3>2. cmd' = Idle /\ cmd' \in CmdType /\ replies' \in Seq(ReplyType)
        BY <1>1, <2>4, <3>1, DoneTyped
      <3>3. TypeOK'
        BY <1>1, <1>2, <2>1, <3>2, MainTyped DEF TypeOK
      <3>4. Where' /\ Agreed'
        BY <1>2, <1>3, <2>1, <2>2, <3>2 DEF Where, Agreed, Idle, Polling
      <3> QED
        BY <1>3, <3>3, <3>4 DEF IInv
    <2> QED
      BY <1>4, <2>3, <2>4 DEF CheckFolder
  <1>5. CASE SaveConfig
    <2>1. /\ cmd.op = "start_serving" /\ cmd.pc = "save" /\ cmd.root \in Roots
          /\ Held /\ config # None => procs[handle].root = config
      BY <1>5 DEF SaveConfig, Doing, IInv, Where, Agreed
    <2>2. CASE config' = cmd.root /\ Then("kill")
      <3>1. /\ cmd' \in CmdType /\ replies' \in Seq(ReplyType) /\ cmd'.pc = "kill"
            /\ cmd'.op = "start_serving" /\ cmd'.root = cmd.root
        BY <1>1, <2>1, <2>2, ThenTyped DEF Steps
      <3>2. TypeOK'
        BY <1>1, <1>2, <2>1, <2>2, <3>1, MainTyped DEF TypeOK
      <3>3. Where' /\ Agreed'
        BY <2>1, <2>2, <3>1 DEF Where, Agreed, Starting
      <3> QED
        BY <1>3, <3>2, <3>3 DEF IInv
    <2>3. CASE config' \in {config, None} /\ Done("error", None)
      <3>1. Reply(cmd.op, "error", None) \in ReplyType
        BY <2>1 DEF Reply, ReplyType, Modes, Route, Ops
      <3>2. cmd' = Idle /\ cmd' \in CmdType /\ replies' \in Seq(ReplyType)
        BY <1>1, <2>3, <3>1, DoneTyped
      <3>3. TypeOK'
        BY <1>1, <1>2, <2>3, <3>2, MainTyped DEF TypeOK
      <3>4. Where' /\ Agreed'
        BY <1>2, <1>3, <2>1, <2>3, <3>2 DEF Where, Agreed, Idle, Polling
      <3> QED
        BY <1>3, <3>3, <3>4 DEF IInv
    <2> QED
      BY <1>5, <2>2, <2>3 DEF SaveConfig
  <1>6. CASE RemoveConfig
    <2>1. /\ cmd.op = "disconnect" /\ config' \in {None, config} /\ Done("ok", None)
          /\ Held /\ config # None => procs[handle].root = config
      BY <1>6 DEF RemoveConfig, Removal, Doing, IInv, Agreed
    <2>2. Reply(cmd.op, "ok", None) \in ReplyType
      BY <2>1 DEF Reply, ReplyType, Modes, Route, Ops
    <2>3. cmd' = Idle /\ cmd' \in CmdType /\ replies' \in Seq(ReplyType)
      BY <1>1, <2>1, <2>2, DoneTyped
    <2>4. TypeOK'
      BY <1>1, <1>2, <2>1, <2>3, MainTyped DEF TypeOK
    <2>5. Where' /\ Agreed'
      BY <1>2, <1>3, <2>1, <2>3 DEF Where, Agreed, Idle, Polling
    <2> QED
      BY <1>3, <2>4, <2>5 DEF IInv
  <1> QED
    BY <1>4, <1>5, <1>6

\* kill_daemon within a command.
LEMMA KillKeeps ==
  ASSUME IInv, Kill
  PROVE  IInv'
  <1>1. TypeOK /\ KillDaemon /\ UNCHANGED config /\ Others /\ cmd.pc = "kill"
    BY DEF IInv, Kill
  <1>2. /\ procs' \in Seq([root : Roots, st : Stages]) /\ Len(procs') = Len(procs)
        /\ handle' = 0 /\ ~Held'
        /\ ~orphaned => \A i \in DOMAIN procs' : procs'[i].st = "dead"
    BY <1>1, KillEffect DEF IInv
  <1>3. cmd.op \in {"start_serving", "disconnect"}
    BY <1>1 DEF IInv, TypeOK, Ops, Where, Idle, Polling
  <1>4. PICK l \in {"ensure", "remove"} : Then(l) /\ (l = "ensure" <=> cmd.op = "start_serving")
    BY DEF Kill
  <1>5. /\ cmd' \in CmdType /\ replies' \in Seq(ReplyType)
        /\ cmd'.pc = l /\ cmd'.op = cmd.op /\ cmd'.root = cmd.root
    BY <1>1, <1>4, ThenTyped DEF Steps
  <1>6. TypeOK'
    BY <1>1, <1>2, <1>5 DEF TypeOK, Others, Beside, files, CmdType, Ids
  <1>7. Where'
    BY <1>3, <1>4, <1>5 DEF IInv, Where, Starting
  <1>8. NoStrayDaemon'
    BY <1>1, <1>2 DEF NoStrayDaemon, Alive, Others, Beside
  <1>9. Agreed'
    BY <1>1, <1>2, <1>3, <1>4, <1>5 DEF IInv, Agreed, Starting
  <1> QED
    BY <1>6, <1>7, <1>8, <1>9 DEF IInv

\* Every step of the main thread keeps the invariant.
LEMMA MainKeeps ==
  ASSUME IInv, Main
  PROVE  IInv'
  BY TakeKeeps, PollKeeps, EnsureKeeps, ConfigureKeeps, KillKeeps DEF Main

-----------------------------------------------------------------------------
\* The Reconfigure dialog: its kill and its removal of the configuration fall
\* between any two steps of a command.
LEMMA DialogKeeps ==
  ASSUME IInv, Reconfigure \/ Cancel \/ Confirm \/ Forget
  PROVE  IInv'
  <1>1. TypeOK
    BY DEF IInv
  <1>2. CASE Reconfigure \/ Cancel
    <2>1. TypeOK'
      BY <1>1, <1>2, CompanionAssumption
      DEF TypeOK, Reconfigure, Cancel, Spend, disk, files, web, Ids
    <2>2. Where' /\ NoStrayDaemon' /\ Agreed'
      BY <1>2 DEF IInv, Where, NoStrayDaemon, Agreed, Held, Alive, Reconfigure, Cancel, disk
    <2> QED
      BY <2>1, <2>2 DEF IInv
  <1>3. CASE Confirm
    <2>1. /\ procs' \in Seq([root : Roots, st : Stages]) /\ Len(procs') = Len(procs)
          /\ handle' = 0 /\ ~Held'
          /\ ~orphaned => \A i \in DOMAIN procs' : procs'[i].st = "dead"
      BY <1>1, <1>3, KillEffect DEF IInv, Confirm
    <2>2. TypeOK'
      BY <1>1, <1>3, <2>1 DEF TypeOK, Confirm, disk, files, web, Ids
    <2>3. Where' /\ NoStrayDaemon' /\ Agreed'
      BY <1>3, <2>1 DEF IInv, Where, NoStrayDaemon, Agreed, Alive, Confirm, disk
    <2> QED
      BY <2>2, <2>3 DEF IInv
  <1>4. CASE Forget
    <2>1. TypeOK'
      BY <1>1, <1>4 DEF TypeOK, Forget, Removal, files, web, Ids
    <2>2. Where' /\ NoStrayDaemon' /\ Agreed'
      BY <1>4 DEF IInv, Where, NoStrayDaemon, Agreed, Held, Alive, Forget, Removal
    <2> QED
      BY <2>1, <2>2 DEF IInv
  <1> QED
    BY <1>2, <1>3, <1>4

\* What the end of the app, clean or not, leaves in its own variables.
LEMMA CloseEffect ==
  ASSUME TypeOK, Close
  PROVE  /\ handle' = 0 /\ cmd' = Idle /\ ~Held' /\ calls' \in Seq(CallType)
         /\ replies' \in Seq(ReplyType) /\ phase' \in Phases
         /\ dialog' \in {"closed", "asked", "forget"} /\ app' \in {"up", "down"}
  BY EmptySeq DEF Close, Held, Phases

\* Quitting, crashing and starting the app.
LEMMA LifeKeeps ==
  ASSUME IInv, Quit \/ Crash \/ Launch
  PROVE  IInv'
  <1>1. TypeOK
    BY DEF IInv
  <1>2. CASE Quit
    <2>1. /\ procs' \in Seq([root : Roots, st : Stages]) /\ Len(procs') = Len(procs)
          /\ ~orphaned => \A i \in DOMAIN procs' : procs'[i].st = "dead"
      BY <1>1, <1>2, KillEffect DEF IInv, Quit
    <2>2. /\ handle' = 0 /\ cmd' = Idle /\ ~Held' /\ calls' \in Seq(CallType)
          /\ replies' \in Seq(ReplyType) /\ phase' \in Phases
          /\ dialog' \in {"closed", "asked", "forget"} /\ app' \in {"up", "down"}
      BY <1>1, <1>2, CloseEffect DEF Quit
    <2>3. budget' \in 0 .. Budget
      BY <1>1, <1>2, CompanionAssumption DEF Quit, Spend, TypeOK
    <2>4. TypeOK'
      BY <1>1, <1>2, <2>1, <2>2, <2>3, IdleTyped DEF TypeOK, Quit, disk, files, Ids, CmdType, Idle
    <2>5. Where' /\ NoStrayDaemon' /\ Agreed'
      BY <1>2, <2>1, <2>2 DEF Where, NoStrayDaemon, Agreed, Alive, Quit, Idle, Polling
    <2> QED
      BY <2>4, <2>5 DEF IInv
  <1>3. CASE Crash
    <2>1. /\ handle' = 0 /\ cmd' = Idle /\ ~Held' /\ calls' \in Seq(CallType)
          /\ replies' \in Seq(ReplyType) /\ phase' \in Phases
          /\ dialog' \in {"closed", "asked", "forget"} /\ app' \in {"up", "down"}
      BY <1>1, <1>3, CloseEffect DEF Crash
    <2>2. budget' \in 0 .. Budget
      BY <1>1, <1>3, CompanionAssumption DEF Crash, Spend, TypeOK
    <2>3. config' \in Roots \cup {None} /\ UNCHANGED <<mounted, procs, files>>
      BY <1>1, <1>3 DEF Crash, TypeOK
    <2>4. orphaned' \in BOOLEAN /\ (~orphaned' => ~orphaned /\ ~(handle # 0 /\ Alive(handle)))
      BY <1>1, <1>3 DEF Crash, TypeOK
    <2>5. TypeOK'
      BY <1>1, <2>1, <2>2, <2>3, <2>4 DEF TypeOK, files, Ids, Idle, Steps
    <2>6. NoStrayDaemon'
      <3>1. \A i \in DOMAIN procs : i # 0
        BY <1>1 DEF TypeOK
      <3> QED
        BY <2>1, <2>3, <2>4, <3>1 DEF IInv, NoStrayDaemon, Alive
    <2>7. Where' /\ Agreed'
      BY <2>1 DEF Where, Agreed, Idle, Polling
    <2> QED
      BY <2>5, <2>6, <2>7 DEF IInv
  <1>4. CASE Launch
    <2>1. Call("app_state", None) \in CallType
      BY DEF Call, CallType
    <2>2. calls' \in Seq(CallType)
      BY <1>1, <1>4, <2>1, SendTyped DEF Launch
    <2>3. TypeOK'
      BY <1>1, <1>4, <2>2 DEF TypeOK, Launch, disk, files, Ids
    <2>4. Where' /\ NoStrayDaemon' /\ Agreed'
      BY <1>4 DEF IInv, Where, NoStrayDaemon, Agreed, Held, Alive, Launch, disk
    <2> QED
      BY <2>3, <2>4 DEF IInv
  <1> QED
    BY <1>2, <1>3, <1>4

\* A daemon that changes its stage stays the same daemon.
LEMMA StageEffect ==
  ASSUME TypeOK, NEW i \in DOMAIN procs, NEW s \in Stages, procs' = [procs EXCEPT ![i].st = s]
  PROVE  /\ procs' \in Seq([root : Roots, st : Stages]) /\ Len(procs') = Len(procs)
         /\ DOMAIN procs' = DOMAIN procs /\ procs'[i].st = s
         /\ \A j \in DOMAIN procs : procs'[j].root = procs[j].root /\ (j # i => procs'[j] = procs[j])
  <1>1. procs \in Seq(ProcType) /\ procs[i] \in ProcType
    BY ProcTyped DEF TypeOK, ProcType
  <1>2. [procs[i] EXCEPT !.st = s] \in ProcType
    BY <1>1 DEF ProcType
  <1>3. procs' = [procs EXCEPT ![i] = [procs[i] EXCEPT !.st = s]]
    OBVIOUS
  <1>4. procs' \in Seq(ProcType) /\ Len(procs') = Len(procs) /\ DOMAIN procs' = DOMAIN procs
    BY <1>1, <1>2, <1>3, ExceptSeq
  <1> QED
    BY <1>1, <1>3, <1>4 DEF ProcType

\* A daemon starts up or dies, and a folder comes or goes.
LEMMA DaemonKeeps ==
  ASSUME IInv, Mount \/ \E i \in DOMAIN procs : BootStep(i) \/ DaemonDies(i)
  PROVE  IInv'
  <1>1. TypeOK
    BY DEF IInv
  <1>2. CASE Mount
    <2>1. TypeOK'
      BY <1>1, <1>2, CompanionAssumption DEF TypeOK, Mount, Spend, files, web, Ids
    <2>2. Where' /\ NoStrayDaemon' /\ Agreed'
      BY <1>2 DEF IInv, Where, NoStrayDaemon, Agreed, Held, Alive, Mount
    <2> QED
      BY <2>1, <2>2 DEF IInv
  <1>3. ASSUME NEW i \in DOMAIN procs, BootStep(i) \/ DaemonDies(i)
        PROVE  IInv'
    <2>1. PICK s \in Stages : procs' = [procs EXCEPT ![i].st = s]
                              /\ (s = "dead" \/ Alive(i))
      <3>1. ASSUME Proceeds(i) PROVE After[procs[i].st] \in Stages /\ Alive(i)
        BY <3>1 DEF Proceeds, After, Stages, Alive
      <3> QED
        BY <1>3, <3>1 DEF BootStep, DaemonDies, Stages
    <2>2. /\ procs' \in Seq([root : Roots, st : Stages]) /\ Len(procs') = Len(procs)
          /\ DOMAIN procs' = DOMAIN procs /\ procs'[i].st = s
          /\ \A j \in DOMAIN procs : procs'[j].root = procs[j].root /\ (j # i => procs'[j] = procs[j])
      BY <1>1, <2>1, StageEffect
    <2>3. /\ UNCHANGED <<disk, handle, web, cmd, dialog, app, orphaned>>
          /\ budget' \in 0 .. Budget
      BY <1>1, <1>3, BudgetTyped DEF BootStep, Proceeds, Refuses, DaemonDies
    <2>4. port' \in Ids /\ token' \in Ids
      <3>1. i \in Ids
        BY <1>1 DEF TypeOK, Ids
      <3> QED
        BY <1>1, <1>3, <3>1 DEF BootStep, DaemonDies, files, TypeOK, Ids
    <2>5. TypeOK'
      BY <1>1, <2>2, <2>3, <2>4 DEF TypeOK, disk, web, Ids
    <2>6. \A j \in DOMAIN procs : procs'[j].st # "dead" => Alive(j)
      BY <2>1, <2>2 DEF Alive
    <2>7. NoStrayDaemon'
      BY <2>2, <2>3, <2>6 DEF IInv, NoStrayDaemon, Alive
    <2>8. Held' => Held /\ procs'[handle].root = procs[handle].root
      <3>1. handle # 0 => handle \in DOMAIN procs
        BY <1>1 DEF TypeOK, Ids
      <3> QED
        BY <2>2, <2>3, <2>6, <3>1 DEF Held, Alive
    <2>9. Where' /\ Agreed'
      BY <2>3, <2>8 DEF IInv, Where, Agreed, disk
    <2> QED
      BY <2>5, <2>7, <2>9 DEF IInv
  <1> QED
    BY <1>2, <1>3

-----------------------------------------------------------------------------
\* The inductive invariant of the companion holds in every reachable state.
THEOREM Inductive == Spec => []IInv
  <1>1. Init => IInv
    <2> SUFFICES ASSUME Init PROVE IInv
      OBVIOUS
    <2>1. Call("app_state", None) \in CallType
      BY DEF Call, CallType
    <2>2. TypeOK
      <3>1. /\ procs = <<>> /\ procs \in Seq([root : Roots, st : Stages])
            /\ replies = <<>> /\ replies \in Seq(ReplyType) /\ Len(procs) = 0
        BY EmptySeq DEF Init
      <3>2. calls \in Seq(CallType)
        BY <2>1 DEF Init
      <3>3. 0 \in Ids /\ port \in Ids /\ token \in Ids /\ handle \in Ids
        BY <3>1 DEF Init, Ids
      <3>4. cmd \in [op : Ops \cup {"none"}, pc : Steps, root : Roots \cup {None}, port : Ids, token : Ids]
        BY <3>3 DEF Init, Idle, Steps
      <3>5. Budget \in 0 .. Budget
        BY CompanionAssumption
      <3>6. budget \in 0 .. Budget
        BY <3>5 DEF Init
      <3>7. phase \in Phases /\ orphaned \in BOOLEAN
        BY DEF Init, Phases
      <3> QED
        BY <3>1, <3>2, <3>3, <3>4, <3>6, <3>7 DEF Init, TypeOK
    <2>3. Where /\ NoStrayDaemon /\ Agreed
      BY DEF Init, Where, NoStrayDaemon, Agreed, Held, Idle, Polling
    <2> QED
      BY <2>2, <2>3 DEF IInv
  <1>2. IInv /\ [Next]_vars => IInv'
    <2> SUFFICES ASSUME IInv, [Next]_vars PROVE IInv'
      OBVIOUS
    <2>1. CASE Next
      BY <2>1, WebKeeps, MainKeeps, DialogKeeps, LifeKeeps, DaemonKeeps DEF Next
    <2>2. CASE UNCHANGED vars
      BY <2>2 DEF vars, disk, files, web, IInv, TypeOK, Where, NoStrayDaemon, Agreed, Held, Alive, Ids
    <2> QED
      BY <2>1, <2>2
  <1> QED
    BY <1>1, <1>2, PTL DEF Spec

\* An app that was never killed holds the only daemon that is alive.
THEOREM NoStray == Spec => []NoStrayDaemon
  <1>1. IInv => NoStrayDaemon
    BY DEF IInv
  <1> QED
    BY <1>1, Inductive, PTL

\* A step that tells "running" tells the folder the command has loaded.
LEMMA StepTells ==
  ASSUME IInv, [Next]_vars, NEW r \in Roots, ~orphaned, Len(replies') > Len(replies),
         replies'[Len(replies')] = Reply("app_state", "running", r)
  PROVE  r = cmd.root
  <1>1. replies \in Seq(ReplyType) /\ Len(replies) \in Nat
    BY DEF IInv, TypeOK
  <1>2. Main
    <2>1. ~(UNCHANGED replies) /\ ~(replies' = <<>>)
      BY <1>1
    <2>2. ~HandleReply
      BY <1>1, HeadTailProperties DEF HandleReply
    <2> QED
      BY <2>1, <2>2
      DEF Next, vars, web, Tick, ClickStart, ClickBack, Reconfigure, Cancel, Confirm, Forget,
          Quit, Crash, Close, Launch, Mount, BootStep, DaemonDies
  <1>3. PICK mode \in {"running", "connecting", "error", "setup", "ok"}, x \in Roots \cup {None} :
          Done(mode, x) /\ (mode = "running" => GetStatus /\ x = procs[cmd.port].root)
    <2>1. ~(UNCHANGED replies)
      BY <1>1
    <2>2. ASSUME GetStatus PROVE procs[cmd.port].root \in Roots
      <3>1. cmd.port \in DOMAIN procs
        BY <2>2 DEF GetStatus, Doing, IInv, Where, TypeOK, Ids
      <3> QED
        BY <3>1, ProcTyped DEF IInv
    <2>3. cmd.root \in Roots \cup {None}
      BY DEF IInv, TypeOK
    <2> QED
      BY <1>2, <2>1, <2>2, <2>3
      DEF Main, TakeCall, LoadConfig, ReadPort, ReadToken, GetStatus, EnsureDaemon, CheckFolder,
          SaveConfig, Kill, RemoveConfig, Then
  <1>4. replies' = Append(replies, Reply(cmd.op, mode, x))
    BY <1>3 DEF Done
  <1>5. replies'[Len(replies')] = Reply(cmd.op, mode, x)
    BY <1>1, <1>4
  <1>6. mode = "running" /\ x = r
    BY <1>5 DEF Reply
  <1>7. GetStatus /\ r = procs[cmd.port].root
    BY <1>3, <1>6
  <1>8. /\ cmd.op = "app_state" /\ cmd.pc = "status" /\ cmd.port # 0 /\ cmd.port \in DOMAIN procs
    BY <1>7 DEF GetStatus, Doing, IInv, Where, TypeOK, Ids
  <1>9. procs[cmd.port].st = "serving"
    <2>1. ~Then("ensure")
      BY <1>1, <1>4 DEF Then
    <2> QED
      BY <1>7, <2>1 DEF GetStatus
  <1>10. handle = cmd.port /\ Held
    BY <1>8, <1>9 DEF IInv, NoStrayDaemon, Alive, Held
  <1> QED
    BY <1>7, <1>8, <1>10 DEF IInv, Agreed, Polling

\* "Running" is only told of a daemon that serves the configured folder.
THEOREM RunningIsConfigured == Spec => TellsConfigured
  <1>1. IInv /\ [Next]_vars =>
          [\A r \in Roots : ~orphaned /\ Len(replies') > Len(replies)
                             /\ replies'[Len(replies')] = Reply("app_state", "running", r)
                             => r = cmd.root]_vars
    BY StepTells
  <1> QED
    BY <1>1, Inductive, PTL DEF Spec, TellsConfigured
=============================================================================
