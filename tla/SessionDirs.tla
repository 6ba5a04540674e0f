------------------------------- MODULE SessionDirs --------------------------------
(***************************************************************************)
(* Which process a monitor attaches to and which session directory the     *)
(* offline commands read: utils/process_discovery.py, cli.py,              *)
(* utils/ledger_diff.py.                                                   *)
(*                                                                         *)
(* A process is [pid, own, named, readable, configured, created]: is it    *)
(* the monitor itself, does its name or its command look like a node's,    *)
(* can its data be read, is its config file found. Directories are a function from names to                       *)
(* [mtime, backup, events]; the name of a process's own is the process's   *)
(* pid and creation time. Abstracted: matching of names, wording.          *)
(***************************************************************************)
EXTENDS Integers, FiniteSets

NoPath == <<>>

-------------------------------------------------------------------------------
(* Processes *)

\* The nodes that run, but for processes whose data is denied or gone.
FindRippledProcesses(procs) == {p \in procs : ~p.own /\ p.named /\ p.readable}

GetProcessByPid(procs, pid) == {p \in procs : p.pid = pid /\ p.readable}

\* The menu: the only one, or what the user answers, perhaps nothing.
DisplayProcessMenu(found, answers) ==
  IF Cardinality(found) = 1 THEN found
  ELSE {p \in found : p \in answers}

\* The processes run_attach_mode may go on with, of which it takes one; without
\* any it exits, or waits when it is to reattach.
Targets(procs, pid, answers) ==
  IF pid # 0 THEN GetProcessByPid(procs, pid)
  ELSE DisplayProcessMenu(FindRippledProcesses(procs), answers)

\* What the command line does: attach to p, wait, or exit. Without its config file
\* or an address nobody knows where the node listens.
AttachAction(procs, pid, answers, reattach, url) ==
  LET targets == Targets(procs, pid, answers)
  IN IF targets # {}
     THEN {[act |-> IF p.configured \/ url THEN "attach" ELSE "exit", process |-> {p}] : p \in targets}
     ELSE {[act |-> IF reattach /\ (pid # 0 \/ FindRippledProcesses(procs) = {}) THEN "wait" ELSE "exit",
            process |-> {}]}

-------------------------------------------------------------------------------
(* Session directories *)

\* session_dir_name
OwnDir(p) == <<p.pid, p.created>>

\* Directories with events; what --fresh has set aside does not count.
SessionDirs(dirs) == {d \in DOMAIN dirs : dirs[d].events /\ ~dirs[d].backup}

Newest(dirs) ==
  CHOOSE d \in SessionDirs(dirs) : \A e \in SessionDirs(dirs) : dirs[e].mtime <= dirs[d].mtime

Failed(error) == [path |-> NoPath, error |-> error, notice |-> "none"]
Found(path, notice) == [path |-> path, error |-> "none", notice |-> notice]

NewestWith(dirs, notice, error) ==
  IF SessionDirs(dirs) = {} THEN Failed(error) ELSE Found(Newest(dirs), notice)

Explicit(dirs, dir) ==
  IF dir \notin DOMAIN dirs THEN Failed("does_not_exist")
  ELSE IF ~dirs[dir].events THEN Failed("no_events")
  ELSE Found(dir, "none")

\* The directory of the process that runs, or the newest with a notice. A process
\* that is gone by then has no creation time.
OfProcess(dirs, p, gone) ==
  IF gone THEN Failed("no_create_time")
  ELSE IF OwnDir(p) \in DOMAIN dirs /\ dirs[OwnDir(p)].events THEN Found(OwnDir(p), "none")
  ELSE NewestWith(dirs, "not_of_the_process", "no_directories")

ResolveSessionDir(dirs, explicit, running, gone) ==
  IF explicit # NoPath THEN Explicit(dirs, explicit)
  ELSE IF Cardinality(running) > 1 THEN Failed("several_processes")
  ELSE IF running # {} THEN OfProcess(dirs, CHOOSE p \in running : TRUE, gone)
  ELSE NewestWith(dirs, "no_process", "no_directories")
================================================================================
