-------------------------- MODULE MediaCoordinator --------------------------
(***************************************************************************)
(* services/media-isolate-coordinator-rs: codecs as child processes, the   *)
(* requests that spawn, kill and check them, and the monitor that checks   *)
(* all of them every few seconds.  Requests and single checks take one     *)
(* mutex; between two checks of a sweep any request may run.               *)
(*                                                                         *)
(* Nobody waits for a child (coordinator.rs:167-169).  Unless SIGCHLD is   *)
(* ignored when the daemon is started, which it inherits and never sets, a *)
(* dead child stays a zombie: its pid still answers kill(pid, 0).  Cgroups *)
(* are best effort, every error is ignored, and are left out.              *)
(***************************************************************************)
EXTENDS Naturals, FiniteSets, Functions

CONSTANTS
  Pids,
  MaxRestarts,  \* IsolationConfig.max_restarts, 5
  MaxId         \* bound on the ids given out in one life of the daemon

VARIABLES
  reaping,    \* SIGCHLD is ignored: the kernel frees a dead child's pid
  processes,  \* ProcessManager.processes
  last_id,    \* PROCESS_ID_COUNTER
  sweep,      \* the monitor's list of ids, as far as it is not checked yet
  table,      \* the kernel's process table
  (* History, read by properties only: *)
  killed      \* first ids of the codecs whose kill was answered with success

vars == <<reaping, processes, last_id, sweep, table, killed>>

\* The bounds are numbers.
ConstantsOK == MaxRestarts \in Nat /\ MaxId \in Nat

Ids == 1 .. MaxId

\* A codec keeps the id it was spawned with as its root through restarts.
Procs == [pid : Pids, restarts : 0 .. MaxRestarts, root : Ids]

Free == [role |-> "free", root |-> 0]
Stranger == [role |-> "stranger", root |-> 0]
Codec(root) == [role |-> "codec", root |-> root]

\* What a dead child leaves in the process table.
Leaves(entry) == IF reaping THEN Free ELSE [entry EXCEPT !.role = "zombie"]

-----------------------------------------------------------------------------
(* coordinator.rs *)

\* Faulty: an error of kill(pid, 0) says nothing either.
IsPidAliveAnyway(pid) == TRUE

IsPidAlive(pid) == table[pid].role # "free"

\* A child is started and entered under the next id.
Starts(known, root, restarts) ==
  \E pid \in Pids :
    /\ table[pid] = Free
    /\ table' = [table EXCEPT ![pid] = Codec(root)]
    /\ processes' = [i \in DOMAIN known \cup {last_id + 1} |->
         IF i = last_id + 1 THEN [pid |-> pid, restarts |-> restarts, root |-> root]
         ELSE known[i]]

\* The id is used up whether or not the child can be started.
SpawnCodec ==
  /\ last_id < MaxId
  /\ last_id' = last_id + 1
  /\ \/ Starts(processes, last_id + 1, 0)
     \/ UNCHANGED <<processes, table>>
  /\ UNCHANGED <<reaping, sweep, killed>>

\* Faulty: the entry is left to the next check.
WithoutNothing(id) == processes

Without(id) == Restrict(processes, DOMAIN processes \ {id})

\* SIGKILL goes to whatever has the pid now.
KillCodec(id) ==
  LET p == processes[id] IN
  /\ id \in DOMAIN processes
  /\ processes' = Without(id)
  /\ table' = [table EXCEPT ![p.pid] =
       CASE @.role = "codec" -> Leaves(@) [] @.role = "stranger" -> Free [] OTHER -> @]
  /\ killed' = killed \cup {p.root}
  /\ UNCHANGED <<reaping, last_id, sweep>>

\* A dead codec is given up after its last restart, or replaced under a new
\* id; when the child cannot be started it is lost.
CheckAndRestart(id) ==
  LET p == processes[id]
      rest == Restrict(processes, DOMAIN processes \ {id}) IN
  /\ id \in DOMAIN processes /\ ~IsPidAlive(p.pid)
  /\ \/ /\ p.restarts >= MaxRestarts
        /\ processes' = rest
        /\ UNCHANGED <<last_id, table>>
     \/ /\ p.restarts < MaxRestarts /\ last_id < MaxId
        /\ last_id' = last_id + 1
        /\ \/ Starts(rest, p.root, p.restarts + 1)
           \/ processes' = rest /\ UNCHANGED <<table>>
  /\ UNCHANGED <<reaping, killed>>

\* Alive, or unknown: nothing changes.
NothingToDo(id) == id \in DOMAIN processes => IsPidAlive(processes[id].pid)

-----------------------------------------------------------------------------
(* main.rs *)

\* The monitor lists the ids under the lock and gives it back.
SweepBegins ==
  /\ sweep = {} /\ DOMAIN processes # {}
  /\ sweep' = DOMAIN processes
  /\ UNCHANGED <<reaping, processes, last_id, table, killed>>

\* In ascending order, each under the lock again.
SweepChecks ==
  \E id \in sweep :
    /\ \A j \in sweep : id <= j
    /\ sweep' = sweep \ {id}
    /\ \/ CheckAndRestart(id)
       \/ /\ NothingToDo(id)
          /\ UNCHANGED <<reaping, processes, last_id, table, killed>>

\* The request checks one codec in the same way.
CheckHealth(id) == CheckAndRestart(id) /\ UNCHANGED sweep

Crash ==
  /\ processes' = <<>>
  /\ last_id' = 0
  /\ sweep' = {}
  /\ table' = [p \in Pids |-> CASE table[p].role = "codec" -> Stranger
                                [] table[p].role = "zombie" -> Free
                                [] OTHER -> table[p]]
  /\ killed' = {}
  /\ UNCHANGED reaping

-----------------------------------------------------------------------------
(* The kernel *)

\* A process ends by itself, or another one takes a free pid.
Exits(pid) ==
  /\ table' = [table EXCEPT ![pid] = IF @.role = "codec" THEN Leaves(@) ELSE Free]
  /\ table[pid].role \in {"codec", "stranger"}
  /\ UNCHANGED <<reaping, processes, last_id, sweep, killed>>

Arrives(pid) ==
  /\ table[pid] = Free
  /\ table' = [table EXCEPT ![pid] = Stranger]
  /\ UNCHANGED <<reaping, processes, last_id, sweep, killed>>

Init ==
  /\ reaping \in BOOLEAN
  /\ processes = <<>>
  /\ last_id = 0
  /\ sweep = {}
  /\ table = [p \in Pids |-> Free]
  /\ killed = {}

Next ==
  \/ SpawnCodec
  \/ \E id \in Ids : KillCodec(id) \/ CheckHealth(id)
  \/ SweepBegins
  \/ SweepChecks
  \/ \E pid \in Pids : Exits(pid) \/ Arrives(pid)
  \/ Crash

\* The monitor's timer goes on firing and its lock is always given back.
Fairness == WF_vars(SweepBegins) /\ WF_vars(SweepChecks)

Spec == Init /\ [][Next]_vars

FairSpec == Spec /\ Fairness

-----------------------------------------------------------------------------
(* Properties *)

\* The variables have their types.
TypeOK ==
  /\ reaping \in BOOLEAN
  /\ DOMAIN processes \subseteq 1 .. last_id
  /\ processes \in [DOMAIN processes -> Procs]
  /\ last_id \in 0 .. MaxId
  /\ sweep \subseteq 1 .. last_id
  /\ table \in [Pids -> [role : {"codec", "zombie"}, root : Ids] \cup {Free, Stranger}]
  /\ killed \subseteq Ids

\* Every running codec of this life is the one some entry stands for, so that
\* it can be listed and killed, and none runs whose kill was answered: neither a
\* restart, a failed start nor a sweep that works on an old list of ids loses a
\* running codec or brings a killed one back (coordinator.rs:188-262, main.rs:57-80).
CodecsAreWanted ==
  \A pid \in Pids : table[pid].role = "codec" =>
    /\ table[pid].root \notin killed
    /\ \E i \in DOMAIN processes : processes[i].pid = pid /\ processes[i].root = table[pid].root

\* When pids of dead codecs are freed, the monitor replaces or gives up every
\* dead one unless another process takes its pid in the meantime.
DeadAreNoticed ==
  \A id \in Ids :
    (id \in DOMAIN processes /\ table[processes[id].pid] = Free) ~>
      (id \notin DOMAIN processes \/ table[processes[id].pid] # Free \/ last_id = MaxId)
=============================================================================
