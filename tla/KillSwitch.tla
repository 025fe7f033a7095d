----------------------------- MODULE KillSwitch -----------------------------
(***************************************************************************)
(* services/vpn-killswitch-rs: the request handlers and the background     *)
(* monitor (main.rs) that edit the kernel's OUTPUT chain through one       *)
(* iptables process per command (firewall.rs).                             *)
(*                                                                         *)
(* The mutex protects the daemon's own record only: it is released while   *)
(* the commands run, so the commands of several tasks interleave one by    *)
(* one, and every snapshot a task took of the record may be stale when it  *)
(* is used.  A command may fail (the xtables lock is held, the process     *)
(* cannot be spawned), which ends the sequence where it stands.  The       *)
(* policy of OUTPUT is ACCEPT throughout: nothing sets another.            *)
(* SNI checking only logs and is left out.                                 *)
(***************************************************************************)
EXTENDS Naturals, Sequences

CONSTANTS
  Clients,     \* connection tasks, each with one request at a time
  Monitor,     \* the background_monitor task
  Ifaces,      \* VPN interfaces
  Endpoints,   \* VPN endpoint addresses
  Unset,       \* an iface or endpoint never configured (unwrap_or_default)
  MaxLeaked    \* leaked_queries is told apart up to this value

Tasks == Clients \cup {Monitor}

ASSUME NamesAssumption ==
  /\ Monitor \notin Clients
  /\ Unset \notin Ifaces \cup Endpoints \cup Tasks
  /\ MaxLeaked \in Nat

VARIABLES
  st,       \* KillSwitchState
  chain,    \* rules of OUTPUT that decide traffic, first match wins
  task,     \* what each task is doing
  routes,   \* interfaces that have a default route
  (* History, read by properties only: *)
  flushed,  \* what kind of sequence emptied the chain last, and by which task
            \* while that one still runs
  clean     \* the last sequence to end ran alone and without a failure

vars == <<st, chain, task, routes, flushed, clean>>

-----------------------------------------------------------------------------
(* firewall.rs *)

\* The commands of the two sequences, in order.
\* Faulty: the catch-all rule is put in before the tunnel's.
BlockScriptDropsEarly == <<"flush", "lo", "dst", "drop", "out">>
\* Faulty: the flush comes after the rules it should make room for.
BlockScriptFlushesLast == <<"lo", "dst", "out", "drop", "flush">>
\* block_all_except_vpn_endpoint
BlockScript == <<"flush", "lo", "dst", "out", "drop">>
\* restore_normal
RestoreScript == <<"flush", "policy">>

\* A rule of the chain: what it matches, and the address or interface named.
Rule(kind, arg) == [kind |-> kind, arg |-> arg]

RuleOf(cmd, iface, endpoint) ==
  Rule(cmd, CASE cmd = "dst" -> endpoint [] cmd = "out" -> iface [] OTHER -> Unset)

\* The chain a complete, undisturbed block leaves.
BlockRules(iface, endpoint) ==
  << Rule("lo", Unset), Rule("dst", endpoint), Rule("out", iface), Rule("drop", Unset) >>

\* Traffic that is neither local, nor to the endpoint, nor in the tunnel only
\* meets the DROP rule; without one the policy lets it out.
Blocking == \E i \in DOMAIN chain : chain[i].kind = "drop"

\* No packet is decided by a rule that repeats an earlier one or comes after
\* the DROP: such rules are appended but not told apart.
Decides(rule) == ~Blocking /\ \A i \in DOMAIN chain : chain[i] # rule

\* The effect of one command that succeeds.
Executed(cmd, iface, endpoint) ==
  CASE cmd = "flush" -> << >>
    [] cmd = "policy" -> chain
    [] OTHER -> LET rule == RuleOf(cmd, iface, endpoint) IN
                IF Decides(rule) THEN Append(chain, rule) ELSE chain

\* `-d ""` names no host: iptables refuses it.
Refused(cmd, endpoint) == cmd = "dst" /\ endpoint = Unset

-----------------------------------------------------------------------------
(* Tasks *)

Idle == [op |-> "idle", todo |-> << >>, ok |-> TRUE, iface |-> Unset,
         endpoint |-> Unset, active |-> FALSE, alone |-> FALSE]

\* A task with commands under way or a record update still to make.  The
\* monitor's looking at routes and sockets disturbs nobody.
Editing(t) == task[t].op \notin {"idle", "check", "dns"}

\* Task t takes up work w; whoever else is editing is no longer alone, and a
\* monitor between its snapshot and its use is not either.
Starts(t, w) ==
  task' = [u \in Tasks |->
    IF u = t THEN [w EXCEPT !.alone = @ /\ \A v \in Tasks \ {t} : ~Editing(v)]
             ELSE [task[u] EXCEPT !.alone = FALSE]]

Work(op, script, iface, endpoint) ==
  [Idle EXCEPT !.op = op, !.todo = script, !.iface = iface,
               !.endpoint = endpoint, !.alone = TRUE]

Ready(c) == task[c].op = "idle"

-----------------------------------------------------------------------------
(* main.rs, process_request: what each request does before its commands *)

Enable(c, iface, endpoint) ==
  /\ Ready(c)
  /\ Starts(c, Work("enable", BlockScript, iface, endpoint))
  /\ UNCHANGED <<st, chain, routes, flushed, clean>>

\* The snapshot Disable takes is not used by its commands.
Disable(c) ==
  /\ Ready(c)
  /\ Starts(c, Work("disable", RestoreScript, Unset, Unset))
  /\ UNCHANGED <<st, chain, routes, flushed, clean>>

VpnUp(c, iface) ==
  /\ Ready(c)
  /\ Starts(c, Work("vpn_up", BlockScript, iface, st.endpoint))
  /\ UNCHANGED <<st, chain, routes, flushed, clean>>

VpnDown(c) ==
  /\ Ready(c)
  /\ Starts(c, Work("vpn_down", BlockScript, st.iface, st.endpoint))
  /\ UNCHANGED <<st, chain, routes, flushed, clean>>

-----------------------------------------------------------------------------
(* firewall.rs, iptables: one command of one task *)

CommandSucceeds(t) ==
  LET w == task[t] IN
  /\ w.todo # << >>
  /\ ~Refused(Head(w.todo), w.endpoint)
  /\ chain' = Executed(Head(w.todo), w.iface, w.endpoint)
  /\ task' = [task EXCEPT ![t].todo = Tail(@)]
  /\ flushed' = IF Head(w.todo) = "flush"
                  THEN [by |-> t, kind |-> IF w.op = "disable" THEN "restore" ELSE "block"]
                  ELSE flushed
  /\ UNCHANGED <<st, routes, clean>>

\* The sequence ends here; what it did so far stays.
CommandFails(t) ==
  LET w == task[t] IN
  /\ w.todo # << >>
  /\ task' = [task EXCEPT ![t] =
       [@ EXCEPT !.todo = << >>, !.ok = FALSE, !.endpoint = Unset, !.alone = FALSE]]
  /\ flushed' = IF flushed.by = t /\ Head(w.todo) # "flush"
                  THEN [by |-> Unset, kind |-> "broken"] ELSE flushed
  /\ UNCHANGED <<st, chain, routes, clean>>

-----------------------------------------------------------------------------
(* main.rs: the record as each operation leaves it, in its second lock *)

\* Faulty: a failed enable or VPN loss still records the switch as active.
RecordedRegardless(w) ==
  CASE w.op = "enable" ->
         [st EXCEPT !.active = TRUE, !.iface = w.iface, !.endpoint = w.endpoint]
    [] w.op = "disable" /\ w.ok -> [st EXCEPT !.active = FALSE]
    [] w.op = "vpn_up" -> [st EXCEPT !.vpnUp = TRUE, !.iface = w.iface]
    [] w.op = "vpn_down" -> [st EXCEPT !.vpnUp = FALSE, !.active = TRUE]
    [] w.op = "reblock" -> [st EXCEPT !.vpnUp = FALSE]
    [] OTHER -> st

\* Enable, Disable and VpnDown only record a success; VpnUp and the monitor
\* record the event whatever became of their commands.
Recorded(w) ==
  CASE w.op = "enable" /\ w.ok ->
         [st EXCEPT !.active = TRUE, !.iface = w.iface, !.endpoint = w.endpoint]
    [] w.op = "disable" /\ w.ok -> [st EXCEPT !.active = FALSE]
    [] w.op = "vpn_up" -> [st EXCEPT !.vpnUp = TRUE, !.iface = w.iface]
    [] w.op = "vpn_down" /\ w.ok -> [st EXCEPT !.vpnUp = FALSE, !.active = TRUE]
    [] w.op = "reblock" -> [st EXCEPT !.vpnUp = FALSE]
    [] OTHER -> st

\* The sequence is over (or broken off): take the lock, record, answer.
Finish(t) ==
  LET w == task[t] IN
  /\ Editing(t)
  /\ w.todo = << >>
  /\ st' = Recorded(w)
  /\ task' = [task EXCEPT ![t] = IF t = Monitor THEN [Idle EXCEPT !.op = "dns"] ELSE Idle]
  /\ flushed' = IF flushed.by = t THEN [flushed EXCEPT !.by = Unset] ELSE flushed
  /\ clean' = (w.alone /\ w.ok)
  /\ UNCHANGED <<chain, routes>>

-----------------------------------------------------------------------------
(* main.rs, background_monitor *)

MonitorSnapshots ==
  /\ Ready(Monitor)
  /\ task' = [task EXCEPT ![Monitor] =
       [Work("check", << >>, st.iface, st.endpoint) EXCEPT
          !.active = st.active, !.alone = \A c \in Clients : ~Editing(c)]]
  /\ UNCHANGED <<st, chain, routes, flushed, clean>>

\* Faulty: only a VPN that was recorded as up is reacted to.
LostVpnOnce(w) == w.active /\ st.vpnUp /\ w.iface \notin routes

\* The snapshot says active and its interface has no default route now.
LostVpn(w) == w.active /\ w.iface \notin routes

MonitorReblocks ==
  LET w == task[Monitor] IN
  /\ w.op = "check"
  /\ LostVpn(w)
  /\ Starts(Monitor, [w EXCEPT !.op = "reblock", !.todo = BlockScript])
  /\ UNCHANGED <<st, chain, routes, flushed, clean>>

MonitorSeesRoute ==
  LET w == task[Monitor] IN
  /\ w.op = "check"
  /\ ~LostVpn(w)
  /\ task' = [task EXCEPT ![Monitor] = [Idle EXCEPT !.op = "dns"]]
  /\ UNCHANGED <<st, chain, routes, flushed, clean>>

\* Sockets to port 53 are counted, through the tunnel or not.
MonitorCountsDns ==
  /\ task[Monitor].op = "dns"
  /\ \E n \in 0..MaxLeaked :
       st' = [st EXCEPT !.leaked = IF @ + n <= MaxLeaked THEN @ + n ELSE MaxLeaked]
  /\ task' = [task EXCEPT ![Monitor] = Idle]
  /\ UNCHANGED <<chain, routes, flushed, clean>>

-----------------------------------------------------------------------------
(* Environment *)

\* The VPN client gains or loses the default route.
RouteChanges(i) ==
  /\ routes' = IF i \in routes THEN routes \ {i} ELSE routes \cup {i}
  /\ UNCHANGED <<st, chain, task, flushed, clean>>

Fresh == [active |-> FALSE, iface |-> Unset, endpoint |-> Unset,
          vpnUp |-> FALSE, leaked |-> 0]

\* The daemon is restarted: its record and tasks are gone, the chain stays.
Restart ==
  /\ st' = Fresh
  /\ task' = [t \in Tasks |-> Idle]
  /\ flushed' = [by |-> Unset,
                 kind |-> IF \E t \in Tasks : flushed.by = t /\ task[t].todo # << >>
                            THEN "broken" ELSE flushed.kind]
  /\ clean' = FALSE
  /\ UNCHANGED <<chain, routes>>

-----------------------------------------------------------------------------
Init ==
  /\ st = Fresh
  /\ chain = << >>
  /\ task = [t \in Tasks |-> Idle]
  /\ routes \in SUBSET Ifaces
  /\ flushed = [by |-> Unset, kind |-> "none"]
  /\ clean = TRUE

Request(c) ==
  \/ \E i \in Ifaces, e \in Endpoints : Enable(c, i, e)
  \/ Disable(c)
  \/ \E i \in Ifaces : VpnUp(c, i)
  \/ VpnDown(c)

\* What the monitor does by itself when its commands succeed.
MonitorActs ==
  \/ MonitorSnapshots
  \/ MonitorReblocks
  \/ MonitorSeesRoute
  \/ MonitorCountsDns
  \/ CommandSucceeds(Monitor)
  \/ Finish(Monitor)

Next ==
  \/ \E c \in Clients : Request(c)
  \/ \E t \in Tasks : CommandSucceeds(t)
  \/ \E t \in Tasks : CommandFails(t)
  \/ \E t \in Tasks : Finish(t)
  \/ MonitorSnapshots
  \/ MonitorReblocks
  \/ MonitorSeesRoute
  \/ MonitorCountsDns
  \/ \E i \in Ifaces : RouteChanges(i)
  \/ Restart

\* The monitor's loop and every command once started go on; requests,
\* failures, routes and restarts come as they like.
Fairness ==
  /\ WF_vars(MonitorActs)
  /\ \A c \in Clients : WF_vars(CommandSucceeds(c) \/ CommandFails(c) \/ Finish(c))

Spec == Init /\ [][Next]_vars

FairSpec == Spec /\ Fairness

-----------------------------------------------------------------------------
(* Properties *)

Commands == {"flush", "lo", "dst", "out", "drop", "policy"}
Rules == [kind : Commands, arg : Ifaces \cup Endpoints \cup {Unset}]
Blocks == {"enable", "vpn_up", "vpn_down", "reblock"}
Works == [op : Blocks \cup {"idle", "disable", "check", "dns"}, todo : Seq(Commands),
          ok : BOOLEAN, iface : Ifaces \cup {Unset}, endpoint : Endpoints \cup {Unset},
          active : BOOLEAN, alone : BOOLEAN]

\* The variables have their types; commands are left only to tasks that edit,
\* and an active switch knows its interface and the endpoint it must leave
\* reachable, even when VpnDown (main.rs:196-207) and not Enable activated it.
TypeOK ==
  /\ st \in [active : BOOLEAN, iface : Ifaces \cup {Unset},
             endpoint : Endpoints \cup {Unset}, vpnUp : BOOLEAN, leaked : 0..MaxLeaked]
  /\ chain \in Seq(Rules)
  /\ task \in [Tasks -> Works]
  /\ \A t \in Tasks : task[t].todo # << >> => Editing(t)
  /\ routes \in SUBSET Ifaces
  /\ flushed \in [by : Tasks \cup {Unset}, kind : {"none", "block", "restore", "broken"}]
  /\ clean \in BOOLEAN
  /\ st.active => st.iface # Unset /\ st.endpoint # Unset

Settled == \A t \in Tasks : ~Editing(t)

\* Any number of overlapping enables, VPN events and monitor passes leaves the
\* chain blocking: when nobody is editing and the kill-switch is recorded as
\* active, traffic can be open only if the last flush belonged to a Disable or
\* to a sequence that a failed command or a restart broke off.
OpenOnlyByDisableOrFailure ==
  Settled /\ st.active /\ ~Blocking => flushed.kind \in {"restore", "broken"}

\* At every moment, not only when nobody is editing: an active switch over an open
\* chain means that a Disable, a failed command or a restart opened it, or that the
\* task which flushed it last is alive and still has the DROP to put in, however
\* many sequences interleave in the chain (firewall.rs:47-71).
DropIsOnItsWay ==
  st.active /\ ~Blocking /\ flushed.kind \notin {"restore", "broken"} =>
    \E t \in Tasks : flushed.by = t /\ \E i \in DOMAIN task[t].todo : task[t].todo[i] = "drop"

\* After a sequence that ran alone and without a failure the chain is what the
\* record says: the complete rules for the recorded interface and endpoint, in
\* the order that lets the VPN reconnect before the DROP, or nothing at all
\* and then the switch is not active.
RulesMatchRecord ==
  Settled /\ clean =>
    \/ chain = BlockRules(st.iface, st.endpoint)
    \/ chain = << >> /\ ~st.active

\* When the recorded VPN has lost its route for good, and nothing but the
\* monitor acts any more, the monitor puts the block back again and again,
\* whatever state the chain was left in.
MonitorRestoresBlock ==
  (<>[](st.active /\ st.endpoint # Unset /\ st.iface \notin routes)
     /\ <>[][MonitorActs]_vars)
  => []<>Blocking

Lost == st.active /\ st.iface \notin routes

\* The steps the monitor is away from its DROP rule, at most.
StepsToBlock ==
  LET w == task[Monitor] IN
  CASE w.op = "reblock" /\ w.todo # << >> -> Len(w.todo)
    [] w.op = "check" /\ LostVpn(w) -> Len(BlockScript) + 1
    [] w.op = "idle" -> Len(BlockScript) + 2
    [] w.op = "dns" -> Len(BlockScript) + 3
    [] OTHER -> Len(BlockScript) + 4

\* While the recorded VPN has no route, every step of the monitor brings the block
\* nearer, also one that uses a snapshot of another record, and iptables refuses it
\* no command.  It is never more than nine of its own steps away, so only steps that
\* others keep putting in between can hold it off (main.rs:221-246).
MonitorHeadsForBlock ==
  /\ [](task[Monitor].todo # << >> =>
          ~Refused(Head(task[Monitor].todo), task[Monitor].endpoint))
  /\ [][MonitorActs /\ Lost => Blocking' \/ StepsToBlock' < StepsToBlock]_vars

\* README.md:140 promises no leaks when the VPN falls ("Sin fugas si VPN
\* cae"): while the switch is active and its interface has lost its route,
\* traffic outside the tunnel is blocked, no request being under way and no
\* command having failed.
NoLeakWhileVpnDown ==
  st.active /\ st.iface \notin routes /\ clean /\ (\A c \in Clients : Ready(c))
    => Blocking
=============================================================================
