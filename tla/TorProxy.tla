------------------------------ MODULE TorProxy ------------------------------
(***************************************************************************)
(* services/tor-proxy-rs: the request handlers and the circuit monitor     *)
(* (main.rs), the Tor child and its control port (tor_manager.rs), and the *)
(* two nat chains the daemon fills and hooks into OUTPUT, one iptables     *)
(* process per command (iptables.rs).                                      *)
(*                                                                         *)
(* One mutex protects the whole DaemonState and a handler keeps it across  *)
(* every await: the bootstrap, each command, each control-port exchange.   *)
(* So `lock` says what the holder still has to do.  The monitor takes the  *)
(* lock three times per round and other tasks run in between.  Any iptables*)
(* command may fail (xtables lock, no process); some failures are returned *)
(* and some are ignored.  Requests that are refused at once change nothing *)
(* and are left out, and so are the exit country, which is only shown and  *)
(* written into the next torrc, and the text of torrc.                     *)
(***************************************************************************)
EXTENDS Naturals, Sequences, SequencesExt

CONSTANTS
  Uids,      \* uids that may be put on the bypass list
  TorUid,    \* TOR_PROCESS_UID, which nothing keeps off that list
  MaxRules   \* no bypass is added to a chain this long

Chains == {"dns", "trans"}
Rules == Uids \cup {TorUid, "local", "redirect"}

ASSUME NamesAssumption ==
  /\ "local" \notin Uids \cup {TorUid} /\ "redirect" \notin Uids \cup {TorUid}
  /\ MaxRules \in Nat

VARIABLES
  mgr,     \* TorManager: running (tor_process.is_some()) and circuit_established
  bypass,  \* bypass_uids, and the copy in tproxy_rules
  nat,     \* chains that exist, their rules, and which OUTPUT jumps to
  tor,     \* the child the daemon started
  orphan,  \* a Tor of an earlier daemon still holds the ports
  lock,    \* the operation that holds the mutex and its commands to come
  mon,     \* the monitor's place in its round, with the answer it carries
  (* History, read by properties only: *)
  stray,   \* by chain, uids with a rule there that a failed edit left behind
  direct   \* the last change of rules was a disable without failed commands

vars == <<mgr, bypass, nat, tor, orphan, lock, mon, stray, direct>>

-----------------------------------------------------------------------------
(* iptables.rs: commands as [act, chain, rule] *)

Cmd(act, chain, rule) == [act |-> act, chain |-> chain, rule |-> rule]
AppendTo(c, rule) == Cmd("append", c, rule)
Bare(act, c) == Cmd(act, c, "redirect")

\* Faulty: chains are deleted while OUTPUT still jumps to them.
CleanupScriptUnhooksLast ==
  << Bare("flush", "dns"), Bare("delete", "dns"),
     Bare("flush", "trans"), Bare("delete", "trans"),
     Bare("unhook", "dns"), Bare("unhook", "trans") >>

\* remove_chains_if_exist
CleanupScript ==
  << Bare("unhook", "dns"), Bare("unhook", "trans"),
     Bare("flush", "dns"), Bare("delete", "dns"),
     Bare("flush", "trans"), Bare("delete", "trans") >>

\* Faulty: traffic is redirected before the exceptions are looked at.
ChainScriptRedirectsFirst(c, last) ==
  << Bare("new", c) >>
    \o [i \in 1..Len(last) |-> AppendTo(c, last[i])]
    \o << AppendTo(c, TorUid) >>
    \o [i \in 1..Len(bypass) |-> AppendTo(c, bypass[i])]

\* A new chain: Tor's own traffic and the bypass list return first.
ChainScript(c, last) ==
  << Bare("new", c), AppendTo(c, TorUid) >>
    \o [i \in 1..Len(bypass) |-> AppendTo(c, bypass[i])]
    \o [i \in 1..Len(last) |-> AppendTo(c, last[i])]

\* apply: OUTPUT jumps to the chains only once they are complete.
ApplyScript ==
  CleanupScript
    \o ChainScript("dns", <<"redirect">>)
    \o ChainScript("trans", <<"local", "redirect">>)
    \o << Bare("hook", "dns"), Bare("hook", "trans") >>

\* add_bypass_uid
AddScript(u) == << Cmd("insert", "dns", u), Cmd("insert", "trans", u) >>

\* remove_bypass_uid
DropScript(u) == << Cmd("drop", "dns", u), Cmd("drop", "trans", u) >>

\* What the kernel accepts.
Feasible(cmd) ==
  CASE cmd.act = "new" -> cmd.chain \notin nat.made
    [] cmd.act = "unhook" -> cmd.chain \in nat.hooks
    [] cmd.act = "delete" -> /\ cmd.chain \in nat.made \ nat.hooks
                             /\ nat.rules[cmd.chain] = << >>
    [] cmd.act = "insert" -> nat.rules[cmd.chain] # << >>
    [] cmd.act = "drop" -> Contains(nat.rules[cmd.chain], cmd.rule)
    [] OTHER -> cmd.chain \in nat.made

\* Faulty: a new bypass goes to the end of the chain.
InsertedAtEnd(rules, rule) == Append(rules, rule)

\* `-I chain 2`: behind the first rule, Tor's own.
Inserted(rules, rule) == InsertAt(rules, 2, rule)

\* nat after a command the kernel carried out.
Executed(cmd) ==
  LET c == cmd.chain IN
  CASE cmd.act = "new" -> [nat EXCEPT !.made = @ \cup {c}]
    [] cmd.act = "delete" -> [nat EXCEPT !.made = @ \ {c}]
    [] cmd.act = "hook" -> [nat EXCEPT !.hooks = @ \cup {c}]
    [] cmd.act = "unhook" -> [nat EXCEPT !.hooks = @ \ {c}]
    [] cmd.act = "flush" -> [nat EXCEPT !.rules[c] = << >>]
    [] cmd.act = "append" -> [nat EXCEPT !.rules[c] = Append(@, cmd.rule)]
    [] cmd.act = "insert" -> [nat EXCEPT !.rules[c] = Inserted(@, cmd.rule)]
    [] cmd.act = "drop" -> [nat EXCEPT !.rules[c] = RemoveFirst(@, cmd.rule)]

\* The commands whose failure is not returned.
Ignored(act) == act \in {"unhook", "flush", "delete", "drop"}

\* Traffic of uid u leaves chain c before it is redirected.
GoesDirect(u, c) ==
  LET r == nat.rules[c] IN
  \E i \in 1..Len(r) : r[i] = u /\ \A j \in 1..i : r[j] # "redirect"

Redirects(c) == c \in nat.hooks /\ Contains(nat.rules[c], "redirect")

-----------------------------------------------------------------------------
(* The mutex *)

Holder(op, uid, todo) == [op |-> op, uid |-> uid, todo |-> todo, ok |-> TRUE]
Free == Holder("free", TorUid, << >>)
LockFree == lock.op = "free"

\* The running holder's next command, if any is left.
Working == lock.todo # << >>

CommandSucceeds ==
  /\ Working
  /\ Feasible(Head(lock.todo))
  /\ nat' = Executed(Head(lock.todo))
  /\ lock' = [lock EXCEPT !.todo = Tail(@)]
  /\ UNCHANGED <<mgr, bypass, tor, orphan, mon, stray, direct>>

\* Faulty: after the rollback the rest of the rules is still put in.
GivesUpLater ==
  IF lock.op = "enable" THEN [lock EXCEPT !.op = "rollback", !.todo = Tail(@), !.ok = FALSE]
  ELSE Free

\* The failure is returned: an enable is rolled back, an addition ends here.
GivesUp ==
  IF lock.op = "enable" THEN [lock EXCEPT !.op = "rollback", !.todo = << >>, !.ok = FALSE]
  ELSE Free

\* The rules that an edit of the list leaves behind in chain c if its next command
\* fails: an addition has put one into the chains it is done with, a removal
\* has not taken out the one it came for.  Tor's own uid goes direct anyway.
LeftBehind(c) ==
  IF \/ lock.op = "add" /\ \A i \in 1..Len(lock.todo) : lock.todo[i].chain # c
     \/ lock.op = "remove" /\ Head(lock.todo).chain = c /\ Feasible(Head(lock.todo))
    THEN {lock.uid} \ {TorUid} ELSE {}

\* A command is refused by the kernel, or fails although it would not be.
CommandFails ==
  LET cmd == Head(lock.todo)
      refused == ~Feasible(cmd) IN
  /\ Working
  /\ lock' = IF Ignored(cmd.act)
               THEN [lock EXCEPT !.todo = Tail(@), !.ok = @ /\ refused]
               ELSE GivesUp
  /\ stray' = [c \in Chains |-> stray[c] \cup LeftBehind(c)]
  /\ UNCHANGED <<mgr, bypass, nat, tor, orphan, mon, direct>>

-----------------------------------------------------------------------------
(* enable *)

\* Not running: torrc is written and tor spawned.
Enable ==
  /\ LockFree
  /\ ~mgr.running
  /\ tor' = "booting"
  /\ lock' = Holder("boot", TorUid, << >>)
  /\ direct' = FALSE
  /\ UNCHANGED <<mgr, bypass, nat, orphan, mon, stray>>

\* "Bootstrapped 100%" is read; a Tor that finds its ports taken never says so.
Bootstraps ==
  /\ lock.op = "boot"
  /\ ~orphan
  /\ tor' = "up"
  /\ mgr' = [running |-> TRUE, circuit |-> TRUE]
  /\ lock' = Holder("enable", TorUid, ApplyScript)
  /\ UNCHANGED <<bypass, nat, orphan, mon, stray, direct>>

\* An error line, the end of the output or 120 s: the child is killed.
BootstrapFails ==
  /\ lock.op = "boot"
  /\ tor' = "none"
  /\ lock' = Free
  /\ UNCHANGED <<mgr, bypass, nat, orphan, mon, stray, direct>>

\* All rules are in place.
Enabled ==
  /\ lock.op = "enable" /\ ~Working
  /\ lock' = Free
  /\ stray' = [c \in Chains |-> {}]
  /\ UNCHANGED <<mgr, bypass, nat, tor, orphan, mon, direct>>

-----------------------------------------------------------------------------
(* disable, and the rollback of a failed enable *)

Disable ==
  /\ LockFree
  /\ lock' = Holder("disable", TorUid, CleanupScript)
  /\ direct' = FALSE
  /\ UNCHANGED <<mgr, bypass, nat, tor, orphan, mon, stray>>

\* The manager after stop().
Stopped == [running |-> FALSE, circuit |-> FALSE]

\* Faulty: a Tor that died is waited for like one that hangs.
StopProceedsWhenAnswered == tor = "up"

\* stop() awaits the control port before it waits for the child and kills it:
\* a Tor that is gone refuses the connection, one that hangs keeps it waiting.
StopProceeds == tor # "hung"

\* Rules are gone or given up; Tor is stopped, if it was running at all.
Stops ==
  /\ lock.op \in {"disable", "rollback"} /\ ~Working
  /\ mgr.running => StopProceeds
  /\ mgr' = IF mgr.running THEN Stopped ELSE mgr
  /\ tor' = IF mgr.running THEN "none" ELSE tor
  /\ direct' = (lock.op = "disable" /\ lock.ok)
  /\ lock' = Free
  /\ UNCHANGED <<bypass, nat, orphan, mon, stray>>

-----------------------------------------------------------------------------
(* add_bypass, remove_bypass *)

\* Without a running Tor only the list changes.
AddBypass(u) ==
  /\ LockFree
  /\ ~Contains(bypass, u)
  /\ \A c \in Chains : Len(nat.rules[c]) < MaxRules
  /\ IF mgr.running
       THEN lock' = Holder("add", u, AddScript(u)) /\ bypass' = bypass
       ELSE lock' = lock /\ bypass' = Append(bypass, u)
  /\ UNCHANGED <<mgr, nat, tor, orphan, mon, stray, direct>>

\* retain: no uid is listed twice.
Without(u) == RemoveFirst(bypass, u)

RemoveBypass(u) ==
  /\ LockFree
  /\ Contains(bypass, u)
  /\ IF mgr.running
       THEN lock' = Holder("remove", u, DropScript(u)) /\ bypass' = bypass
       ELSE lock' = lock /\ bypass' = Without(u)
  /\ UNCHANGED <<mgr, nat, tor, orphan, mon, stray, direct>>

\* The list follows once the commands are through.
BypassEdited ==
  /\ lock.op \in {"add", "remove"} /\ ~Working
  /\ bypass' = IF lock.op = "add" THEN Append(bypass, lock.uid) ELSE Without(lock.uid)
  /\ lock' = Free
  /\ UNCHANGED <<mgr, nat, tor, orphan, mon, stray, direct>>

-----------------------------------------------------------------------------
(* new_circuit, set_exit_country: an exchange with the control port *)

NewCircuit ==
  /\ LockFree
  /\ mgr.running
  /\ lock' = Holder("control", TorUid, << >>)
  /\ UNCHANGED <<mgr, bypass, nat, tor, orphan, mon, stray, direct>>

\* An answer, a refusal or no connection: the handler replies.
ControlEnds ==
  /\ lock.op = "control"
  /\ tor # "hung"
  /\ lock' = Free
  /\ UNCHANGED <<mgr, bypass, nat, tor, orphan, mon, stray, direct>>

-----------------------------------------------------------------------------
(* circuit_monitor *)

\* First lock: nothing to do unless Tor runs.
MonitorTicks ==
  /\ LockFree
  /\ mon = "wait"
  /\ mgr.running
  /\ mon' = "ask"
  /\ UNCHANGED <<mgr, bypass, nat, tor, orphan, lock, stray, direct>>

\* Second lock: get_exit_info, an error when Tor was stopped meanwhile.
MonitorAsks ==
  /\ LockFree
  /\ mon = "ask"
  /\ IF mgr.running
       THEN /\ lock' = [Holder("monitor", TorUid, << >>) EXCEPT !.ok = (tor # "none")]
            /\ mon' = mon
       ELSE lock' = lock /\ mon' = "bad"
  /\ UNCHANGED <<mgr, bypass, nat, tor, orphan, stray, direct>>

\* An error; or whatever comes over a connection that Tor took, a refusal and the
\* end of the stream when it died meanwhile included: both count as an answer.
MonitorHears ==
  /\ lock.op = "monitor"
  /\ tor # "hung"
  /\ \/ mon' = "bad"
     \/ lock.ok /\ mon' = "good"
  /\ lock' = Free
  /\ UNCHANGED <<mgr, bypass, nat, tor, orphan, stray, direct>>

\* Third lock: the answer is written, whatever happened meanwhile.
MonitorTells ==
  /\ LockFree
  /\ mon \in {"good", "bad"}
  /\ mgr' = [mgr EXCEPT !.circuit = (mon = "good")]
  /\ mon' = "wait"
  /\ UNCHANGED <<bypass, nat, tor, orphan, lock, stray, direct>>

-----------------------------------------------------------------------------
(* Tor, and the daemon's own end *)

\* Tor stops answering, answers again, or dies; the daemon does not notice.
TorChanges ==
  /\ \/ tor = "up" /\ tor' = "hung"
     \/ tor = "hung" /\ tor' = "up"
     \/ tor \in {"up", "hung"} /\ tor' = "none"
  /\ UNCHANGED <<mgr, bypass, nat, orphan, lock, mon, stray, direct>>

OrphanEnds ==
  /\ orphan
  /\ orphan' = FALSE
  /\ UNCHANGED <<mgr, bypass, nat, tor, lock, mon, stray, direct>>

\* The daemon dies and starts again: the kernel keeps the rules, and the
\* child may outlive its parent.
Restart ==
  /\ mgr' = Stopped
  /\ bypass' = << >>
  /\ lock' = Free
  /\ mon' = "wait"
  /\ orphan' \in {orphan, orphan \/ tor # "none"}
  /\ tor' = "none"
  /\ stray' = [c \in Chains |-> {}]
  /\ UNCHANGED <<nat, direct>>

-----------------------------------------------------------------------------
Init ==
  /\ mgr = Stopped
  /\ bypass = << >>
  /\ nat = [made |-> {}, rules |-> [c \in Chains |-> << >>], hooks |-> {}]
  /\ tor = "none"
  /\ orphan = FALSE
  /\ lock = Free
  /\ mon = "wait"
  /\ stray = [c \in Chains |-> {}]
  /\ direct = TRUE

Request ==
  \/ Enable
  \/ Disable
  \/ \E u \in Uids : AddBypass(u) \/ RemoveBypass(u)
  \/ NewCircuit

\* What the holder of the mutex does next.
HolderStep ==
  \/ CommandSucceeds
  \/ CommandFails
  \/ Bootstraps
  \/ BootstrapFails
  \/ Enabled
  \/ Stops
  \/ BypassEdited
  \/ ControlEnds
  \/ MonitorHears

MonitorStep == MonitorTicks \/ MonitorAsks \/ MonitorTells

Next == Request \/ HolderStep \/ MonitorStep \/ TorChanges \/ OrphanEnds \/ Restart

\* The holder goes on whenever it can, also with a Tor that only answers now
\* and then, and the monitor gets the lock in turn (tokio's mutex is fair).
\* Nothing is assumed of Tor, requests or restarts.
Fairness == SF_vars(HolderStep) /\ SF_vars(MonitorStep)

Spec == Init /\ [][Next]_vars

FairSpec == Spec /\ Fairness

-----------------------------------------------------------------------------
(* Properties *)

Ops == {"free", "boot", "enable", "rollback", "disable", "add", "remove", "control", "monitor"}
Acts == {"new", "append", "insert", "drop", "flush", "delete", "hook", "unhook"}

\* The variables have their types; commands are left only to the operations
\* that edit rules, and OUTPUT jumps only to chains that exist.
TypeOK ==
  /\ mgr \in [running : BOOLEAN, circuit : BOOLEAN]
  /\ bypass \in Seq(Uids)
  /\ nat \in [made : SUBSET Chains, rules : [Chains -> Seq(Rules)], hooks : SUBSET Chains]
  /\ nat.hooks \subseteq nat.made
  /\ \A c \in Chains \ nat.made : nat.rules[c] = << >>
  /\ tor \in {"none", "booting", "up", "hung"}
  /\ orphan \in BOOLEAN
  /\ lock \in [op : Ops, uid : Uids \cup {TorUid}, ok : BOOLEAN,
               todo : Seq([act : Acts, chain : Chains, rule : Rules])]
  /\ Working => lock.op \in {"enable", "disable", "add", "remove"}
  /\ mon \in {"wait", "ask", "good", "bad"}
  /\ stray \in [Chains -> SUBSET Uids]
  /\ direct \in BOOLEAN

\* While Tor is enabled both chains redirect, and a uid goes direct through one
\* exactly if it is on the bypass list (emergency calls), is Tor's own, or has a
\* rule in that very chain that a failed edit left behind: whatever additions,
\* removals, failures, rollbacks, deaths and restarts came before.  No later edit
\* takes such a rule away, not even an addition and a removal that both work
\* throughout; only the next enable does.
BypassIsExact ==
  LockFree /\ mgr.running =>
    \A c \in Chains :
      /\ Redirects(c)
      /\ \A u \in Uids :
           GoesDirect(u, c) <=> u \in ToSet(bypass) \cup {TorUid} \cup stray[c]

\* Tor's own traffic is never redirected into Tor, at no point of building,
\* editing or removing the chains, not even when its uid is added to the list
\* and removed again, and not after the daemon died half-way.
TorIsNeverLooped ==
  \A c \in Chains : Redirects(c) => GoesDirect(TorUid, c)

\* apply() is idempotent (iptables.rs:31): whatever chains, rules and jumps
\* earlier failures and deaths left, an enable whose commands all work meets
\* no command that the kernel refuses.
ApplyIsIdempotent ==
  lock.op = "enable" /\ lock.ok /\ Working =>
    Ignored(Head(lock.todo).act) \/ Feasible(Head(lock.todo))

\* A disable whose commands all work restores direct routing completely, also
\* after failed enables and restarts: no chain and no jump is left.
DisableRestoresRouting ==
  LockFree /\ direct => nat.hooks = {} /\ nat.made = {}

\* Unless Tor hangs for good, every holder lets go of the mutex, through any
\* failures, deaths of Tor and restarts: no request waits for ever.
RequestsEnd ==
  []<>(tor # "hung") => []<>LockFree

\* tor_manager.rs:145 describes stop() as "SIGTERM -> wait -> SIGKILL if
\* needed": a disable under way ends with Tor stopped, hung or not.
StopKillsIfNeeded ==
  lock.op = "disable" ~> LockFree

\* docs/tor/TOR-INTEGRATION.md:422 ends the shutdown sequence with "State
\* updated: active=false, circuit_established=false": status never shows a
\* circuit without an active Tor.
NoCircuitWithoutTor ==
  LockFree /\ mgr.circuit => mgr.running
=============================================================================
