---------------------------- MODULE NetworkPolicy ----------------------------
(***************************************************************************)
(* services/network-policy-daemon-rs: the rules in memory, the task that   *)
(* reads the rules file anew every minute, and the decision on a           *)
(* destination.  The file is read before the write lock is taken; requests *)
(* share the read lock and come in between.  A name is the sequence of its *)
(* characters, or of runs of them that patterns do not tell apart.         *)
(***************************************************************************)
EXTENDS Naturals, Sequences, SequencesExt

CONSTANTS
  Uids, Destinations,
  Files,        \* contents of the rules file: lists of rules
  Unreadable    \* missing, or no JSON

VARIABLES
  up,
  rules,   \* PolicyEngine.rules
  file,    \* npd_rules.json
  loaded   \* an engine that was read and waits for the write lock

vars == <<up, rules, file, loaded>>

\* Contents are lists.
ConstantsOK == \A f \in Files : Len(f) \in Nat /\ DOMAIN f = 1 .. Len(f)

-----------------------------------------------------------------------------
(* policy.rs *)

\* Faulty: an entry that is there is kept.
WinsFirst(list, k) == \A j \in 1 .. k - 1 : list[j].uid # list[k].uid

\* The last rule for a uid replaces the ones before it.
Wins(list, k) == \A j \in k + 1 .. Len(list) : list[j].uid # list[k].uid

LoadFromFile(list) ==
  [u \in {list[k].uid : k \in DOMAIN list} |->
     list[CHOOSE k \in DOMAIN list : list[k].uid = u /\ Wins(list, k)]]

\* Exact, or with a leading wildcard by the characters at the end of the name: the
\* dot behind the star is not asked for.
Matches(patterns, dest) ==
  \E p \in patterns : IF p.wildcard THEN IsSuffix(p.name, dest) ELSE p.name = dest

Evaluate(engine, uid, dest) ==
  IF uid \notin DOMAIN engine THEN "default_deny"
  ELSE LET rule == engine[uid] IN
       IF rule.deny_all \/ Matches(rule.deny, dest) THEN "deny"
       ELSE IF Matches(rule.allow, dest) THEN "allow" ELSE "default_deny"

-----------------------------------------------------------------------------
(* main.rs.  Requests (socket.rs) only evaluate and change nothing. *)

\* Without a readable file the daemon starts with no rules: all is denied.
Start ==
  /\ ~up
  /\ up' = TRUE
  /\ rules' = IF file = Unreadable THEN <<>> ELSE LoadFromFile(file)
  /\ UNCHANGED <<file, loaded>>

\* An error keeps the rules, and the task goes on with the next tick.
ReloadReads ==
  /\ up /\ loaded = <<>>
  /\ file # Unreadable
  /\ loaded' = <<LoadFromFile(file)>>
  /\ UNCHANGED <<up, rules, file>>

ReloadInstalls ==
  /\ loaded # <<>>
  /\ rules' = Head(loaded)
  /\ loaded' = <<>>
  /\ UNCHANGED <<up, file>>

\* Somebody edits the file, in place or not.
Edit ==
  /\ file' \in (Files \cup {Unreadable}) \ {file}
  /\ UNCHANGED <<up, rules, loaded>>

Crash ==
  /\ up
  /\ up' = FALSE
  /\ rules' = <<>>
  /\ loaded' = <<>>
  /\ UNCHANGED file

Init == up = FALSE /\ rules = <<>> /\ file = Unreadable /\ loaded = <<>>

Next == Start \/ ReloadReads \/ ReloadInstalls \/ Edit \/ Crash

\* init restarts the daemon and the timer goes on firing; the write lock is
\* granted among readers, as tokio's lock is fair.
Progress == WF_vars(ReloadReads) /\ WF_vars(ReloadInstalls)
Fairness == WF_vars(Start) /\ Progress

Spec == Init /\ [][Next]_vars

FairSpec == Spec /\ Fairness

-----------------------------------------------------------------------------
(* Properties *)

Engines == {LoadFromFile(f) : f \in Files} \cup {<<>>}

\* The variables have their types.
TypeOK ==
  /\ up \in BOOLEAN
  /\ rules \in Engines
  /\ file \in Files \cup {Unreadable}
  /\ loaded \in {<<>>} \cup {<<e>> : e \in Engines}

\* What the text of a file says: only the last rule for a uid counts, it allows
\* what some allowed pattern covers and no denied one, and nothing else is allowed.
Permits(list, uid, dest) ==
  \E k \in DOMAIN list :
    /\ list[k].uid = uid /\ (\A j \in DOMAIN list : j > k => list[j].uid # uid)
    /\ ~list[k].deny_all
    /\ \E p \in list[k].allow : Matches({p}, dest)
    /\ ~\E p \in list[k].deny : Matches({p}, dest)

\* Whatever edits, failed reloads and deaths come between the two steps of a reload,
\* the decisions on all uids and destinations are those of a single text the file
\* may have, or of none: no rule of one text is in force beside those of another,
\* and none that its own text replaces (main.rs:40-59, policy.rs).
DecidesAsOneText ==
  \E f \in Files \cup {<<>>} : \A u \in Uids, d \in Destinations :
    (Evaluate(rules, u, d) = "allow") <=> Permits(f, u, d)

\* An edit takes effect: once the file stays as it is, readable, every uid and
\* destination is eventually, and for good, decided as its text says, whatever
\* was read before it, failed to load, or died in between (main.rs:40-59).
EditTakesEffect ==
  <>[][~Crash]_vars =>
    \A f \in Files : <>[](file = f) =>
      <>[](\A u \in Uids, d \in Destinations :
             (Evaluate(rules, u, d) = "allow") <=> Permits(f, u, d))
=============================================================================
