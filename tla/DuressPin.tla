------------------------------ MODULE DuressPin ------------------------------
(***************************************************************************)
(* services/duress-pin-daemon-rs: a PIN is compared with the two           *)
(* configured ones; the duress PIN starts a task of its own that sends a   *)
(* beacon and then removes the keys, while the client already has its      *)
(* answer, the same for every PIN.  Nobody waits for the task, its errors  *)
(* are dropped, and several may run at once.  The tamper alerts of the     *)
(* baseband guard are no request this daemon knows: they are answered with *)
(* a parse error and change nothing.                                       *)
(***************************************************************************)
EXTENDS Naturals

CONSTANTS
  Pins, PanicPin,  \* the PINs tried, by their hashes, and the duress one
  Tasks,                      \* bound on the tasks at a time
  Size                        \* number of entries below keys_path

VARIABLES
  task,   \* each trigger_duress: none, beacon or wipe
  list,   \* what its remove_dir_all has still to remove
  keys,   \* entries that exist
  (* History, read by properties only: *)
  doomed  \* those that existed when a duress PIN was answered with no wipe under
          \* way and still do, unless a failure or a death has ended a wipe since

vars == <<task, list, keys, doomed>>

\* The directory is finite.
ConstantsOK == Size \in Nat

Entries == 1 .. Size
First(set) == CHOOSE e \in set : \A f \in set : e <= f

\* The duress PIN is compared first, and wins when both are the same; any other
\* changes nothing and gets the same answer.
VerifyPin(pin) ==
  /\ pin = PanicPin
  /\ \E t \in Tasks : task[t] = "none" /\ task' = [task EXCEPT ![t] = "beacon"]
  /\ doomed' = IF \E t \in Tasks : task[t] = "wipe" THEN doomed ELSE keys
  /\ UNCHANGED <<list, keys>>

\* Faulty: an error of the beacon is passed on with `?`, before the wipe.
AfterBeaconIfSent(sent) == IF sent THEN "wipe" ELSE "none"

\* Sent, or failed in any way, an unusable key included: the wipe comes next.
AfterBeacon(sent) == "wipe"

\* The wipe begins by reading the directory.
BeaconEnds(t) ==
  /\ task[t] = "beacon"
  /\ \E sent \in BOOLEAN : task' = [task EXCEPT ![t] = AfterBeacon(sent)]
  /\ list' = [list EXCEPT ![t] = IF task'[t] = "wipe" THEN keys ELSE {}]
  /\ UNCHANGED <<keys, doomed>>

\* remove_dir_all takes the entries in the order of the directory.
Removes(t) ==
  LET e == First(list[t]) IN
  /\ task[t] = "wipe" /\ list[t] # {} /\ e \in keys
  /\ keys' = keys \ {e}
  /\ doomed' = doomed \ {e}
  /\ list' = [list EXCEPT ![t] = @ \ {e}]
  /\ UNCHANGED task

\* An entry that another task removed: skipped, or an error, "not found", that
\* ends the wipe as done (which of them depends on the standard library).
Stumbles(t) == list[t] # {} /\ First(list[t]) \notin keys

Skips(t) ==
  /\ task[t] = "wipe" /\ Stumbles(t)
  /\ list' = [list EXCEPT ![t] = @ \ {First(@)}]
  /\ UNCHANGED <<task, keys, doomed>>

WipeEnds(t) ==
  /\ task[t] = "wipe"
  /\ list[t] = {} \/ Stumbles(t)
  /\ task' = [task EXCEPT ![t] = "none"]
  /\ list' = [list EXCEPT ![t] = {}]
  /\ UNCHANGED <<keys, doomed>>

\* Any other error ends this task's wipe for good, and is dropped.
WipeFails(t) ==
  /\ task[t] = "wipe"
  /\ task' = [task EXCEPT ![t] = "none"]
  /\ list' = [list EXCEPT ![t] = {}]
  /\ doomed' = {}
  /\ UNCHANGED keys

\* The tasks die with the daemon, and nothing tells the next one of them.
Crash ==
  /\ task' = [t \in Tasks |-> "none"]
  /\ list' = [t \in Tasks |-> {}]
  /\ doomed' = {}
  /\ UNCHANGED keys

\* The rest of the system stores new keys at any time.
KeysStored ==
  /\ \E e \in Entries \ keys : keys' = keys \cup {e}
  /\ UNCHANGED <<task, list, doomed>>

Init ==
  /\ task = [t \in Tasks |-> "none"]
  /\ list = [t \in Tasks |-> {}]
  /\ keys = Entries
  /\ doomed = {}

TaskStep(t) == BeaconEnds(t) \/ Removes(t) \/ Skips(t) \/ WipeEnds(t)

Next ==
  \/ \E pin \in Pins : VerifyPin(pin)
  \/ \E t \in Tasks : TaskStep(t) \/ WipeFails(t)
  \/ KeysStored
  \/ Crash

\* The tasks go on: neither the beacon nor a removal blocks for ever.
Fairness == \A t \in Tasks : WF_vars(TaskStep(t))

Spec == Init /\ [][Next]_vars

FairSpec == Spec /\ Fairness

-----------------------------------------------------------------------------
(* Properties *)

\* The variables have their types; only a wipe has something to remove.
TypeOK ==
  /\ task \in [Tasks -> {"none", "beacon", "wipe"}]
  /\ list \in [Tasks -> SUBSET Entries]
  /\ \A t \in Tasks : list[t] # {} => task[t] = "wipe"
  /\ doomed \subseteq keys /\ keys \subseteq Entries

\* What is doomed is never given up before it is removed: some task is still about
\* to read the directory, or has all of it on its list and meets none of it removed
\* ahead.  However wipes race, the one that is ahead of the others does not stumble
\* (duress.rs:103-115).
DoomIsPursued ==
  doomed # {} => \E t \in Tasks :
    \/ task[t] = "beacon"
    \/ task[t] = "wipe" /\ doomed \subseteq list[t] /\ ~Stumbles(t)

\* The keys that existed when a duress PIN was answered are removed, however
\* many wipes race, whichever of them give up over entries that another one
\* removed, and whatever is stored meanwhile, unless the daemon dies or the disk
\* fails: the answer comes first and nothing is tried again (main.rs:73-89,
\* duress.rs:88-115).  A PIN answered while a wipe is under way promises less:
\* what is stored behind the wipe's back may survive, as the next wipe may stumble
\* over the first one's work and end early.
DuressWipes == \A e \in Entries : e \in doomed ~> e \notin doomed
=============================================================================
