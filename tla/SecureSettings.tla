--------------------------- MODULE SecureSettings ---------------------------
(***************************************************************************)
(* services/secure-settings-core-rs: the settings map and the locked keys  *)
(* behind one mutex, the flush of both to settings.json through a          *)
(* temporary file and a rename (store.rs), and the start that locks the    *)
(* boot keys (main.rs).                                                    *)
(*                                                                         *)
(* Every change is made in memory first and flushed before the reply; I/O  *)
(* is synchronous under the mutex, so requests do not interleave, but each *)
(* step of a flush may fail (the caller gets an error, memory keeps the    *)
(* change) and the process may die between any two of them.  Requests that *)
(* are refused (namespace, locked key) or only read change nothing and are *)
(* left out.                                                               *)
(***************************************************************************)
CONSTANTS
  Keys,         \* keys in a valid namespace
  BootKeys,     \* those that every start locks
  Values,       \* values of settings
  Default,      \* "strict", given to a boot key that has none
  Provisioned,  \* contents of settings.json before the first start
  Absent,       \* no such setting or file
  Torn          \* a file that was truncated and not filled

VARIABLES
  stage,    \* the process: down, booting or serving
  mem,      \* SecureStore.data
  db,       \* settings.json
  tmp,      \* settings.tmp
  bootTodo, \* boot keys that main() has still to lock
  op,       \* the call under way and how far its flush is
  (* History, read by properties only: *)
  kept,     \* what the last call on a key persisted; Torn: it did not succeed
  fixed,    \* the value a key had when its lock was persisted; Torn: never
  hollow    \* keys whose delete was acknowledged while the store kept them

vars == <<stage, mem, db, tmp, bootTodo, op, kept, fixed, hollow>>

Settings == [Keys -> Values \cup {Absent}]
Data == [settings : Settings, locked : SUBSET Keys]

\* Absent and Torn are neither values nor contents of the store, and a store
\* is not provisioned with a boot key that is locked without a value.
ConstantsOK ==
  /\ BootKeys \subseteq Keys
  /\ Default \in Values
  /\ Absent \notin Values /\ Torn \notin Values /\ Torn # Absent
  /\ Absent \notin Data /\ Torn \notin Data
  /\ Provisioned \subseteq Data \cup {Absent}
  /\ \A p \in Provisioned \ {Absent}, k \in BootKeys :
       k \in p.locked => p.settings[k] # Absent

Empty == [settings |-> [k \in Keys |-> Absent], locked |-> {}]

Quiet == [kind |-> "none", key |-> Absent, flush |-> "none"]
Idle == op = Quiet

\* What a start would read.
Stored == IF db \in {Absent, Torn} THEN Empty ELSE db

-----------------------------------------------------------------------------
(* store.rs: the calls up to their flush *)

\* Faulty: the store itself is truncated and written.
TruncatesStore == db' = Torn /\ tmp' = tmp

\* flush() creates the temporary file.
Truncates == tmp' = Torn /\ db' = db

\* A call on key k leaves data in memory and begins to flush.
Calls(kind, k, data) ==
  /\ mem' = data
  /\ op' = [kind |-> kind, key |-> k, flush |-> "write"]
  /\ Truncates
  /\ IF kind = "lock"
       THEN UNCHANGED <<kept, hollow>>
       ELSE kept' = [kept EXCEPT ![k] = Torn] /\ hollow' = hollow \ {k}
  /\ UNCHANGED <<stage, fixed>>

\* A delete of a key that memory does not have is answered as done at once, also
\* when the flush of an earlier delete failed and the store still has it.
NothingToDelete(k) ==
  /\ kept' = [kept EXCEPT ![k] = Absent]
  /\ hollow' = IF Stored.settings[k] # Absent THEN hollow \cup {k} ELSE hollow
  /\ UNCHANGED <<stage, mem, db, tmp, op, fixed>>

WithSetting(k, v) == [mem EXCEPT !.settings[k] = v]
WithLock(k) == [mem EXCEPT !.locked = @ \cup {k}]

-----------------------------------------------------------------------------
(* main.rs: start *)

\* load: a file that is not JSON ends the start.
Start ==
  /\ stage = "down"
  /\ db # Torn
  /\ mem' = Stored
  /\ stage' = "booting"
  /\ bootTodo' = BootKeys
  /\ UNCHANGED <<db, tmp, op, kept, fixed, hollow>>

\* A boot key that has no value gets its default; locked ones refuse.
BootSets(k) ==
  /\ stage = "booting" /\ Idle
  /\ k \in bootTodo
  /\ mem.settings[k] = Absent /\ k \notin mem.locked
  /\ Calls("set", k, WithSetting(k, Default))
  /\ UNCHANGED bootTodo

\* Then it is locked, whatever became of the flush.
BootLocks(k) ==
  /\ stage = "booting" /\ Idle
  /\ k \in bootTodo
  /\ mem.settings[k] # Absent \/ k \in mem.locked
  /\ Calls("lock", k, WithLock(k))
  /\ bootTodo' = bootTodo \ {k}

\* The socket is bound.
Listens ==
  /\ stage = "booting" /\ Idle
  /\ bootTodo = {}
  /\ stage' = "serving"
  /\ UNCHANGED <<mem, db, tmp, bootTodo, op, kept, fixed, hollow>>

-----------------------------------------------------------------------------
(* main.rs: requests *)

Serving == stage = "serving" /\ Idle

Set(k, v) ==
  /\ Serving
  /\ k \notin mem.locked
  /\ Calls("set", k, WithSetting(k, v))
  /\ UNCHANGED bootTodo

\* Faulty: a locked key cannot be written but can be deleted.
MayDeleteLocked(k) == k \in Keys

MayDelete(k) == k \notin mem.locked

Delete(k) ==
  /\ Serving
  /\ MayDelete(k)
  /\ IF mem.settings[k] # Absent
       THEN Calls("delete", k, WithSetting(k, Absent))
       ELSE NothingToDelete(k)
  /\ UNCHANGED bootTodo

LockKey(k) ==
  /\ Serving
  /\ Calls("lock", k, WithLock(k))
  /\ UNCHANGED bootTodo

-----------------------------------------------------------------------------
(* store.rs: flush, and the reply *)

TmpWritten ==
  /\ op.flush = "write"
  /\ tmp' = mem
  /\ op' = [op EXCEPT !.flush = "rename"]
  /\ UNCHANGED <<stage, mem, db, bootTodo, kept, fixed, hollow>>

\* The rename replaces the store in one step; the call succeeds, and with it every
\* earlier delete whose key memory is still without.
Renamed ==
  LET k == op.key IN
  /\ op.flush = "rename"
  /\ db' = tmp
  /\ tmp' = Absent
  /\ op' = Quiet
  /\ kept' = [kept EXCEPT ![k] = mem.settings[k]]
  /\ fixed' = IF op.kind = "lock" THEN [fixed EXCEPT ![k] = mem.settings[k]] ELSE fixed
  /\ hollow' = {j \in hollow \ {k} : mem.settings[j] # Absent}
  /\ UNCHANGED <<stage, mem, bootTodo>>

\* Faulty: the change is answered as done although it is not stored.
KeptAfterFailureAnyway == [kept EXCEPT ![op.key] = mem.settings[op.key]]

\* An error is answered: no promise about the key.
KeptAfterFailure == kept

\* A start goes on with what it has to lock.
BootAfterFailure == bootTodo

\* A step of the flush fails; what is in memory stays there.
FlushFails ==
  /\ op.flush # "none"
  /\ op' = Quiet
  /\ kept' = KeptAfterFailure
  /\ bootTodo' = BootAfterFailure
  /\ UNCHANGED <<stage, mem, db, tmp, fixed, hollow>>

-----------------------------------------------------------------------------
Crash ==
  /\ stage # "down"
  /\ stage' = "down"
  /\ mem' = Empty
  /\ bootTodo' = {}
  /\ op' = Quiet
  /\ UNCHANGED <<db, tmp, kept, fixed, hollow>>

Init ==
  /\ stage = "down"
  /\ mem = Empty
  /\ db \in Provisioned
  /\ tmp = Absent
  /\ bootTodo = {}
  /\ op = Quiet
  /\ kept = Stored.settings
  /\ fixed = [k \in Keys |-> IF k \in Stored.locked THEN Stored.settings[k] ELSE Torn]
  /\ hollow = {}

BootStep == \E k \in Keys : BootSets(k) \/ BootLocks(k)
FlushStep == TmpWritten \/ Renamed \/ FlushFails

Next ==
  \/ Start
  \/ BootStep
  \/ Listens
  \/ \E k \in Keys : (\E v \in Values : Set(k, v)) \/ Delete(k) \/ LockKey(k)
  \/ FlushStep
  \/ Crash

\* init starts the service again, and the daemon's own steps go on.  Disks
\* may fail at every write and processes die, only not for ever.
Progress == WF_vars(BootStep \/ FlushStep \/ Listens)
Fairness == WF_vars(Start) /\ Progress

Spec == Init /\ [][Next]_vars

FairSpec == Spec /\ Fairness

-----------------------------------------------------------------------------
(* Properties *)

\* The variables have their types; a flush belongs to a live process, and
\* only files under way are unreadable.
TypeOK ==
  /\ stage \in {"down", "booting", "serving"}
  /\ mem \in Data
  /\ db \in Data \cup {Absent, Torn}
  /\ tmp \in Data \cup {Absent, Torn}
  /\ bootTodo \in SUBSET BootKeys
  /\ op \in [kind : {"set", "delete", "lock"}, key : Keys, flush : {"write", "rename"}]
              \cup {Quiet}
  /\ op # Quiet => stage # "down"
  /\ kept \in [Keys -> Values \cup {Absent, Torn}]
  /\ fixed \in [Keys -> Values \cup {Absent, Torn}]
  /\ hollow \in SUBSET Keys

\* A write or delete that was acknowledged after a flush is what every later
\* reader and every later start sees, through failed flushes of other keys (which
\* leave memory ahead of the store) and deaths between the temporary file and the
\* rename.  A delete that was acknowledged without one holds too, with a single
\* exception that is exactly this: repeated after its own flush failed, it is
\* acknowledged (store.rs:86-90) although the store has the key, which is back at
\* the next start unless some flush comes first.
AcknowledgedIsKept ==
  \A k \in Keys : kept[k] # Torn =>
    IF k \in hollow
      THEN kept[k] = Absent /\ Stored.settings[k] # Absent
      ELSE /\ Stored.settings[k] = kept[k]
           /\ stage # "down" => mem.settings[k] = kept[k]

\* A key whose lock was acknowledged has, in memory and in the store, the value
\* it had then: no request, failed flush, death or restart changes or frees it.
LockedStayFixed ==
  \A k \in Keys : fixed[k] # Torn =>
    /\ k \in Stored.locked /\ Stored.settings[k] = fixed[k]
    /\ stage # "down" => k \in mem.locked /\ mem.settings[k] = fixed[k]

\* No client ever meets a boot key that is unlocked or has no value, even when
\* every flush of the start failed (main.rs:63-65 ignores the errors).
BootKeysAreGuarded ==
  stage = "serving" =>
    \A k \in BootKeys : k \in mem.locked /\ mem.settings[k] # Absent

\* Locks hold: acknowledged ones for ever, those of the boot keys whenever
\* somebody can ask (main.rs:59-66, store.rs:70-99).
LocksHold == LockedStayFixed /\ BootKeysAreGuarded

\* No death at any point of a flush leaves a store that cannot be loaded: the
\* daemon comes back to serving unless it keeps dying.
ComesBack ==
  <>[][~Crash]_vars => <>[](stage = "serving")
=============================================================================
