------------------------ MODULE SecureSettings_proofs ------------------------
(***************************************************************************)
(* Theorems about SecureSettings for all keys, values and provisioned      *)
(* stores that satisfy ConstantsOK.                                        *)
(***************************************************************************)
EXTENDS SecureSettings, TLAPS

\* The store itself is never under way, the temporary file is complete before
\* the rename, and a key that is being written or removed has no promise.
FlushOrder ==
  /\ db # Torn
  /\ op.flush = "rename" => tmp = mem
  /\ op.kind \in {"set", "delete"} => kept[op.key] = Torn
  /\ op.kind = "lock" => op.key \in mem.locked

\* A boot key is never locked without a value, and the start has guarded those
\* that it has dealt with.
BootOrder ==
  /\ \A k \in BootKeys : k \in Stored.locked => Stored.settings[k] # Absent
  /\ stage # "down" => \A k \in BootKeys : k \in mem.locked => mem.settings[k] # Absent
  /\ stage # "down" => \A k \in BootKeys \ bootTodo : k \in mem.locked
  /\ stage = "serving" => bootTodo = {}

\* The store has the keys whose delete is hollow.
HollowIsStored ==
  \A k \in hollow : kept[k] = Absent /\ Stored.settings[k] # Absent

Inv ==
  /\ TypeOK /\ FlushOrder /\ BootOrder /\ HollowIsStored
  /\ AcknowledgedIsKept /\ LockedStayFixed

-----------------------------------------------------------------------------

\* What a start reads is data.
LEMMA StoredData ==
  ASSUME ConstantsOK, db \in Data \cup {Absent}
  PROVE  /\ Stored \in Data
         /\ db \in Data => Stored = db
         /\ db = Absent => Stored = Empty
<1>1. Empty \in Data
  BY DEF Empty, Data, Settings
<1> QED BY <1>1 DEF ConstantsOK, Stored

LEMMA InitInv == ConstantsOK /\ Init => Inv
<1> SUFFICES ASSUME ConstantsOK, Init PROVE Inv
  OBVIOUS
<1>1. db \in Data \cup {Absent} /\ db # Torn
  BY DEF ConstantsOK, Init
<1>2. Stored \in Data /\ (db \in Data => Stored = db) /\ (db = Absent => Stored = Empty)
  BY <1>1, StoredData
<1>3. Empty \in Data
  BY DEF Empty, Data, Settings
<1>4. /\ Stored.settings \in [Keys -> Values \cup {Absent}]
      /\ kept = Stored.settings
      /\ fixed = [k \in Keys |-> IF k \in Stored.locked THEN Stored.settings[k] ELSE Torn]
  BY <1>2 DEF Data, Settings, Init
<1>5. /\ kept \in [Keys -> Values \cup {Absent, Torn}]
      /\ fixed \in [Keys -> Values \cup {Absent, Torn}]
  BY <1>4
<1>6. TypeOK
  BY <1>1, <1>3, <1>5 DEF Init, TypeOK, Quiet
<1>7. FlushOrder
  BY <1>1 DEF Init, FlushOrder, Quiet
<1>8. BootOrder
  <2>1. db = Absent => \A k \in BootKeys : k \notin Stored.locked
    <3>1. Empty.locked = {}
      BY DEF Empty
    <3> QED BY <1>2, <3>1
  <2>2. db # Absent => db \in Provisioned \ {Absent} /\ Stored = db
    BY <1>1, <1>2 DEF Init
  <2> QED BY <2>1, <2>2 DEF ConstantsOK, Init, BootOrder
<1>9. AcknowledgedIsKept
  BY <1>4 DEF AcknowledgedIsKept, Init
<1>11. HollowIsStored
  BY DEF HollowIsStored, Init
<1>10. LockedStayFixed
  BY <1>4 DEF LockedStayFixed, Init
<1> QED BY <1>6, <1>7, <1>8, <1>9, <1>10, <1>11 DEF Inv

-----------------------------------------------------------------------------
(* Calls up to their flush *)

\* A call that sets, removes or locks one key keeps the invariant when it
\* changes a key only while it is not locked, and boot keys keep their values.
LEMMA CallInv ==
  ASSUME ConstantsOK, Inv, NEW kind \in {"set", "delete", "lock"}, NEW k \in Keys,
         NEW data \in Data,
         stage # "down", op = Quiet, Calls(kind, k, data),
         \A j \in Keys \ {k} : /\ data.settings[j] = mem.settings[j]
                               /\ j \in data.locked <=> j \in mem.locked,
         k \in mem.locked => k \in data.locked,
         kind = "lock" => k \in data.locked /\ data.settings[k] = mem.settings[k],
         kind # "lock" => k \notin mem.locked,
         k \in BootKeys /\ k \in data.locked => data.settings[k] # Absent,
         bootTodo' \subseteq bootTodo,
         \A j \in bootTodo \ bootTodo' : j \in data.locked,
         stage = "serving" => bootTodo' = {}
  PROVE  Inv'
<1> USE DEF Inv
<1>1. /\ mem' = data /\ db' = db /\ tmp' = Torn /\ UNCHANGED <<stage, fixed>>
      /\ op' = [kind |-> kind, key |-> k, flush |-> "write"]
      /\ kept' = IF kind = "lock" THEN kept ELSE [kept EXCEPT ![k] = Torn]
      /\ hollow' = IF kind = "lock" THEN hollow ELSE hollow \ {k}
      /\ Stored' = Stored
  BY DEF Calls, Truncates, Stored
<1>2. /\ kept' \in [Keys -> Values \cup {Absent, Torn}]
      /\ \A j \in Keys : kept'[j] # Torn => kept'[j] = kept[j] /\ (j = k => kind = "lock")
      /\ kind # "lock" => kept'[k] = Torn
      /\ hollow' \in SUBSET Keys /\ \A j \in Keys : kept'[j] # Torn => (j \in hollow' <=> j \in hollow)
  BY <1>1 DEF TypeOK
<1>3. TypeOK'
  <2>1. op' \in [kind : {"set", "delete", "lock"}, key : Keys, flush : {"write", "rename"}]
    BY <1>1
  <2>2. bootTodo' \in SUBSET BootKeys
    BY DEF TypeOK
  <2> QED BY <1>1, <1>2, <2>1, <2>2 DEF TypeOK
<1>4. FlushOrder'
  BY <1>1, <1>2 DEF FlushOrder
<1>5. BootOrder'
  <2>1. \A j \in BootKeys : j \in data.locked => data.settings[j] # Absent
    BY DEF BootOrder, ConstantsOK
  <2>2. \A j \in BootKeys \ bootTodo' : j \in data.locked
    BY DEF BootOrder, ConstantsOK
  <2> QED BY <1>1, <2>1, <2>2 DEF BootOrder
<1>6. AcknowledgedIsKept' /\ HollowIsStored'
  BY <1>1, <1>2 DEF AcknowledgedIsKept, HollowIsStored, TypeOK
<1>7. LockedStayFixed'
  BY <1>1 DEF LockedStayFixed
<1> QED BY <1>3, <1>4, <1>5, <1>6, <1>7

\* The two ways in which calls change the data.
LEMMA Changes ==
  ASSUME mem \in Data, NEW k \in Keys
  PROVE  /\ \A v \in Values \cup {Absent} :
              /\ WithSetting(k, v) \in Data
              /\ WithSetting(k, v).locked = mem.locked
              /\ WithSetting(k, v).settings[k] = v
              /\ \A j \in Keys \ {k} : WithSetting(k, v).settings[j] = mem.settings[j]
         /\ WithLock(k) \in Data
         /\ WithLock(k).locked = mem.locked \cup {k}
         /\ WithLock(k).settings = mem.settings
<1>1. mem = [settings |-> mem.settings, locked |-> mem.locked]
      /\ mem.settings \in [Keys -> Values \cup {Absent}] /\ mem.locked \in SUBSET Keys
  BY DEF Data, Settings
<1>2. ASSUME NEW v \in Values \cup {Absent}
      PROVE  WithSetting(k, v) =
               [settings |-> [mem.settings EXCEPT ![k] = v], locked |-> mem.locked]
  BY <1>1 DEF WithSetting
<1>3. WithLock(k) = [settings |-> mem.settings, locked |-> mem.locked \cup {k}]
  BY <1>1 DEF WithLock
<1>4. ASSUME NEW v \in Values \cup {Absent}
      PROVE  /\ WithSetting(k, v) \in Data
             /\ WithSetting(k, v).locked = mem.locked
             /\ WithSetting(k, v).settings[k] = v
             /\ \A j \in Keys \ {k} : WithSetting(k, v).settings[j] = mem.settings[j]
  <2>1. [mem.settings EXCEPT ![k] = v] \in [Keys -> Values \cup {Absent}]
    BY <1>1
  <2> QED BY <1>1, <1>2, <2>1 DEF Data, Settings
<1>5. /\ WithLock(k) \in Data
      /\ WithLock(k).locked = mem.locked \cup {k}
      /\ WithLock(k).settings = mem.settings
  BY <1>1, <1>3 DEF Data, Settings
<1> QED BY <1>4, <1>5

\* The start's and the clients' calls keep the invariant.
LEMMA BootSetsInv ==
  ASSUME ConstantsOK, Inv, NEW k \in Keys, BootSets(k)
  PROVE  Inv'
<1>1. stage = "booting" /\ op = Quiet /\ k \notin mem.locked /\ mem \in Data
  BY DEF BootSets, Idle, Inv, TypeOK
<1>2. Calls("set", k, WithSetting(k, Default)) /\ bootTodo' = bootTodo
  BY DEF BootSets
<1>3. Default \in Values
  BY DEF ConstantsOK
<1> QED BY <1>1, <1>2, <1>3, Changes, CallInv

LEMMA BootLocksInv ==
  ASSUME ConstantsOK, Inv, NEW k \in Keys, BootLocks(k)
  PROVE  Inv'
<1>1. stage = "booting" /\ op = Quiet /\ mem \in Data /\ k \in BootKeys
  BY DEF BootLocks, Idle, Inv, TypeOK
<1>2. Calls("lock", k, WithLock(k)) /\ bootTodo' = bootTodo \ {k}
  BY DEF BootLocks
<1>3. mem.settings[k] # Absent
  BY <1>1 DEF BootLocks, Inv, BootOrder
<1> QED BY <1>1, <1>2, <1>3, Changes, CallInv

\* A delete with nothing to remove only makes a promise, kept or hollow.
LEMMA NothingInv ==
  ASSUME ConstantsOK, Inv, NEW k \in Keys, stage # "down", op = Quiet, mem.settings[k] = Absent,
         NothingToDelete(k), bootTodo' = bootTodo
  PROVE  Inv'
<1> USE DEF Inv
<1>1. /\ UNCHANGED <<stage, mem, db, tmp, op, fixed>> /\ Stored' = Stored
      /\ kept' = [kept EXCEPT ![k] = Absent]
      /\ hollow' = IF Stored.settings[k] # Absent THEN hollow \cup {k} ELSE hollow
  BY DEF NothingToDelete, Stored
<1>2. /\ kept' \in [Keys -> Values \cup {Absent, Torn}] /\ kept'[k] = Absent
      /\ \A j \in Keys \ {k} : kept'[j] = kept[j] /\ (j \in hollow' <=> j \in hollow)
      /\ hollow' \in SUBSET Keys
  BY <1>1 DEF TypeOK
<1>3. TypeOK'
  BY <1>1, <1>2 DEF TypeOK
<1>4. FlushOrder' /\ BootOrder' /\ LockedStayFixed'
  BY <1>1 DEF FlushOrder, BootOrder, LockedStayFixed, Quiet
<1>5. k \in hollow => Stored.settings[k] # Absent
  BY DEF HollowIsStored
<1>6. AcknowledgedIsKept' /\ HollowIsStored'
  BY <1>1, <1>2, <1>5 DEF AcknowledgedIsKept, HollowIsStored
<1> QED BY <1>3, <1>4, <1>6

LEMMA RequestInv ==
  ASSUME ConstantsOK, Inv, NEW k \in Keys,
         (\E v \in Values : Set(k, v)) \/ Delete(k) \/ LockKey(k)
  PROVE  Inv'
<1>1. stage = "serving" /\ op = Quiet /\ mem \in Data /\ bootTodo' = bootTodo /\ bootTodo = {}
  BY DEF Set, Delete, LockKey, Serving, Idle, Inv, TypeOK, BootOrder
<1>2. CASE \E v \in Values : Set(k, v)
  <2>1. PICK v \in Values : Set(k, v)
    BY <1>2
  <2>2. k \notin mem.locked /\ Calls("set", k, WithSetting(k, v))
    BY <2>1 DEF Set
  <2> QED BY <1>1, <2>2, Changes, CallInv
<1>3. CASE Delete(k)
  <2>1. k \notin mem.locked
    BY <1>3 DEF Delete, MayDelete
  <2>2. CASE mem.settings[k] # Absent
    <3>1. Calls("delete", k, WithSetting(k, Absent))
      BY <1>3, <2>2 DEF Delete
    <3> QED BY <1>1, <2>1, <3>1, Changes, CallInv
  <2>3. CASE mem.settings[k] = Absent
    <3>1. NothingToDelete(k) /\ bootTodo' = bootTodo
      BY <1>3, <2>3 DEF Delete
    <3> QED BY <1>1, <2>3, <3>1, NothingInv
  <2> QED BY <2>2, <2>3
<1>4. CASE LockKey(k)
  <2>1. Calls("lock", k, WithLock(k))
    BY <1>4 DEF LockKey
  <2>2. k \in BootKeys => mem.settings[k] # Absent
    BY <1>1 DEF Inv, BootOrder
  <2> QED BY <1>1, <2>1, <2>2, Changes, CallInv
<1> QED BY <1>2, <1>3, <1>4

-----------------------------------------------------------------------------
(* Flushes, starts and deaths *)

LEMMA RenamedInv ==
  ASSUME ConstantsOK, Inv, Renamed
  PROVE  Inv'
<1> USE DEF Inv
<1> DEFINE k == op.key
<1>1. /\ op.flush = "rename" /\ db' = mem /\ tmp' = Absent /\ op' = Quiet
      /\ kept' = [kept EXCEPT ![k] = mem.settings[k]]
      /\ fixed' = IF op.kind = "lock" THEN [fixed EXCEPT ![k] = mem.settings[k]] ELSE fixed
      /\ hollow' = {j \in hollow \ {k} : mem.settings[j] # Absent}
      /\ UNCHANGED <<stage, mem, bootTodo>>
  BY DEF Renamed, FlushOrder
<1>2. /\ op # Quiet /\ stage # "down" /\ k \in Keys /\ mem \in Data
      /\ mem.settings \in [Keys -> Values \cup {Absent}]
  BY <1>1 DEF TypeOK, Quiet, Data, Settings
<1>3. Stored' = mem /\ mem # Torn /\ mem # Absent
  BY <1>1, <1>2 DEF Stored, ConstantsOK
<1>4. /\ kept' \in [Keys -> Values \cup {Absent, Torn}]
      /\ kept'[k] = mem.settings[k]
      /\ \A j \in Keys \ {k} : kept'[j] = kept[j]
  BY <1>1, <1>2 DEF TypeOK
<1>5. /\ fixed' \in [Keys -> Values \cup {Absent, Torn}]
      /\ \A j \in Keys : \/ fixed'[j] = fixed[j]
                         \/ j = k /\ op.kind = "lock" /\ fixed'[j] = mem.settings[j]
  BY <1>1, <1>2 DEF TypeOK
<1>6. TypeOK'
  BY <1>1, <1>2, <1>4, <1>5 DEF TypeOK
<1>7. FlushOrder'
  BY <1>1, <1>3 DEF FlushOrder, Quiet
<1>8. BootOrder'
  BY <1>1, <1>2, <1>3 DEF BootOrder
<1>9. AcknowledgedIsKept' /\ HollowIsStored'
  <2>1. HollowIsStored'
    BY <1>1, <1>2, <1>3, <1>4 DEF HollowIsStored, TypeOK
  <2>2. ASSUME NEW j \in Keys, kept'[j] # Torn, j \notin hollow'
        PROVE  kept'[j] = mem.settings[j]
    <3>1. CASE j = k
      BY <1>4, <3>1
    <3>2. CASE j # k /\ j \in hollow
      BY <1>1, <1>4, <2>2, <3>2 DEF HollowIsStored
    <3>3. CASE j # k /\ j \notin hollow
      BY <1>2, <1>4, <2>2, <3>3 DEF AcknowledgedIsKept
    <3> QED BY <3>1, <3>2, <3>3
  <2> QED BY <1>1, <1>3, <2>1, <2>2 DEF AcknowledgedIsKept, HollowIsStored
<1>10. LockedStayFixed'
  BY <1>1, <1>2, <1>3, <1>5 DEF LockedStayFixed, FlushOrder
<1> QED BY <1>6, <1>7, <1>8, <1>9, <1>10

LEMMA StartInv ==
  ASSUME ConstantsOK, Inv, Start
  PROVE  Inv'
<1> USE DEF Inv
<1>1. /\ mem' = Stored /\ stage' = "booting" /\ bootTodo' = BootKeys
      /\ UNCHANGED <<db, tmp, op, kept, fixed, hollow>> /\ Stored' = Stored
      /\ op = Quiet
  BY DEF Start, Stored, TypeOK
<1>2. Stored \in Data
  BY StoredData DEF TypeOK, FlushOrder
<1>3. TypeOK'
  BY <1>1, <1>2 DEF TypeOK
<1>4. FlushOrder' /\ BootOrder'
  BY <1>1 DEF FlushOrder, BootOrder, Quiet
<1>5. AcknowledgedIsKept' /\ LockedStayFixed' /\ HollowIsStored'
  BY <1>1 DEF AcknowledgedIsKept, LockedStayFixed, HollowIsStored
<1> QED BY <1>3, <1>4, <1>5

LEMMA StepInv == ConstantsOK /\ Inv /\ [Next]_vars => Inv'
<1> SUFFICES ASSUME ConstantsOK, Inv, [Next]_vars PROVE Inv'
  OBVIOUS
<1>1. CASE Start
  BY <1>1, StartInv
<1>2. CASE BootStep
  BY <1>2, BootSetsInv, BootLocksInv DEF BootStep
<1>3. CASE Listens
  BY <1>3 DEF Listens, Idle, Inv, TypeOK, FlushOrder, BootOrder, Stored,
              AcknowledgedIsKept, LockedStayFixed, HollowIsStored
<1>4. CASE \E k \in Keys : (\E v \in Values : Set(k, v)) \/ Delete(k) \/ LockKey(k)
  BY <1>4, RequestInv
<1>5. CASE TmpWritten
  <2>1. /\ op.flush = "write" /\ tmp' = mem /\ op' = [op EXCEPT !.flush = "rename"]
        /\ UNCHANGED <<stage, mem, db, bootTodo, kept, fixed, hollow>> /\ Stored' = Stored
    BY <1>5 DEF TmpWritten, Stored
  <2>2. op \in [kind : {"set", "delete", "lock"}, key : Keys, flush : {"write", "rename"}]
        /\ stage # "down"
    BY <2>1 DEF Inv, TypeOK, Quiet
  <2>3. /\ op' \in [kind : {"set", "delete", "lock"}, key : Keys, flush : {"write", "rename"}]
        /\ op'.kind = op.kind /\ op'.key = op.key
    BY <2>1, <2>2
  <2>4. TypeOK'
    BY <2>1, <2>2, <2>3 DEF Inv, TypeOK
  <2> QED BY <2>1, <2>3, <2>4 DEF Inv, FlushOrder, BootOrder, AcknowledgedIsKept, LockedStayFixed, HollowIsStored
<1>6. CASE Renamed
  BY <1>6, RenamedInv
<1>7. CASE FlushFails
  BY <1>7 DEF FlushFails, KeptAfterFailure, BootAfterFailure, Inv, TypeOK, FlushOrder,
              BootOrder, Stored, Quiet, AcknowledgedIsKept, LockedStayFixed, HollowIsStored
<1>8. CASE Crash
  <2>1. Empty \in Data
    BY DEF Empty, Data, Settings
  <2>2. /\ stage' = "down" /\ mem' = Empty /\ bootTodo' = {} /\ op' = Quiet
        /\ UNCHANGED <<db, tmp, kept, fixed, hollow>> /\ Stored' = Stored
    BY <1>8 DEF Crash, Stored
  <2>3. TypeOK'
    BY <2>1, <2>2 DEF Inv, TypeOK
  <2> QED BY <2>2, <2>3 DEF Inv, FlushOrder, BootOrder, Quiet, AcknowledgedIsKept, LockedStayFixed, HollowIsStored
<1>9. CASE UNCHANGED vars
  BY <1>9 DEF vars, Inv, TypeOK, FlushOrder, BootOrder, Stored, AcknowledgedIsKept,
              LockedStayFixed, HollowIsStored
<1> QED BY <1>1, <1>2, <1>3, <1>4, <1>5, <1>6, <1>7, <1>8, <1>9 DEF Next, FlushStep

-----------------------------------------------------------------------------

\* The invariant holds throughout.
THEOREM Invariance == ConstantsOK => (Spec => []Inv)
<1> SUFFICES ASSUME ConstantsOK PROVE Spec => []Inv
  OBVIOUS
<1>1. Init => Inv
  BY InitInv
<1>2. Inv /\ [Next]_vars => Inv'
  BY StepInv
<1> QED BY <1>1, <1>2, PTL DEF Spec

\* The variables keep their types.
THEOREM TypeCorrect == ConstantsOK => (Spec => []TypeOK)
<1> SUFFICES ASSUME ConstantsOK PROVE Spec => []TypeOK
  OBVIOUS
<1>1. Inv => TypeOK
  BY DEF Inv
<1> QED BY <1>1, Invariance, PTL

\* A write or delete acknowledged after a flush is what the store and every later
\* life of the daemon hold, for any keys, failures and deaths; one acknowledged
\* without a flush is too, unless the store still has the key because an earlier
\* delete's flush failed.
THEOREM WritesAreKept == ConstantsOK => (Spec => []AcknowledgedIsKept)
<1> SUFFICES ASSUME ConstantsOK PROVE Spec => []AcknowledgedIsKept
  OBVIOUS
<1>1. Inv => AcknowledgedIsKept
  BY DEF Inv
<1> QED BY <1>1, Invariance, PTL

\* Acknowledged locks hold for ever, and no client meets an unlocked boot key.
THEOREM LocksAreKept == ConstantsOK => (Spec => []LocksHold)
<1> SUFFICES ASSUME ConstantsOK PROVE Spec => []LocksHold
  OBVIOUS
<1>1. Inv => LocksHold
  BY DEF Inv, LocksHold, BootKeysAreGuarded, BootOrder
<1> QED BY <1>1, Invariance, PTL
=============================================================================
