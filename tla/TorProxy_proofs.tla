--------------------------- MODULE TorProxy_proofs ---------------------------
(***************************************************************************)
(* Theorems about TorProxy for any uids, whether or not Tor's own is one   *)
(* of those that may be listed, and for any length of the chains.          *)
(***************************************************************************)
EXTENDS TorProxy, SequenceTheorems, WellFoundedInduction, TLAPS

Commands == [act : Acts, chain : Chains, rule : Rules]

(* Facts about a chain's rules. *)

Once(r, u) == \A i, j \in 1 .. Len(r) : r[i] = u /\ r[j] = u => i = j
Twice(r, u) == \E i, j \in 1 .. Len(r) : i < j /\ r[i] = u /\ r[j] = u

\* Nothing comes behind a redirection, and none comes without Tor's exception.
OnlyLast(r) == \A i \in 1 .. Len(r) : r[i] = "redirect" => i = Len(r)
InOrder(r) == OnlyLast(r) /\ (Contains(r, "redirect") => Contains(r, TorUid))

RulesInOrder == \A c \in Chains : InOrder(nat.rules[c])

(* The script of an enable: 6 commands that clean up, and for each chain one *)
(* that makes it and one for each of its rules, then the two jumps.          *)

Size(c) == Len(bypass) + IF c = "dns" THEN 2 ELSE 3
Before(c) == IF c = "dns" THEN 6 ELSE Len(bypass) + 9
Total == 2 * Len(bypass) + 15

RuleAt(c, i) ==
  IF i = 1 THEN TorUid
  ELSE IF i <= Len(bypass) + 1 THEN bypass[i - 1]
  ELSE IF i = Size(c) THEN "redirect" ELSE "local"

\* The first d commands of the script have made and filled chain c.
Built(c, d) ==
  d > Before(c) =>
    /\ c \in nat.made
    /\ Len(nat.rules[c]) = IF d <= Before(c) + Size(c) THEN d - Before(c) - 1 ELSE Size(c)
    /\ \A i \in 1 .. Len(nat.rules[c]) : nat.rules[c][i] = RuleAt(c, i)

\* d commands of the clean-up have gone through or had nothing to do.
Cleaned(d) ==
  /\ d >= 1 => "dns" \notin nat.hooks
  /\ d >= 2 => "trans" \notin nat.hooks
  /\ d >= 3 => nat.rules["dns"] = << >>
  /\ d >= 4 => "dns" \notin nat.made
  /\ d >= 5 => nat.rules["trans"] = << >>
  /\ d >= 6 => "trans" \notin nat.made

Progress(d) ==
  /\ lock.todo = SubSeq(ApplyScript, d + 1, Total)
  /\ \A c \in Chains : Built(c, d)
  /\ d >= Total - 1 => "dns" \in nat.hooks
  /\ d >= Total => "trans" \in nat.hooks
  /\ lock.ok => IF d <= 6 THEN Cleaned(d)
                ELSE d <= Before("trans") => "trans" \notin nat.made

EnableGoesOn == lock.op = "enable" => \E d \in 0 .. Total : Progress(d)

DisableGoesOn ==
  lock.op = "disable" =>
    \E d \in 0 .. 6 : /\ lock.todo = SubSeq(CleanupScript, d + 1, 6)
                      /\ lock.ok => Cleaned(d)

(* The edits of a chain. *)

EditGoesOn ==
  /\ lock.op = "add" =>
       /\ lock.uid \in Uids /\ ~Contains(bypass, lock.uid)
       /\ lock.todo \in {AddScript(lock.uid), <<Cmd("insert", "trans", lock.uid)>>, << >>}
  /\ lock.op = "remove" =>
       /\ lock.uid \in Uids /\ Contains(bypass, lock.uid)
       /\ lock.todo \in {DropScript(lock.uid), <<Cmd("drop", "trans", lock.uid)>>, << >>}

\* The operation that edits the chains is done with chain c.
Edited(c) ==
  /\ lock.op \in {"add", "remove"}
  /\ IF c = "dns" THEN Len(lock.todo) < 2 ELSE lock.todo = << >>

\* The uids chain c has to exempt.
Listed(c) ==
  {u \in Uids : IF u = lock.uid /\ Edited(c) THEN lock.op = "add" ELSE Contains(bypass, u)}

\* Rules r exempt the uids of L and, in rules of their own, those of sp; Tor's own
\* is always exempt, if it is in L twice, and but for it and the uids of sp nobody
\* is exempted twice or without being in L.
Exempts(r, L, sp) ==
  /\ Contains(r, "redirect")
  /\ \A u \in L : Contains(r, u) /\ (u = TorUid => Twice(r, u))
  /\ \A u \in sp \ {TorUid} : Contains(r, u) /\ (u \in L => Twice(r, u))
  /\ \A u \in Uids \ (sp \cup {TorUid}) : Once(r, u) /\ (Contains(r, u) => u \in L)

Exact(c) == c \in nat.hooks /\ Exempts(nat.rules[c], Listed(c), stray[c])

InService == mgr.running /\ lock.op \in {"free", "control", "monitor", "add", "remove"}

Complete == InService => \A c \in Chains : Exact(c)

(* The rest. *)

NoneTwice == \A u \in Uids : Once(bypass, u)

OpsKnow ==
  /\ lock.op \in {"enable", "rollback", "add", "remove", "control", "monitor"} => mgr.running
  /\ lock.op = "boot" => ~mgr.running

DirectIsClean ==
  direct => ~mgr.running /\ lock.op = "free" /\ nat.hooks = {} /\ nat.made = {}

Inv ==
  /\ TypeOK /\ RulesInOrder /\ NoneTwice /\ OpsKnow /\ DirectIsClean
  /\ EnableGoesOn /\ DisableGoesOn /\ EditGoesOn /\ Complete

-----------------------------------------------------------------------------
(* Sequences *)

\* Nonempty sets of naturals have a least element.
LEMMA LeastExists ==
  ASSUME NEW I, I \subseteq Nat, I # {}
  PROVE  Min(I) \in I
<1>1. IsWellFoundedOn(OpToRel(<, Nat), Nat)
  BY NatLessThanWellFounded
<1>2. PICK x \in I : \A y \in I : ~(<<y, x>> \in OpToRel(<, Nat))
  BY <1>1, WFMin
<1>3. OpToRel(<, Nat) = {ss \in Nat \X Nat : ss[1] < ss[2]}
  BY DEF OpToRel
<1>4. ASSUME NEW y \in I PROVE x <= y
  <2>1. x \in Nat /\ y \in Nat /\ <<y, x>> \in Nat \X Nat
    BY <1>2, <1>4
  <2>2. ~(y < x)
    BY <1>2, <1>3, <2>1
  <2> QED BY <2>1, <2>2
<1> QED BY <1>2, <1>4 DEF Min

\* An occurrence of e is taken out of s.
LEMMA OneRemoved ==
  ASSUME NEW S, NEW s \in Seq(S), NEW e, Contains(s, e)
  PROVE  \E k \in 1 .. Len(s) : s[k] = e /\ RemoveFirst(s, e) = RemoveAt(s, k)
<1> DEFINE I == {i \in 1 .. Len(s) : s[i] = e}
<1>1. I # {} /\ I \subseteq Nat
  BY DEF Contains
<1>2. Min(I) \in I
  BY <1>1, LeastExists
<1>3. SelectInSeq(s, LAMBDA v : v = e) = Min(I)
  BY <1>1 DEF SelectInSeq
<1>4. RemoveFirst(s, e) = RemoveAt(s, Min(I))
  BY <1>3 DEF RemoveFirst, Contains
<1> QED BY <1>2, <1>4

\* The elements after position k is taken out.
LEMMA RemovedAt ==
  ASSUME NEW S, NEW s \in Seq(S), NEW k \in 1 .. Len(s)
  PROVE  /\ RemoveAt(s, k) \in Seq(S)
         /\ Len(RemoveAt(s, k)) = Len(s) - 1
         /\ \A i \in 1 .. Len(s) - 1 : RemoveAt(s, k)[i] = IF i < k THEN s[i] ELSE s[i + 1]
<1> DEFINE p == SubSeq(s, 1, k - 1)
           q == SubSeq(s, k + 1, Len(s))
<1>1. p \in Seq(S) /\ Len(p) = k - 1 /\ \A i \in 1 .. k - 1 : p[i] = s[i]
  BY SubSeqProperties
<1>2. q \in Seq(S) /\ Len(q) = Len(s) - k /\ \A i \in 1 .. Len(s) - k : q[i] = s[k + i]
  BY SubSeqProperties
<1>3. RemoveAt(s, k) = p \o q
  BY DEF RemoveAt
<1> HIDE DEF p, q
<1>4. /\ p \o q \in Seq(S) /\ Len(p \o q) = Len(p) + Len(q)
      /\ \A i \in 1 .. Len(p) + Len(q) :
           (p \o q)[i] = IF i <= Len(p) THEN p[i] ELSE q[i - Len(p)]
  BY <1>1, <1>2, ConcatProperties
<1>5. ASSUME NEW i \in 1 .. Len(s) - 1
      PROVE  (p \o q)[i] = IF i < k THEN s[i] ELSE s[i + 1]
  <2>1. i \in Nat /\ k \in Nat /\ Len(s) \in Nat /\ i \in 1 .. Len(p) + Len(q)
    BY <1>1, <1>2
  <2>2. CASE i < k
    BY <1>1, <1>4, <2>1, <2>2
  <2>3. CASE ~(i < k)
    <3>1. i - (k - 1) \in 1 .. Len(s) - k /\ k + (i - (k - 1)) = i + 1
      BY <2>1, <2>3
    <3>2. (p \o q)[i] = q[i - (k - 1)]
      BY <1>1, <1>4, <2>1, <2>3
    <3>3. q[i - (k - 1)] = s[k + (i - (k - 1))]
      BY <1>2, <3>1
    <3> QED BY <2>3, <3>1, <3>2, <3>3
  <2> QED BY <2>2, <2>3
<1> QED BY <1>1, <1>2, <1>3, <1>4, <1>5

\* `-I chain 2`: the elements after an insertion behind the first.
LEMMA InsertedSecond ==
  ASSUME NEW S, NEW s \in Seq(S), NEW e \in S, s # << >>
  PROVE  /\ Inserted(s, e) \in Seq(S)
         /\ Len(Inserted(s, e)) = Len(s) + 1
         /\ \A i \in 1 .. Len(s) + 1 :
              Inserted(s, e)[i] = IF i = 1 THEN s[1] ELSE IF i = 2 THEN e ELSE s[i - 1]
<1> DEFINE p == SubSeq(s, 1, 1) \o <<e>>
           q == SubSeq(s, 2, Len(s))
<1>0. Len(s) \in Nat /\ Len(s) >= 1
  BY EmptySeq
<1>1. \A i \in 1 .. Len(s) : s[i] \in S
  OBVIOUS
<1>2. SubSeq(s, 1, 1) \in Seq(S) /\ Len(SubSeq(s, 1, 1)) = 1 /\ SubSeq(s, 1, 1)[1] = s[1]
  BY <1>0, <1>1, SubSeqProperties
<1>3. p \in Seq(S) /\ Len(p) = 2 /\ p[1] = s[1] /\ p[2] = e
  BY <1>2, ConcatProperties
<1>4. q \in Seq(S) /\ Len(q) = Len(s) - 1 /\ \A i \in 1 .. Len(s) - 1 : q[i] = s[i + 1]
  <2>1. q = Tail(s)
    BY TailIsSubSeq
  <2>2. /\ Tail(s) \in Seq(S) /\ Len(Tail(s)) = Len(s) - 1
        /\ \A i \in 1 .. Len(Tail(s)) : Tail(s)[i] = s[i + 1]
    BY HeadTailProperties
  <2> QED BY <2>1, <2>2
<1>5. Inserted(s, e) = p \o q
  BY DEF Inserted, InsertAt
<1> HIDE DEF p, q
<1>6. /\ p \o q \in Seq(S) /\ Len(p \o q) = Len(p) + Len(q)
      /\ \A i \in 1 .. Len(p) + Len(q) :
           (p \o q)[i] = IF i <= Len(p) THEN p[i] ELSE q[i - Len(p)]
  BY <1>3, <1>4, ConcatProperties
<1>7. ASSUME NEW i \in 1 .. Len(s) + 1
      PROVE  (p \o q)[i] = IF i = 1 THEN s[1] ELSE IF i = 2 THEN e ELSE s[i - 1]
  <2>1. (p \o q)[i] = IF i <= 2 THEN p[i] ELSE q[i - 2]
    BY <1>0, <1>1, <1>3, <1>4, <1>6
  <2>2. CASE i <= 2
    BY <1>3, <2>1, <2>2
  <2>3. CASE ~(i <= 2)
    <3>1. i - 2 \in 1 .. Len(s) - 1 /\ (i - 2) + 1 = i - 1
      BY <1>0, <1>1, <2>3
    <3>2. q[i - 2] = s[(i - 2) + 1]
      BY <1>4, <3>1
    <3> QED BY <2>1, <2>3, <3>1, <3>2
  <2> QED BY <2>2, <2>3
<1> QED BY <1>0, <1>1, <1>3, <1>4, <1>5, <1>6, <1>7

\* What taking out an occurrence of e does to the other elements, and to e.
LEMMA AfterRemoval ==
  ASSUME NEW S, NEW s \in Seq(S), NEW e, Contains(s, e)
  PROVE  /\ RemoveFirst(s, e) \in Seq(S)
         /\ \A u : Contains(RemoveFirst(s, e), u) => Contains(s, u)
         /\ \A u : u # e /\ Contains(s, u) => Contains(RemoveFirst(s, e), u)
         /\ \A u : Once(s, u) => Once(RemoveFirst(s, e), u)
         /\ \A u : u # e /\ Twice(s, u) => Twice(RemoveFirst(s, e), u)
         /\ Once(s, e) => ~Contains(RemoveFirst(s, e), e)
         /\ Twice(s, e) => Contains(RemoveFirst(s, e), e)
         /\ OnlyLast(s) /\ e # "redirect" => OnlyLast(RemoveFirst(s, e))
<1> DEFINE t == RemoveFirst(s, e)
           from(i, k) == IF i < k THEN i ELSE i + 1
           to(j, k) == IF j < k THEN j ELSE j - 1
<1>1. PICK k \in 1 .. Len(s) : s[k] = e /\ t = RemoveAt(s, k)
  BY OneRemoved
<1>2. Len(s) \in Nat /\ k \in Nat
  OBVIOUS
<1>3. t \in Seq(S) /\ Len(t) = Len(s) - 1
  BY <1>1, RemovedAt
<1>4. \A i \in 1 .. Len(t) : from(i, k) \in 1 .. Len(s) /\ from(i, k) # k /\ t[i] = s[from(i, k)]
  BY <1>1, <1>2, <1>3, RemovedAt
<1>5. \A j \in 1 .. Len(s) : j # k => to(j, k) \in 1 .. Len(t) /\ from(to(j, k), k) = j
  BY <1>2, <1>3
<1>6. \A i, j \in 1 .. Len(t) : i < j => from(i, k) < from(j, k)
  BY <1>2, <1>3
<1>7. \A i, j \in 1 .. Len(s) : i < j /\ i # k /\ j # k => to(i, k) < to(j, k)
  BY <1>2
<1>8. \A j \in 1 .. Len(s) : j # k => to(j, k) \in 1 .. Len(t) /\ t[to(j, k)] = s[j]
  BY <1>4, <1>5
<1>9. Len(t) \in Nat
  BY <1>3
<1>10. \A i, j \in 1 .. Len(t) : from(i, k) = from(j, k) => i = j
  BY <1>2, <1>9
<1>11. \A i \in 1 .. Len(t) : from(i, k) = Len(s) => i = Len(t)
  BY <1>2, <1>3, <1>9
<1> HIDE DEF t, from, to
<1>a. ASSUME NEW u, Contains(t, u) PROVE Contains(s, u)
  BY <1>4, <1>a DEF Contains
<1>b. ASSUME NEW u, u # e, Contains(s, u) PROVE Contains(t, u)
  BY <1>1, <1>8, <1>b DEF Contains
<1>c. ASSUME NEW u, Once(s, u) PROVE Once(t, u)
  BY <1>4, <1>10, <1>c DEF Once
<1>d. ASSUME NEW u, u # e, Twice(s, u) PROVE Twice(t, u)
  BY <1>1, <1>7, <1>8, <1>d DEF Twice
<1>e. ASSUME Once(s, e) PROVE ~Contains(t, e)
  BY <1>1, <1>4, <1>e DEF Once, Contains
<1>f. ASSUME Twice(s, e) PROVE Contains(t, e)
  <2>1. PICK i, j \in 1 .. Len(s) : i < j /\ s[i] = e /\ s[j] = e
    BY <1>f DEF Twice
  <2>2. i # k \/ j # k
    BY <1>2, <2>1
  <2> QED BY <1>8, <2>1, <2>2 DEF Contains
<1>g. ASSUME OnlyLast(s), e # "redirect" PROVE OnlyLast(t)
  BY <1>4, <1>11, <1>g DEF OnlyLast
<1> QED BY <1>3, <1>a, <1>b, <1>c, <1>d, <1>e, <1>f, <1>g DEF t

\* What putting e behind the first rule does.
LEMMA AfterInsertion ==
  ASSUME NEW S, NEW s \in Seq(S), NEW e \in S, s # << >>
  PROVE  /\ Inserted(s, e) \in Seq(S)
         /\ \A u : Contains(Inserted(s, e), u) <=> u = e \/ Contains(s, u)
         /\ \A u : u # e /\ Once(s, u) => Once(Inserted(s, e), u)
         /\ ~Contains(s, e) => Once(Inserted(s, e), e)
         /\ \A u : Twice(s, u) => Twice(Inserted(s, e), u)
         /\ Contains(s, e) => Twice(Inserted(s, e), e)
         /\ e # "redirect" /\ InOrder(s) => InOrder(Inserted(s, e))
<1> DEFINE t == Inserted(s, e)
           from(i) == IF i = 1 THEN 1 ELSE i - 1
           to(j) == IF j = 1 THEN 1 ELSE j + 1
<1>0. /\ t \in Seq(S) /\ Len(t) = Len(s) + 1
      /\ \A i \in 1 .. Len(s) + 1 :
           t[i] = IF i = 1 THEN s[1] ELSE IF i = 2 THEN e ELSE s[i - 1]
  BY InsertedSecond
<1> HIDE DEF t
<1>1. t \in Seq(S) /\ Len(t) = Len(s) + 1
  BY <1>0
<1>2. Len(s) \in Nat /\ Len(s) >= 1 /\ 2 \in 1 .. Len(t)
  BY <1>1, EmptySeq
<1>3. \A i \in 1 .. Len(t) : t[i] = IF i = 1 THEN s[1] ELSE IF i = 2 THEN e ELSE s[i - 1]
  BY <1>0
<1>4. t[2] = e
  BY <1>2, <1>3
<1>5. \A i \in 1 .. Len(t) : i # 2 => from(i) \in 1 .. Len(s) /\ t[i] = s[from(i)]
  BY <1>1, <1>2, <1>3
<1>6. \A j \in 1 .. Len(s) : to(j) \in 1 .. Len(t) /\ to(j) # 2 /\ from(to(j)) = j
  BY <1>1, <1>2
<1>7. \A j \in 1 .. Len(s) : to(j) \in 1 .. Len(t) /\ to(j) # 2 /\ t[to(j)] = s[j]
  BY <1>5, <1>6
<1>8. \A i, j \in 1 .. Len(t) : i # 2 /\ j # 2 /\ from(i) = from(j) => i = j
  BY <1>1, <1>2
<1>9. \A i, j \in 1 .. Len(s) : i < j => to(i) < to(j)
  BY <1>2
<1>10. \A i \in 1 .. Len(t) : i # 2 /\ from(i) = Len(s) => i = Len(t) \/ (i = 1 /\ Len(s) = 1)
  BY <1>1, <1>2
<1>11. s[1] = t[1] /\ 1 \in 1 .. Len(t) /\ 1 \in 1 .. Len(s)
  BY <1>1, <1>2, <1>3
<1> HIDE DEF from, to
<1>a. ASSUME NEW u, Contains(t, u), u # e PROVE Contains(s, u)
  BY <1>4, <1>5, <1>a DEF Contains
<1>b. ASSUME NEW u, Contains(s, u) PROVE Contains(t, u)
  BY <1>7, <1>b DEF Contains
<1>c. Contains(t, e)
  BY <1>2, <1>4 DEF Contains
<1>d. ASSUME NEW u, u # e, Once(s, u) PROVE Once(t, u)
  BY <1>4, <1>5, <1>8, <1>d DEF Once
<1>e. ASSUME ~Contains(s, e) PROVE Once(t, e)
  BY <1>5, <1>e DEF Once, Contains
<1>f. ASSUME NEW u, Twice(s, u) PROVE Twice(t, u)
  BY <1>7, <1>9, <1>f DEF Twice
<1>g. ASSUME Contains(s, e) PROVE Twice(t, e)
  <2>1. PICK j \in 1 .. Len(s) : s[j] = e
    BY <1>g DEF Contains
  <2>2. to(j) \in Nat /\ to(j) # 2 /\ to(j) \in 1 .. Len(t) /\ t[to(j)] = e
    BY <1>1, <1>2, <1>7, <2>1
  <2>3. to(j) < 2 \/ 2 < to(j)
    BY <2>2
  <2> QED BY <1>2, <1>4, <2>2, <2>3 DEF Twice
<1>h. ASSUME e # "redirect", InOrder(s) PROVE InOrder(t)
  <2>1. ASSUME NEW i \in 1 .. Len(t), t[i] = "redirect" PROVE i = Len(t)
    <3>1. i # 2 /\ from(i) \in 1 .. Len(s) /\ s[from(i)] = "redirect"
      BY <1>4, <1>5, <1>h, <2>1
    <3>2. from(i) = Len(s) /\ Contains(s, TorUid)
      BY <1>h, <3>1 DEF InOrder, OnlyLast, Contains
    <3>3. PICK j \in 1 .. Len(s) : s[j] = TorUid
      BY <3>2 DEF Contains
    <3>4. j # from(i)
      BY <3>1, <3>3, NamesAssumption
    <3>5. Len(s) # 1
      BY <1>2, <3>1, <3>2, <3>3, <3>4
    <3> QED BY <1>10, <3>1, <3>2, <3>5
  <2>2. Contains(t, "redirect") => Contains(t, TorUid)
    BY <1>a, <1>b, <1>h DEF InOrder
  <2> QED BY <2>1, <2>2 DEF InOrder, OnlyLast
<1> QED BY <1>1, <1>a, <1>b, <1>c, <1>d, <1>e, <1>f, <1>g, <1>h DEF t

\* The elements of a concatenation, counted from its parts' beginnings.
LEMMA Joined ==
  ASSUME NEW S, NEW s \in Seq(S), NEW t \in Seq(S)
  PROVE  /\ s \o t \in Seq(S) /\ Len(s \o t) = Len(s) + Len(t)
         /\ \A i \in 1 .. Len(s) : (s \o t)[i] = s[i]
         /\ \A i \in 1 .. Len(t) : (s \o t)[Len(s) + i] = t[i]
<1> DEFINE k == Len(s)
           l == Len(t)
<1>1. k \in Nat /\ l \in Nat
  BY LenProperties
<1>2. /\ s \o t \in Seq(S) /\ Len(s \o t) = k + l
      /\ \A i \in 1 .. k + l : (s \o t)[i] = IF i <= k THEN s[i] ELSE t[i - k]
  BY ConcatProperties
<1>3. ASSUME NEW i \in 1 .. k PROVE (s \o t)[i] = s[i]
  <2>1. i \in 1 .. k + l /\ i <= k
    BY <1>1
  <2> QED BY <1>2, <2>1
<1>4. ASSUME NEW i \in 1 .. l PROVE (s \o t)[k + i] = t[i]
  <2>1. k + i \in 1 .. k + l /\ ~(k + i <= k) /\ (k + i) - k = i
    BY <1>1
  <2> QED BY <1>2, <2>1
<1> QED BY <1>2, <1>3, <1>4

\* The commands for the rules of chain c.
LEMMA ChainLaid ==
  ASSUME bypass \in Seq(Uids), NEW c \in Chains, NEW last \in Seq({"local", "redirect"}),
         Size(c) = Len(bypass) + 1 + Len(last)
  PROVE  /\ ChainScript(c, last) \in Seq(Commands)
         /\ Len(ChainScript(c, last)) = Size(c) + 1
         /\ ChainScript(c, last)[1] = Bare("new", c)
         /\ \A i \in 1 .. Size(c) :
              ChainScript(c, last)[i + 1] =
                AppendTo(c, IF i = 1 THEN TorUid
                            ELSE IF i <= Len(bypass) + 1 THEN bypass[i - 1]
                            ELSE last[i - 1 - Len(bypass)])
<1> DEFINE n == Len(bypass)
           m == Len(last)
           p == << Bare("new", c), AppendTo(c, TorUid) >>
           q == [i \in 1 .. n |-> AppendTo(c, bypass[i])]
           r == [i \in 1 .. m |-> AppendTo(c, last[i])]
<1>1. n \in Nat /\ m \in Nat
  OBVIOUS
<1>2. \A u \in Rules : AppendTo(c, u) \in Commands /\ Bare("new", c) \in Commands
  BY DEF AppendTo, Bare, Cmd, Commands, Acts, Rules
<1>3. TorUid \in Rules /\ Uids \subseteq Rules /\ {"local", "redirect"} \subseteq Rules
  BY DEF Rules
<1>4. p \in Seq(Commands) /\ Len(p) = 2 /\ p[1] = Bare("new", c) /\ p[2] = AppendTo(c, TorUid)
  <2>1. Bare("new", c) \in Commands /\ AppendTo(c, TorUid) \in Commands
    BY <1>2, <1>3
  <2> QED BY <2>1
<1>5. q \in Seq(Commands) /\ Len(q) = n /\ \A i \in 1 .. n : q[i] = AppendTo(c, bypass[i])
  <2>1. \A i \in 1 .. n : AppendTo(c, bypass[i]) \in Commands
    BY <1>2, <1>3
  <2>2. q \in [1 .. n -> Commands]
    BY <2>1
  <2> QED BY <1>1, <2>2, SeqDef, LenProperties
<1>6. r \in Seq(Commands) /\ Len(r) = m /\ \A i \in 1 .. m : r[i] = AppendTo(c, last[i])
  <2>1. \A i \in 1 .. m : AppendTo(c, last[i]) \in Commands
    BY <1>2, <1>3
  <2>2. r \in [1 .. m -> Commands]
    BY <2>1
  <2> QED BY <1>1, <2>2, SeqDef, LenProperties
<1>7. ChainScript(c, last) = (p \o q) \o r
  BY DEF ChainScript
<1> HIDE DEF n, m, p, q, r
<1> DEFINE s == p \o q
           t == s \o r
<1>8. /\ s \in Seq(Commands) /\ Len(s) = 2 + n
      /\ \A i \in 1 .. 2 : s[i] = p[i]
      /\ \A i \in 1 .. n : s[2 + i] = q[i]
  <2> HIDE DEF s
  <2>0. p \in Seq(Commands) /\ q \in Seq(Commands)
    BY <1>4, <1>5
  <2>a. /\ p \o q \in Seq(Commands) /\ Len(p \o q) = Len(p) + Len(q)
        /\ \A i \in 1 .. Len(p) : (p \o q)[i] = p[i]
        /\ \A i \in 1 .. Len(q) : (p \o q)[Len(p) + i] = q[i]
    BY <2>0, Joined
  <2>b. Len(p) = 2 /\ Len(q) = n
    BY <1>4, <1>5
  <2> QED BY <2>a, <2>b DEF s
<1> HIDE DEF s
<1>9. /\ t \in Seq(Commands) /\ Len(t) = (2 + n) + m
      /\ \A i \in 1 .. 2 + n : t[i] = s[i]
      /\ \A i \in 1 .. m : t[(2 + n) + i] = r[i]
  <2> HIDE DEF t
  <2>0. s \in Seq(Commands) /\ r \in Seq(Commands)
    BY <1>6, <1>8
  <2>a. /\ s \o r \in Seq(Commands) /\ Len(s \o r) = Len(s) + Len(r)
        /\ \A i \in 1 .. Len(s) : (s \o r)[i] = s[i]
        /\ \A i \in 1 .. Len(r) : (s \o r)[Len(s) + i] = r[i]
    BY <2>0, Joined
  <2>b. Len(s) = 2 + n /\ Len(r) = m
    BY <1>6, <1>8
  <2> QED BY <2>a, <2>b DEF t
<1> HIDE DEF t
<1>11. Size(c) = n + 1 + m
  BY DEF n, m
<1>12. t[1] = Bare("new", c) /\ t[2] = AppendTo(c, TorUid)
  <2>1. {1, 2} \subseteq 1 .. 2 /\ {1, 2} \subseteq 1 .. 2 + n
    BY <1>1
  <2> QED BY <1>4, <1>8, <1>9, <2>1
<1>13. ASSUME NEW i \in 1 .. Size(c), i # 1, i <= n + 1
       PROVE  t[i + 1] = AppendTo(c, bypass[i - 1])
  <2>1. i - 1 \in 1 .. n /\ 2 + (i - 1) = i + 1 /\ i + 1 \in 1 .. 2 + n
    BY <1>1, <1>11, <1>13
  <2>2. s[2 + (i - 1)] = q[i - 1]
    BY <1>8, <2>1
  <2> QED BY <1>5, <1>9, <2>1, <2>2
<1>14. ASSUME NEW i \in 1 .. Size(c), ~(i <= n + 1)
       PROVE  t[i + 1] = AppendTo(c, last[i - 1 - n])
  <2>1. i - 1 - n \in 1 .. m /\ (2 + n) + (i - 1 - n) = i + 1
    BY <1>1, <1>11, <1>14
  <2>2. t[(2 + n) + (i - 1 - n)] = r[i - 1 - n]
    BY <1>9, <2>1
  <2> QED BY <1>6, <2>1, <2>2
<1>15. \A i \in 1 .. Size(c) :
         t[i + 1] = AppendTo(c, IF i = 1 THEN TorUid
                                ELSE IF i <= n + 1 THEN bypass[i - 1]
                                ELSE last[i - 1 - n])
  BY <1>12, <1>13, <1>14
<1>16. Len(t) = Size(c) + 1
  BY <1>1, <1>9, <1>11
<1> QED BY <1>7, <1>9, <1>12, <1>15, <1>16 DEF t, s, n

\* Where apply has which command.
LEMMA ScriptLaid ==
  ASSUME bypass \in Seq(Uids)
  PROVE  /\ CleanupScript \in Seq(Commands) /\ Len(CleanupScript) = 6
         /\ ApplyScript \in Seq(Commands) /\ Len(ApplyScript) = Total
         /\ \A i \in 1 .. 6 : ApplyScript[i] = CleanupScript[i]
         /\ \A c \in Chains :
              /\ ApplyScript[Before(c) + 1] = Bare("new", c)
              /\ \A i \in 1 .. Size(c) : ApplyScript[Before(c) + i + 1] = AppendTo(c, RuleAt(c, i))
         /\ ApplyScript[Total - 1] = Bare("hook", "dns")
         /\ ApplyScript[Total] = Bare("hook", "trans")
<1> DEFINE n == Len(bypass)
           p == CleanupScript
           q == ChainScript("dns", <<"redirect">>)
           r == ChainScript("trans", <<"local", "redirect">>)
           h == << Bare("hook", "dns"), Bare("hook", "trans") >>
<1>1. n \in Nat /\ Total = 2 * n + 15
  BY DEF Total
<1>2. /\ Size("dns") = n + 2 /\ Size("trans") = n + 3
      /\ Before("dns") = 6 /\ Before("trans") = n + 9
  BY DEF Size, Before
<1>3. p \in Seq(Commands) /\ Len(p) = 6
  BY DEF CleanupScript, Bare, Cmd, Commands, Chains, Acts, Rules
<1>4. h \in Seq(Commands) /\ Len(h) = 2 /\ h[1] = Bare("hook", "dns") /\ h[2] = Bare("hook", "trans")
  BY DEF Bare, Cmd, Commands, Chains, Acts, Rules
<1>5. /\ q \in Seq(Commands) /\ Len(q) = n + 3 /\ q[1] = Bare("new", "dns")
      /\ \A i \in 1 .. n + 2 : q[i + 1] = AppendTo("dns", RuleAt("dns", i))
  <2> DEFINE last == <<"redirect">>
  <2>1. "dns" \in Chains /\ last \in Seq({"local", "redirect"}) /\ Len(last) = 1
    BY DEF Chains
  <2> HIDE DEF last
  <2>2. Size("dns") = Len(bypass) + 1 + Len(last)
    BY <1>1, <1>2, <2>1
  <2>3. /\ ChainScript("dns", last) \in Seq(Commands)
        /\ Len(ChainScript("dns", last)) = Size("dns") + 1
        /\ ChainScript("dns", last)[1] = Bare("new", "dns")
        /\ \A i \in 1 .. Size("dns") :
             ChainScript("dns", last)[i + 1] =
               AppendTo("dns", IF i = 1 THEN TorUid
                               ELSE IF i <= Len(bypass) + 1 THEN bypass[i - 1]
                               ELSE last[i - 1 - Len(bypass)])
    BY <2>1, <2>2, ChainLaid
  <2>3a. q = ChainScript("dns", last) /\ last = <<"redirect">>
    BY DEF last
  <2>3b. n = Len(bypass) /\ Size("dns") = n + 2 /\ Size("dns") + 1 = n + 3
    BY <1>1, <1>2
  <2> HIDE DEF q, n
  <2>4. ASSUME NEW i \in 1 .. n + 2
        PROVE  RuleAt("dns", i) = IF i = 1 THEN TorUid
                                  ELSE IF i <= n + 1 THEN bypass[i - 1]
                                  ELSE last[i - 1 - n]
    <3>1. CASE i <= n + 1
      BY <2>3b, <3>1 DEF RuleAt
    <3>2. CASE ~(i <= n + 1)
      <4>1. i = n + 2 /\ i # 1 /\ i - 1 - n = 1
        BY <1>1, <3>2
      <4> QED BY <1>2, <2>3a, <2>3b, <3>2, <4>1 DEF RuleAt
    <3> QED BY <3>1, <3>2
  <2> QED BY <2>3, <2>3a, <2>3b, <2>4
<1>6. /\ r \in Seq(Commands) /\ Len(r) = n + 4 /\ r[1] = Bare("new", "trans")
      /\ \A i \in 1 .. n + 3 : r[i + 1] = AppendTo("trans", RuleAt("trans", i))
  <2> DEFINE last == <<"local", "redirect">>
  <2>1. "trans" \in Chains /\ last \in Seq({"local", "redirect"}) /\ Len(last) = 2
    BY DEF Chains
  <2> HIDE DEF last
  <2>2. Size("trans") = Len(bypass) + 1 + Len(last)
    BY <1>1, <1>2, <2>1
  <2>3. /\ ChainScript("trans", last) \in Seq(Commands)
        /\ Len(ChainScript("trans", last)) = Size("trans") + 1
        /\ ChainScript("trans", last)[1] = Bare("new", "trans")
        /\ \A i \in 1 .. Size("trans") :
             ChainScript("trans", last)[i + 1] =
               AppendTo("trans", IF i = 1 THEN TorUid
                               ELSE IF i <= Len(bypass) + 1 THEN bypass[i - 1]
                               ELSE last[i - 1 - Len(bypass)])
    BY <2>1, <2>2, ChainLaid
  <2>3a. r = ChainScript("trans", last) /\ last = <<"local", "redirect">>
    BY DEF last
  <2>3b. n = Len(bypass) /\ Size("trans") = n + 3 /\ Size("trans") + 1 = n + 4
    BY <1>1, <1>2
  <2> HIDE DEF r, n
  <2>4. ASSUME NEW i \in 1 .. n + 3
        PROVE  RuleAt("trans", i) = IF i = 1 THEN TorUid
                                    ELSE IF i <= n + 1 THEN bypass[i - 1]
                                    ELSE last[i - 1 - n]
    <3>1. CASE i <= n + 1
      BY <2>3b, <3>1 DEF RuleAt
    <3>2. CASE ~(i <= n + 1)
      <4>1. i # 1 /\ ((i = n + 2 /\ i - 1 - n = 1) \/ (i = n + 3 /\ i - 1 - n = 2))
        BY <1>1, <3>2
      <4>2. n + 2 # n + 3
        BY <1>1
      <4> QED BY <1>2, <2>3a, <2>3b, <3>2, <4>1, <4>2 DEF RuleAt
    <3> QED BY <3>1, <3>2
  <2> QED BY <2>3, <2>3a, <2>3b, <2>4
<1>7. ApplyScript = ((p \o q) \o r) \o h
  BY DEF ApplyScript
<1> HIDE DEF n, p, q, r, h
<1> DEFINE pq == p \o q
           pqr == pq \o r
           s == pqr \o h
<1>8. /\ pq \in Seq(Commands) /\ Len(pq) = 6 + (n + 3)
      /\ \A i \in 1 .. 6 : pq[i] = p[i]
      /\ \A i \in 1 .. n + 3 : pq[6 + i] = q[i]
  <2> HIDE DEF pq
  <2>0. p \in Seq(Commands) /\ q \in Seq(Commands)
    BY <1>3, <1>5
  <2>a. /\ p \o q \in Seq(Commands) /\ Len(p \o q) = Len(p) + Len(q)
        /\ \A i \in 1 .. Len(p) : (p \o q)[i] = p[i]
        /\ \A i \in 1 .. Len(q) : (p \o q)[Len(p) + i] = q[i]
    BY <2>0, Joined
  <2>b. Len(p) = 6 /\ Len(q) = n + 3
    BY <1>3, <1>5
  <2> QED BY <2>a, <2>b DEF pq
<1> HIDE DEF pq
<1>8a. 6 + (n + 3) = n + 9 /\ (n + 9) + (n + 4) = 2 * n + 13 /\ (2 * n + 13) + 2 = 2 * n + 15
  BY <1>1
<1>9. /\ pqr \in Seq(Commands) /\ Len(pqr) = (n + 9) + (n + 4)
      /\ \A i \in 1 .. n + 9 : pqr[i] = pq[i]
      /\ \A i \in 1 .. n + 4 : pqr[(n + 9) + i] = r[i]
  <2> HIDE DEF pqr
  <2>0. pq \in Seq(Commands) /\ r \in Seq(Commands)
    BY <1>6, <1>8, <1>8a
  <2>a. /\ pq \o r \in Seq(Commands) /\ Len(pq \o r) = Len(pq) + Len(r)
        /\ \A i \in 1 .. Len(pq) : (pq \o r)[i] = pq[i]
        /\ \A i \in 1 .. Len(r) : (pq \o r)[Len(pq) + i] = r[i]
    BY <2>0, Joined
  <2>b. Len(pq) = n + 9 /\ Len(r) = n + 4
    BY <1>6, <1>8, <1>8a
  <2> QED BY <2>a, <2>b DEF pqr
<1> HIDE DEF pqr
<1>10. /\ s \in Seq(Commands) /\ Len(s) = (2 * n + 13) + 2
       /\ \A i \in 1 .. 2 * n + 13 : s[i] = pqr[i]
       /\ \A i \in 1 .. 2 : s[(2 * n + 13) + i] = h[i]
  <2> HIDE DEF s
  <2>0. pqr \in Seq(Commands) /\ h \in Seq(Commands)
    BY <1>4, <1>8a, <1>9
  <2>a. /\ pqr \o h \in Seq(Commands) /\ Len(pqr \o h) = Len(pqr) + Len(h)
        /\ \A i \in 1 .. Len(pqr) : (pqr \o h)[i] = pqr[i]
        /\ \A i \in 1 .. Len(h) : (pqr \o h)[Len(pqr) + i] = h[i]
    BY <2>0, Joined
  <2>b. Len(pqr) = 2 * n + 13 /\ Len(h) = 2
    BY <1>4, <1>8a, <1>9
  <2> QED BY <2>a, <2>b DEF s
<1>11. ApplyScript = s
  BY <1>7 DEF s, pqr, pq
<1> HIDE DEF s
<1>12. \A i \in 1 .. 6 : s[i] = p[i]
  <2> SUFFICES ASSUME NEW i \in 1 .. 6 PROVE s[i] = p[i]
    OBVIOUS
  <2>1. i \in 1 .. n + 9 /\ i \in 1 .. 2 * n + 13
    BY <1>1
  <2> QED BY <1>8, <1>9, <1>10, <2>1
<1>13. \A i \in 1 .. n + 3 : s[6 + i] = q[i]
  <2> SUFFICES ASSUME NEW i \in 1 .. n + 3 PROVE s[6 + i] = q[i]
    OBVIOUS
  <2>1. 6 + i \in 1 .. n + 9 /\ 6 + i \in 1 .. 2 * n + 13
    BY <1>1
  <2> QED BY <1>8, <1>9, <1>10, <2>1
<1>14. \A i \in 1 .. n + 4 : s[n + 9 + i] = r[i]
  <2> SUFFICES ASSUME NEW i \in 1 .. n + 4 PROVE s[n + 9 + i] = r[i]
    OBVIOUS
  <2>1. n + 9 + i \in 1 .. 2 * n + 13
    BY <1>1
  <2> QED BY <1>9, <1>10, <2>1
<1>15. s[2 * n + 14] = h[1] /\ s[2 * n + 15] = h[2]
  <2>1. (2 * n + 13) + 1 = 2 * n + 14 /\ (2 * n + 13) + 2 = 2 * n + 15 /\ {1, 2} \subseteq 1 .. 2
    BY <1>1
  <2> QED BY <1>10, <2>1
<1>16. \A i \in 1 .. n + 2 : s[6 + i + 1] = AppendTo("dns", RuleAt("dns", i))
  BY <1>1, <1>5, <1>13
<1>17. \A i \in 1 .. n + 3 : s[n + 9 + i + 1] = AppendTo("trans", RuleAt("trans", i))
  BY <1>1, <1>6, <1>14
<1>18. s[6 + 1] = Bare("new", "dns") /\ s[n + 9 + 1] = Bare("new", "trans")
  BY <1>1, <1>5, <1>6, <1>13, <1>14
<1>19. Total - 1 = 2 * n + 14
  BY <1>1
<1>20. \A c \in Chains :
         /\ s[Before(c) + 1] = Bare("new", c)
         /\ \A i \in 1 .. Size(c) : s[Before(c) + i + 1] = AppendTo(c, RuleAt(c, i))
  BY <1>2, <1>16, <1>17, <1>18 DEF Chains
<1> QED BY <1>1, <1>3, <1>4, <1>8a, <1>10, <1>11, <1>12, <1>15, <1>19, <1>20 DEF p

\* The numbers of commands.
LEMMA Sizes ==
  ASSUME bypass \in Seq(Uids)
  PROVE  /\ Len(bypass) \in Nat
         /\ Size("dns") = Len(bypass) + 2 /\ Size("trans") = Len(bypass) + 3
         /\ Before("dns") = 6 /\ Before("trans") = Len(bypass) + 9
         /\ Total = 2 * Len(bypass) + 15
BY LenProperties DEF Size, Before, Total

\* The commands of a clean-up and of a whole enable, by their place.
LEMMA CleanupAt ==
  /\ CleanupScript[1] = Bare("unhook", "dns") /\ CleanupScript[2] = Bare("unhook", "trans")
  /\ CleanupScript[3] = Bare("flush", "dns") /\ CleanupScript[4] = Bare("delete", "dns")
  /\ CleanupScript[5] = Bare("flush", "trans") /\ CleanupScript[6] = Bare("delete", "trans")
BY DEF CleanupScript

\* Every place of apply is one of the clean-up, of a chain or of the two jumps.
LEMMA CommandAt ==
  ASSUME bypass \in Seq(Uids), NEW d \in Nat, d < Total
  PROVE  \/ d < 6 /\ ApplyScript[d + 1] = CleanupScript[d + 1]
         \/ \E c \in Chains : d = Before(c) /\ ApplyScript[d + 1] = Bare("new", c)
         \/ \E c \in Chains : \E i \in 1 .. Size(c) :
              d = Before(c) + i /\ ApplyScript[d + 1] = AppendTo(c, RuleAt(c, i))
         \/ d = Total - 2 /\ ApplyScript[d + 1] = Bare("hook", "dns")
         \/ d = Total - 1 /\ ApplyScript[d + 1] = Bare("hook", "trans")
<1> DEFINE n == Len(bypass)
<1>1. /\ n \in Nat /\ Size("dns") = n + 2 /\ Size("trans") = n + 3
      /\ Before("dns") = 6 /\ Before("trans") = n + 9 /\ Total = 2 * n + 15
  BY Sizes
<1> HIDE DEF n
<1>2. CASE d < 6
  <2>1. d + 1 \in 1 .. 6
    BY <1>2
  <2> QED BY <1>2, <2>1, ScriptLaid
<1>3. CASE d = 6 \/ d = n + 9
  BY <1>1, <1>3, ScriptLaid DEF Chains
<1>4. CASE 6 < d /\ d < n + 9
  <2>1. d - 6 \in 1 .. Size("dns") /\ Before("dns") + (d - 6) = d
    BY <1>1, <1>4
  <2>2. "dns" \in Chains
    BY DEF Chains
  <2>3. ApplyScript[Before("dns") + (d - 6) + 1] = AppendTo("dns", RuleAt("dns", d - 6))
    BY <2>1, <2>2, ScriptLaid
  <2> QED BY <2>1, <2>2, <2>3
<1>5. CASE n + 9 < d /\ d < 2 * n + 13
  <2>1. d - (n + 9) \in 1 .. Size("trans") /\ Before("trans") + (d - (n + 9)) = d
    BY <1>1, <1>5
  <2>2. "trans" \in Chains
    BY DEF Chains
  <2>3. ApplyScript[Before("trans") + (d - (n + 9)) + 1]
          = AppendTo("trans", RuleAt("trans", d - (n + 9)))
    BY <2>1, <2>2, ScriptLaid
  <2> QED BY <2>1, <2>2, <2>3
<1>6. CASE d = 2 * n + 13 \/ d = 2 * n + 14
  <2>1. ApplyScript[Total - 1] = Bare("hook", "dns") /\ ApplyScript[Total] = Bare("hook", "trans")
    BY ScriptLaid
  <2> QED BY <1>1, <1>6, <2>1
<1> QED BY <1>1, <1>2, <1>3, <1>4, <1>5, <1>6

\* What is left of a script, and its next command.
LEMMA NextCommand ==
  ASSUME NEW s \in Seq(Commands), NEW d \in 0 .. Len(s)
  PROVE  /\ SubSeq(s, d + 1, Len(s)) = << >> <=> d = Len(s)
         /\ d # Len(s) => /\ Head(SubSeq(s, d + 1, Len(s))) = s[d + 1]
                          /\ Tail(SubSeq(s, d + 1, Len(s))) = SubSeq(s, d + 2, Len(s))
<1> DEFINE k == Len(s)
           todo == SubSeq(s, d + 1, k)
<1>1. k \in Nat /\ d \in Nat
  BY LenProperties
<1>2. CASE d = k
  <2>1. SubSeq(s, k + 1, k) = << >>
    BY <1>1
  <2> QED BY <1>2, <2>1
<1>3. CASE d # k
  <2>1. d + 1 \in 1 .. Len(s) /\ Len(s) \in d + 1 .. Len(s) /\ (d + 1) + 1 = d + 2
    BY <1>1, <1>3
  <2>2. Head(todo) = s[d + 1] /\ Tail(todo) = SubSeq(s, (d + 1) + 1, Len(s))
    BY <2>1, HeadTailOfSubSeq
  <2>3. Len(SubSeq(s, d + 1, Len(s))) = Len(s) - d
    BY <2>1, <1>1, SubSeqProperties
  <2>4. todo # << >>
    <3>1. Len(todo) # 0
      BY <1>1, <1>3, <2>3
    <3> HIDE DEF todo
    <3> QED BY <3>1, EmptySeq
  <2> QED BY <1>1, <1>3, <2>1, <2>2, <2>4
<1> QED BY <1>2, <1>3

\* An enable under way.
LEMMA EnableAt ==
  ASSUME bypass \in Seq(Uids), NEW d \in 0 .. Total, lock.todo = SubSeq(ApplyScript, d + 1, Total)
  PROVE  /\ lock.todo = << >> <=> d = Total
         /\ d # Total => /\ Head(lock.todo) = ApplyScript[d + 1]
                         /\ Tail(lock.todo) = SubSeq(ApplyScript, d + 2, Total)
<1>1. ApplyScript \in Seq(Commands) /\ Total = Len(ApplyScript)
  BY ScriptLaid
<1> DEFINE s == ApplyScript
<1> HIDE DEF s
<1>2. /\ SubSeq(s, d + 1, Len(s)) = << >> <=> d = Len(s)
      /\ d # Len(s) => /\ Head(SubSeq(s, d + 1, Len(s))) = s[d + 1]
                       /\ Tail(SubSeq(s, d + 1, Len(s))) = SubSeq(s, d + 2, Len(s))
  BY <1>1, NextCommand DEF s
<1> QED BY <1>1, <1>2 DEF s

\* A disable under way.
LEMMA DisableAt ==
  ASSUME bypass \in Seq(Uids), NEW d \in 0 .. 6, lock.todo = SubSeq(CleanupScript, d + 1, 6)
  PROVE  /\ lock.todo = << >> <=> d = 6
         /\ d # 6 => /\ Head(lock.todo) = CleanupScript[d + 1]
                     /\ Tail(lock.todo) = SubSeq(CleanupScript, d + 2, 6)
<1>1. CleanupScript \in Seq(Commands) /\ 6 = Len(CleanupScript)
  BY ScriptLaid
<1> DEFINE s == CleanupScript
<1> HIDE DEF s
<1>2. /\ SubSeq(s, d + 1, Len(s)) = << >> <=> d = Len(s)
      /\ d # Len(s) => /\ Head(SubSeq(s, d + 1, Len(s))) = s[d + 1]
                       /\ Tail(SubSeq(s, d + 1, Len(s))) = SubSeq(s, d + 2, Len(s))
  BY <1>1, NextCommand DEF s
<1> QED BY <1>1, <1>2 DEF s

\* A command the kernel carried out leaves chains, rules and jumps consistent.
LEMMA KernelConsistent ==
  ASSUME TypeOK, NEW cmd \in Commands, Feasible(cmd), nat' = Executed(cmd)
  PROVE  /\ nat' \in [made : SUBSET Chains, rules : [Chains -> Seq(Rules)], hooks : SUBSET Chains]
         /\ nat'.hooks \subseteq nat'.made
         /\ \A c \in Chains \ nat'.made : nat'.rules[c] = << >>
<1> DEFINE k == cmd.chain
<1>1. k \in Chains /\ cmd.rule \in Rules /\ cmd.act \in Acts
  BY DEF Commands
<1>2. /\ nat \in [made : SUBSET Chains, rules : [Chains -> Seq(Rules)], hooks : SUBSET Chains]
      /\ nat.hooks \subseteq nat.made
      /\ \A c \in Chains \ nat.made : nat.rules[c] = << >>
  BY DEF TypeOK
<1>3. nat.rules[k] \in Seq(Rules)
  BY <1>1, <1>2
<1>4. CASE cmd.act \in {"new", "delete", "hook", "unhook"}
  <2>1. CASE cmd.act = "new"
    BY <1>1, <1>2, <2>1 DEF Executed, Feasible
  <2>2. CASE cmd.act = "delete"
    BY <1>1, <1>2, <2>2 DEF Executed, Feasible
  <2>3. CASE cmd.act = "hook"
    BY <1>1, <1>2, <2>3 DEF Executed, Feasible
  <2>4. CASE cmd.act = "unhook"
    BY <1>1, <1>2, <2>4 DEF Executed, Feasible
  <2> QED BY <1>4, <2>1, <2>2, <2>3, <2>4
<1>5. ASSUME NEW r \in Seq(Rules), k \in nat.made, nat' = [nat EXCEPT !.rules[k] = r]
      PROVE  /\ nat' \in [made : SUBSET Chains, rules : [Chains -> Seq(Rules)], hooks : SUBSET Chains]
             /\ nat'.hooks \subseteq nat'.made
             /\ \A c \in Chains \ nat'.made : nat'.rules[c] = << >>
  BY <1>1, <1>2, <1>5
<1>6. CASE cmd.act = "flush"
  <2>1. << >> \in Seq(Rules) /\ k \in nat.made /\ nat' = [nat EXCEPT !.rules[k] = << >>]
    BY <1>6 DEF Executed, Feasible
  <2> QED BY <1>5, <2>1
<1>7. CASE cmd.act = "append"
  <2>1. Append(nat.rules[k], cmd.rule) \in Seq(Rules)
    BY <1>1, <1>3
  <2> QED BY <1>5, <1>7, <2>1 DEF Executed, Feasible
<1>8. CASE cmd.act = "insert"
  <2>1. nat.rules[k] # << >>
    BY <1>8 DEF Feasible
  <2>2. Inserted(nat.rules[k], cmd.rule) \in Seq(Rules)
    BY <1>1, <1>3, <2>1, InsertedSecond
  <2>3. k \in nat.made
    BY <1>1, <1>2, <2>1
  <2> QED BY <1>5, <1>8, <2>2, <2>3 DEF Executed
<1>9. CASE cmd.act = "drop"
  <2>1. Contains(nat.rules[k], cmd.rule)
    BY <1>9 DEF Feasible
  <2>2. RemoveFirst(nat.rules[k], cmd.rule) \in Seq(Rules)
    BY <1>3, <2>1, AfterRemoval
  <2>3. ~Contains(<< >>, cmd.rule)
    BY DEF Contains
  <2>4. k \in nat.made
    BY <1>1, <1>2, <2>1, <2>3
  <2> QED BY <1>5, <1>9, <2>2, <2>4 DEF Executed
<1> QED BY <1>1, <1>4, <1>6, <1>7, <1>8, <1>9 DEF Acts

(* Editing a chain that is in service. *)

\* An insertion behind the first rule adds u to the uids that are exempt.
LEMMA InsertExempts ==
  ASSUME NEW r \in Seq(Rules), NEW L, NEW sp, Exempts(r, L, sp), InOrder(r),
         NEW u \in Uids, u \notin L
  PROVE  /\ r # << >>
         /\ InOrder(Inserted(r, u))
         /\ Exempts(Inserted(r, u), L \cup {u}, sp)
<1> DEFINE t == Inserted(r, u)
<1>1. r # << >>
  <2>1. ~Contains(<< >>, "redirect")
    BY DEF Contains
  <2> QED BY <2>1 DEF Exempts
<1>2. u \in Rules /\ u # "redirect"
  BY NamesAssumption DEF Rules
<1>3. /\ \A v : Contains(t, v) <=> v = u \/ Contains(r, v)
      /\ \A v : v # u /\ Once(r, v) => Once(t, v)
      /\ ~Contains(r, u) => Once(t, u)
      /\ \A v : Twice(r, v) => Twice(t, v)
      /\ Contains(r, u) => Twice(t, u)
      /\ InOrder(t)
  BY <1>1, <1>2, AfterInsertion
<1> HIDE DEF t
<1>4. Contains(r, TorUid)
  BY DEF Exempts, InOrder
<1>5. ASSUME NEW v \in L \cup {u} PROVE Contains(t, v) /\ (v = TorUid => Twice(t, v))
  BY <1>3, <1>4, <1>5 DEF Exempts
<1>6. ASSUME NEW v \in Uids \ (sp \cup {TorUid})
      PROVE  Once(t, v) /\ (Contains(t, v) => v \in L \cup {u})
  BY <1>3, <1>6 DEF Exempts
<1>7. ASSUME NEW v \in sp \ {TorUid}
      PROVE  Contains(t, v) /\ (v \in L \cup {u} => Twice(t, v))
  BY <1>3, <1>7 DEF Exempts
<1> QED BY <1>1, <1>3, <1>5, <1>6, <1>7 DEF Exempts, t

\* A deletion of one rule for u takes u off the uids that are exempt.
LEMMA DropExempts ==
  ASSUME NEW r \in Seq(Rules), NEW L, NEW sp, Exempts(r, L, sp), InOrder(r),
         NEW u \in Uids, u \in L, Contains(r, u)
  PROVE  /\ InOrder(RemoveFirst(r, u))
         /\ Exempts(RemoveFirst(r, u), L \ {u}, sp)
<1> DEFINE t == RemoveFirst(r, u)
<1>1. u # "redirect"
  BY NamesAssumption
<1>2. /\ \A v : Contains(t, v) => Contains(r, v)
      /\ \A v : v # u /\ Contains(r, v) => Contains(t, v)
      /\ \A v : Once(r, v) => Once(t, v)
      /\ \A v : v # u /\ Twice(r, v) => Twice(t, v)
      /\ Once(r, u) => ~Contains(t, u)
      /\ Twice(r, u) => Contains(t, u)
      /\ OnlyLast(r) => OnlyLast(t)
  BY <1>1, AfterRemoval
<1> HIDE DEF t
<1>3. Contains(t, TorUid)
  BY <1>2 DEF Exempts, InOrder
<1>4. ASSUME NEW v \in Uids \ (sp \cup {TorUid})
      PROVE  Once(t, v) /\ (Contains(t, v) => v \in L \ {u})
  BY <1>2, <1>4 DEF Exempts
<1>5. ASSUME NEW v \in L \ {u} PROVE Contains(t, v) /\ (v = TorUid => Twice(t, v))
  BY <1>2, <1>5 DEF Exempts
<1>6. Contains(t, "redirect")
  BY <1>1, <1>2 DEF Exempts
<1>7. ASSUME NEW v \in sp \ {TorUid}
      PROVE  Contains(t, v) /\ (v \in L \ {u} => Twice(t, v))
  BY <1>2, <1>7 DEF Exempts
<1> QED BY <1>2, <1>3, <1>4, <1>5, <1>6, <1>7 DEF Exempts, InOrder, t

\* A uid that is no longer to be exempt and keeps its rule has left it behind.
LEMMA LeftExempts ==
  ASSUME NEW r, NEW L, NEW sp, Exempts(r, L, sp), NEW u \in L
  PROVE  Exempts(r, L \ {u}, sp \cup ({u} \ {TorUid}))
BY DEF Exempts

\* Additions to the list.
LEMMA ListGrows ==
  ASSUME NEW b \in Seq(Uids), NEW u \in Uids
  PROVE  /\ Append(b, u) \in Seq(Uids)
         /\ \A v : Contains(Append(b, u), v) <=> v = u \/ Contains(b, v)
         /\ ~Contains(b, u) => \A v : Once(b, v) => Once(Append(b, u), v)
<1> DEFINE t == Append(b, u)
<1>1. /\ t \in Seq(Uids) /\ Len(t) = Len(b) + 1
      /\ \A i \in 1 .. Len(b) : t[i] = b[i]
      /\ t[Len(b) + 1] = u
  BY AppendProperties
<1> HIDE DEF t
<1>2. Len(b) \in Nat
  BY LenProperties
<1>3. \A i \in 1 .. Len(t) : i \in 1 .. Len(b) \/ i = Len(b) + 1
  BY <1>1, <1>2
<1>4. (\A i \in 1 .. Len(b) : i \in 1 .. Len(t)) /\ Len(b) + 1 \in 1 .. Len(t)
  BY <1>1, <1>2
<1>5. \A v : Contains(t, v) <=> v = u \/ Contains(b, v)
  BY <1>1, <1>3, <1>4 DEF Contains
<1>6. ASSUME ~Contains(b, u), NEW v, Once(b, v) PROVE Once(t, v)
  BY <1>1, <1>3, <1>6 DEF Once, Contains
<1> QED BY <1>1, <1>5, <1>6 DEF t

\* Removals from the list.
LEMMA ListShrinks ==
  ASSUME NEW b \in Seq(Uids), NEW u \in Uids, Contains(b, u), Once(b, u)
  PROVE  /\ RemoveFirst(b, u) \in Seq(Uids)
         /\ \A v : Contains(RemoveFirst(b, u), v) <=> v # u /\ Contains(b, v)
         /\ \A v : Once(b, v) => Once(RemoveFirst(b, u), v)
BY AfterRemoval

(* The rules of a chain that is being built. *)

\* The rules of a script: its redirection comes last, and its uids are Tor's own
\* first and then those of the list.
LEMMA RuleKinds ==
  ASSUME bypass \in Seq(Uids), NEW c \in Chains, NEW i \in 1 .. Size(c)
  PROVE  /\ RuleAt(c, i) \in Rules
         /\ RuleAt(c, i) = "redirect" <=> i = Size(c)
         /\ i # 1 /\ RuleAt(c, i) \in Uids =>
              i - 1 \in 1 .. Len(bypass) /\ RuleAt(c, i) = bypass[i - 1]
<1> DEFINE n == Len(bypass)
<1>1. n \in Nat /\ Size(c) \in {n + 2, n + 3}
  BY Sizes DEF Chains
<1> HIDE DEF n
<1>2. CASE i = 1
  <2>1. RuleAt(c, i) = TorUid
    BY <1>2 DEF RuleAt
  <2>2. i # Size(c)
    BY <1>1, <1>2
  <2> QED BY <1>2, <2>1, <2>2, NamesAssumption DEF Rules
<1>3. CASE i # 1 /\ i <= n + 1
  <2>1. i - 1 \in 1 .. n /\ i # Size(c)
    BY <1>1, <1>3
  <2>2. RuleAt(c, i) = bypass[i - 1] /\ bypass[i - 1] \in Uids
    BY <1>3, <2>1 DEF RuleAt, n
  <2>3. RuleAt(c, i) # "redirect"
    BY <2>2, NamesAssumption
  <2> QED BY <2>1, <2>2, <2>3 DEF Rules, n
<1>4. CASE ~(i <= n + 1)
  <2>1. i # 1
    BY <1>1, <1>4
  <2>2. RuleAt(c, i) = IF i = Size(c) THEN "redirect" ELSE "local"
    BY <1>4, <2>1 DEF RuleAt, n
  <2>3. "local" # "redirect" /\ RuleAt(c, i) \notin Uids
    BY <2>2, NamesAssumption
  <2> QED BY <2>2, <2>3 DEF Rules
<1> QED BY <1>2, <1>3, <1>4

\* The first k rules of a script are in order.
LEMMA BuiltInOrder ==
  ASSUME bypass \in Seq(Uids), NEW c \in Chains, NEW r, NEW k \in 0 .. Size(c),
         Len(r) = k, \A i \in 1 .. k : r[i] = RuleAt(c, i)
  PROVE  InOrder(r)
<1>1. Size(c) \in Nat /\ k \in Nat
  BY Sizes DEF Chains
<1>2. \A i \in 1 .. k : i \in 1 .. Size(c)
  BY <1>1
<1>3. \A i \in 1 .. k : r[i] = "redirect" => i = k
  <2> SUFFICES ASSUME NEW i \in 1 .. k, r[i] = "redirect" PROVE i = k
    OBVIOUS
  <2>1. i = Size(c)
    BY <1>2, RuleKinds
  <2> QED BY <1>1, <2>1
<1>4. Contains(r, "redirect") => Contains(r, TorUid)
  <2> SUFFICES ASSUME NEW i \in 1 .. k, r[i] = "redirect" PROVE Contains(r, TorUid)
    BY DEF Contains
  <2>1. 1 \in 1 .. k
    BY <1>1
  <2> QED BY <2>1 DEF Contains, RuleAt
<1> QED BY <1>3, <1>4 DEF InOrder, OnlyLast

\* A chain that is complete exempts exactly the uids on the list.
LEMMA BuiltExempts ==
  ASSUME bypass \in Seq(Uids), NoneTwice, NEW c \in Chains, NEW r,
         Len(r) = Size(c), \A i \in 1 .. Size(c) : r[i] = RuleAt(c, i)
  PROVE  Exempts(r, {u \in Uids : Contains(bypass, u)}, {})
<1> DEFINE n == Len(bypass)
<1>1. n \in Nat /\ Size(c) \in {n + 2, n + 3}
  BY Sizes DEF Chains
<1>2. Size(c) \in 1 .. Size(c) /\ 1 \in 1 .. Size(c)
  BY <1>1
<1>3. Contains(r, "redirect")
  BY <1>2, RuleKinds DEF Contains
<1>4. ASSUME NEW u \in Uids, Contains(bypass, u)
      PROVE  Contains(r, u) /\ (u = TorUid => Twice(r, u))
  <2>1. PICK j \in 1 .. n : bypass[j] = u
    BY <1>4 DEF Contains
  <2>2. j + 1 \in 1 .. Size(c) /\ (j + 1) - 1 = j /\ j + 1 # 1 /\ j + 1 <= n + 1 /\ 1 < j + 1
    BY <1>1
  <2>3. r[j + 1] = u
    BY <2>1, <2>2 DEF RuleAt
  <2>4. r[1] = TorUid
    BY <1>2 DEF RuleAt
  <2> QED BY <1>2, <2>2, <2>3, <2>4 DEF Contains, Twice
<1>5. ASSUME NEW u \in Uids \ {TorUid}, NEW i \in 1 .. Size(c), r[i] = u
      PROVE  i - 1 \in 1 .. n /\ bypass[i - 1] = u
  <2>1. i # 1
    BY <1>5 DEF RuleAt
  <2> QED BY <1>5, <2>1, RuleKinds
<1>6. ASSUME NEW u \in Uids \ {TorUid} PROVE Once(r, u)
  <2> SUFFICES ASSUME NEW i \in 1 .. Size(c), NEW j \in 1 .. Size(c), r[i] = u, r[j] = u
               PROVE  i = j
    BY DEF Once
  <2>1. i - 1 \in 1 .. n /\ j - 1 \in 1 .. n /\ bypass[i - 1] = u /\ bypass[j - 1] = u
    BY <1>5
  <2>2. i - 1 = j - 1
    BY <2>1 DEF NoneTwice, Once
  <2> QED BY <2>2
<1>7. ASSUME NEW u \in Uids \ {TorUid}, Contains(r, u) PROVE Contains(bypass, u)
  BY <1>5, <1>7 DEF Contains
<1> QED BY <1>3, <1>4, <1>6, <1>7 DEF Exempts

Locks == [op : Ops, uid : Uids \cup {TorUid}, ok : BOOLEAN, todo : Seq(Commands)]

\* A mutex nobody holds.
LEMMA FreeTyped == Free \in Locks /\ Free.op = "free" /\ Free.todo = << >>
BY DEF Free, Holder, Locks, Ops

\* The first start satisfies the invariant.
LEMMA Initially == Init => Inv
<1> SUFFICES ASSUME Init PROVE Inv
  OBVIOUS
<1>1. TypeOK
  <2>1. lock \in Locks /\ ~Working
    BY FreeTyped DEF Init, Working
  <2>2. mgr \in [running : BOOLEAN, circuit : BOOLEAN]
    BY DEF Init, Stopped
  <2>3. /\ nat \in [made : SUBSET Chains, rules : [Chains -> Seq(Rules)], hooks : SUBSET Chains]
        /\ nat.hooks \subseteq nat.made /\ \A c \in Chains \ nat.made : nat.rules[c] = << >>
    BY DEF Init
  <2>4. bypass \in Seq(Uids)
    BY DEF Init
  <2> QED BY <2>1, <2>2, <2>3, <2>4 DEF Init, TypeOK, Locks, Commands
<1>2. \A c \in Chains : nat.rules[c] = << >>
  BY DEF Init
<1>3. lock.op = "free" /\ ~mgr.running /\ bypass = << >>
  BY DEF Init, Free, Holder, Stopped
<1>4. RulesInOrder
  BY <1>2 DEF RulesInOrder, InOrder, OnlyLast, Contains
<1>5. NoneTwice
  BY <1>3 DEF NoneTwice, Once
<1>6. DirectIsClean
  BY <1>3 DEF Init, DirectIsClean
<1> QED
  BY <1>1, <1>3, <1>4, <1>5, <1>6
  DEF Inv, OpsKnow, EnableGoesOn, DisableGoesOn, EditGoesOn, Complete, InService

(* What does not depend on the commands under way. *)

\* The script and what is said of it depend on the bypass list only.
LEMMA SameScript ==
  ASSUME bypass' = bypass
  PROVE  /\ ApplyScript' = ApplyScript /\ Total' = Total
         /\ \A c \in Chains : Size(c)' = Size(c) /\ Before(c)' = Before(c)
         /\ \A c \in Chains : \A i : RuleAt(c, i)' = RuleAt(c, i)
<1>1. \A c \in Chains : Size(c)' = Size(c) /\ Before(c)' = Before(c)
  BY DEF Size, Before
<1> QED BY <1>1 DEF Total, RuleAt, ApplyScript, ChainScript

\* Rules that stay as they are stay in order.
LEMMA OrderStays ==
  ASSUME RulesInOrder, nat'.rules = nat.rules
  PROVE  RulesInOrder'
BY DEF RulesInOrder

\* A list that stays names nobody twice.
LEMMA ListStays ==
  ASSUME NoneTwice, bypass' = bypass
  PROVE  NoneTwice'
BY DEF NoneTwice

\* A chain is judged by the same uids unless an edit of it ends.
LEMMA ServiceStays ==
  ASSUME Complete, InService' => InService, nat' = nat, bypass' = bypass, stray' = stray,
         \A c \in Chains : ~Edited(c) /\ ~Edited(c)'
  PROVE  Complete'
<1>1. \A c \in Chains : Listed(c)' = Listed(c)
  BY DEF Listed
<1> QED BY <1>1 DEF Complete, Exact

(* Cleaning up. *)

\* A command of the clean-up that works, or has nothing to do, cleans.
LEMMA CleanStep ==
  ASSUME TypeOK, NEW d \in 0 .. 5, Cleaned(d),
         \/ Feasible(CleanupScript[d + 1]) /\ nat' = Executed(CleanupScript[d + 1])
         \/ ~Feasible(CleanupScript[d + 1]) /\ nat' = nat
  PROVE  Cleaned(d + 1)'
<1> DEFINE cmd == CleanupScript[d + 1]
<1>1. /\ nat \in [made : SUBSET Chains, rules : [Chains -> Seq(Rules)], hooks : SUBSET Chains]
      /\ nat.hooks \subseteq nat.made
      /\ \A c \in Chains \ nat.made : nat.rules[c] = << >>
      /\ "dns" \in Chains /\ "trans" \in Chains
  BY DEF TypeOK, Chains
<1>2. \/ Feasible(cmd) /\ nat' = Executed(cmd)
      \/ ~Feasible(cmd) /\ nat' = nat
  OBVIOUS
<1> HIDE DEF cmd
<1>3. CASE d = 0
  <2>1. cmd = Cmd("unhook", "dns", "redirect")
    BY <1>3, CleanupAt DEF cmd, Bare
  <2>2. "dns" \notin nat'.hooks
    BY <1>1, <1>2, <2>1 DEF Cmd, Feasible, Executed
  <2> QED BY <1>3, <2>2 DEF Cleaned
<1>4. CASE d = 1
  <2>1. cmd = Cmd("unhook", "trans", "redirect")
    BY <1>4, CleanupAt DEF cmd, Bare
  <2>2. "dns" \notin nat'.hooks /\ "trans" \notin nat'.hooks
    BY <1>1, <1>2, <1>4, <2>1 DEF Cmd, Feasible, Executed, Cleaned
  <2> QED BY <1>4, <2>2 DEF Cleaned
<1>5. CASE d = 2
  <2>1. cmd = Cmd("flush", "dns", "redirect")
    BY <1>5, CleanupAt DEF cmd, Bare
  <2>2. nat'.hooks = nat.hooks /\ nat'.rules["dns"] = << >>
    BY <1>1, <1>2, <2>1 DEF Cmd, Feasible, Executed
  <2> QED BY <1>5, <2>2 DEF Cleaned
<1>6. CASE d = 3
  <2>1. cmd = Cmd("delete", "dns", "redirect")
    BY <1>6, CleanupAt DEF cmd, Bare
  <2>2. nat'.hooks = nat.hooks /\ nat'.rules = nat.rules /\ "dns" \notin nat'.made
    BY <1>1, <1>2, <1>6, <2>1 DEF Cmd, Feasible, Executed, Cleaned
  <2> QED BY <1>6, <2>2 DEF Cleaned
<1>7. CASE d = 4
  <2>1. cmd = Cmd("flush", "trans", "redirect")
    BY <1>7, CleanupAt DEF cmd, Bare
  <2>2. /\ nat'.hooks = nat.hooks /\ nat'.made = nat.made
        /\ nat'.rules["trans"] = << >> /\ nat'.rules["dns"] = nat.rules["dns"]
    BY <1>1, <1>2, <2>1 DEF Cmd, Feasible, Executed
  <2> QED BY <1>7, <2>2 DEF Cleaned
<1>8. CASE d = 5
  <2>1. cmd = Cmd("delete", "trans", "redirect")
    BY <1>8, CleanupAt DEF cmd, Bare
  <2>2. /\ nat'.hooks = nat.hooks /\ nat'.rules = nat.rules
        /\ "trans" \notin nat'.made /\ nat'.made \subseteq nat.made
    BY <1>1, <1>2, <1>8, <2>1 DEF Cmd, Feasible, Executed, Cleaned
  <2> QED BY <1>8, <2>2 DEF Cleaned
<1> QED BY <1>3, <1>4, <1>5, <1>6, <1>7, <1>8

\* Every command of a clean-up may fail without an end to it, and none of them
\* puts a rule in.
LEMMA CleanKeeps ==
  ASSUME TypeOK, RulesInOrder, NEW d \in 0 .. 5
  PROVE  /\ Ignored(CleanupScript[d + 1].act)
         /\ nat' = Executed(CleanupScript[d + 1]) => RulesInOrder'
<1> DEFINE cmd == CleanupScript[d + 1]
<1>1. cmd.act \in {"unhook", "flush", "delete"} /\ cmd.chain \in Chains
  BY CleanupAt DEF Bare, Cmd, Chains
<1> HIDE DEF cmd
<1>2. Ignored(cmd.act)
  BY <1>1 DEF Ignored
<1>3. nat.rules \in [Chains -> Seq(Rules)]
      /\ nat \in [made : SUBSET Chains, rules : [Chains -> Seq(Rules)], hooks : SUBSET Chains]
  BY DEF TypeOK
<1>4. InOrder(<< >>)
  BY DEF InOrder, OnlyLast, Contains
<1>5. ASSUME nat' = Executed(cmd) PROVE RulesInOrder'
  <2>1. CASE cmd.act = "flush"
    <3>1. nat'.rules = [nat.rules EXCEPT ![cmd.chain] = << >>]
      BY <1>3, <1>5, <2>1 DEF Executed
    <3> QED BY <1>1, <1>3, <1>4, <3>1 DEF RulesInOrder
  <2>2. CASE cmd.act \in {"unhook", "delete"}
    <3>1. nat'.rules = nat.rules
      BY <1>3, <1>5, <2>2 DEF Executed
    <3> QED BY <3>1, OrderStays
  <2> QED BY <1>1, <2>1, <2>2
<1> QED BY <1>2, <1>5 DEF cmd

(* One command of an enable. *)

\* A command of apply that works takes the script one place further.
LEMMA EnableStep ==
  ASSUME TypeOK, RulesInOrder, NEW d \in 0 .. Total, d # Total, Progress(d),
         Feasible(ApplyScript[d + 1]), nat' = Executed(ApplyScript[d + 1]),
         bypass' = bypass, lock'.ok = lock.ok, lock'.todo = Tail(lock.todo)
  PROVE  RulesInOrder' /\ Progress(d + 1)'
<1> DEFINE n == Len(bypass)
           cmd == ApplyScript[d + 1]
<1>1. /\ n \in Nat /\ Size("dns") = n + 2 /\ Size("trans") = n + 3
      /\ Before("dns") = 6 /\ Before("trans") = n + 9 /\ Total = 2 * n + 15
  BY Sizes DEF TypeOK
<1>2. d \in Nat /\ d < Total /\ (d + 1) + 1 = d + 2
  BY <1>1
<1>3. bypass \in Seq(Uids)
  BY DEF TypeOK
<1>4. lock'.todo = SubSeq(ApplyScript, d + 2, Total)
  BY <1>3, EnableAt DEF Progress
<1>5. /\ \A c \in Chains : nat.rules[c] \in Seq(Rules) /\ Len(nat.rules[c]) \in Nat
      /\ nat \in [made : SUBSET Chains, rules : [Chains -> Seq(Rules)], hooks : SUBSET Chains]
      /\ nat.hooks \subseteq nat.made
      /\ \A c \in Chains \ nat.made : nat.rules[c] = << >>
  BY DEF TypeOK
<1>6. /\ "dns" \in Chains /\ "trans" \in Chains /\ "dns" # "trans"
      /\ \A c \in Chains : c = "dns" \/ c = "trans"
  BY DEF Chains
<1>7. \A c \in Chains : Built(c, d)
  BY DEF Progress
<1>8. lock.ok => IF d <= 6 THEN Cleaned(d) ELSE d <= Before("trans") => "trans" \notin nat.made
  BY DEF Progress
<1>9. d >= Total - 1 => "dns" \in nat.hooks
  BY DEF Progress
<1>10. Feasible(cmd) /\ nat' = Executed(cmd)
  OBVIOUS
<1>11. /\ ApplyScript' = ApplyScript /\ Total' = Total
       /\ \A c \in Chains : Size(c)' = Size(c) /\ Before(c)' = Before(c)
       /\ \A c \in Chains : \A i : RuleAt(c, i)' = RuleAt(c, i)
  BY SameScript
<1> DEFINE Length(c) == IF d + 1 <= Before(c) + Size(c) THEN d - Before(c) ELSE Size(c)
<1> DEFINE Filled(c) == d + 1 > Before(c) =>
             /\ c \in nat'.made /\ Len(nat'.rules[c]) = Length(c)
             /\ \A i \in 1 .. Length(c) : nat'.rules[c][i] = RuleAt(c, i)
           Goes == lock.ok => IF d + 1 <= 6 THEN Cleaned(d + 1)'
                              ELSE d + 1 <= Before("trans") => "trans" \notin nat'.made
           Hooked == /\ d + 1 >= Total - 1 => "dns" \in nat'.hooks
                     /\ d + 1 >= Total => "trans" \in nat'.hooks
           Goal == RulesInOrder' /\ (\A c \in Chains : Filled(c)) /\ Goes /\ Hooked
<1>12. SUFFICES Goal
  <2>1. /\ Size("dns")' = n + 2 /\ Size("trans")' = n + 3
        /\ Before("dns")' = 6 /\ Before("trans")' = n + 9
    BY <1>1, <1>6, <1>11
  <2>2. ASSUME NEW c \in Chains, Filled(c)
        PROVE  Built(c, d + 1)'
    <3>1. Before(c)' = Before(c) /\ Size(c)' = Size(c) /\ \A i : RuleAt(c, i)' = RuleAt(c, i)
      BY <1>11
    <3>2. Before(c) \in Nat /\ (d + 1) - Before(c) - 1 = d - Before(c)
      BY <1>1, <1>2, <1>6
    <3> QED BY <2>2, <3>1, <3>2 DEF Built
  <2>3. lock'.todo = SubSeq(ApplyScript', (d + 1) + 1, Total')
    BY <1>2, <1>4, <1>11
  <2> QED BY <1>11, <2>1, <1>1, <2>2, <2>3 DEF Progress
<1>13. \A c \in Chains : c # "dns" => d < Before(c) + 1 \/ d > 6 + Size("dns")
  BY <1>1, <1>2, <1>6
<1> HIDE DEF n, cmd, Filled, Goes, Hooked, Goal
<1>14. CASE d < 6 /\ cmd = CleanupScript[d + 1]
  <2>1. d \in 0 .. 5
    BY <1>2, <1>14
  <2>2. RulesInOrder'
    BY <1>10, <1>14, <2>1, CleanKeeps
  <2>3. lock.ok => Cleaned(d + 1)'
    BY <1>8, <1>10, <1>14, <2>1, CleanStep
  <2>4. ~(d + 1 >= Total - 1) /\ d + 1 <= 6 /\ \A c \in Chains : ~(d + 1 > Before(c))
    BY <1>1, <1>6, <2>1
  <2>5. (\A c \in Chains : Filled(c)) /\ Hooked
    BY <1>1, <1>2, <2>4 DEF Filled, Hooked
  <2>6. Goes
    BY <2>3, <2>4 DEF Goes
  <2> QED BY <2>2, <2>5, <2>6 DEF Goal
<1>15. ASSUME NEW c \in Chains, d = Before(c), cmd = Bare("new", c)
       PROVE  Goal
  <2>1. /\ c \notin nat.made /\ nat'.made = nat.made \cup {c}
        /\ nat'.rules = nat.rules /\ nat'.hooks = nat.hooks
    <3>1. cmd.act = "new" /\ cmd.chain = c
      BY <1>15 DEF Bare, Cmd
    <3> QED BY <1>5, <1>10, <3>1 DEF Feasible, Executed
  <2>2. RulesInOrder'
    BY <2>1, OrderStays
  <2>3. Length(c) = 0 /\ nat'.rules[c] = << >> /\ c \in nat'.made /\ Len(<< >>) = 0
    <3>1. d - Before(c) = 0 /\ d + 1 <= Before(c) + Size(c)
      BY <1>1, <1>6, <1>15
    <3>2. Length(c) = 0
      BY <3>1
    <3> HIDE DEF Length
    <3>3. nat'.rules[c] = << >> /\ c \in nat'.made
      BY <1>5, <2>1
    <3> QED BY <3>2, <3>3
  <2>3a. Filled(c)
    <3>1. 1 .. 0 = {}
      OBVIOUS
    <3> QED BY <2>3, <3>1 DEF Filled
  <2>4. ~(d + 1 >= Total - 1) /\ ~(d + 1 <= 6) /\ Hooked
    <3>1. ~(d + 1 >= Total - 1) /\ ~(d + 1 <= 6) /\ ~(d + 1 >= Total)
      BY <1>1, <1>6, <1>15
    <3> QED BY <3>1 DEF Hooked
  <2>5. CASE c = "dns"
    <3>1. d = 6 /\ ~(d + 1 > Before("trans"))
      BY <1>1, <1>15, <2>5
    <3>2. lock.ok => "trans" \notin nat'.made
      BY <1>6, <1>8, <2>1, <2>5, <3>1 DEF Cleaned
    <3>3. Filled("trans") /\ Goes
      BY <2>4, <3>1, <3>2 DEF Filled, Goes
    <3> QED BY <1>6, <2>2, <2>3a, <2>4, <2>5, <3>3 DEF Goal
  <2>6. CASE c = "trans"
    <3>1. ~(d + 1 <= Before("trans")) /\ Length("dns") = Size("dns") /\ d > Before("dns")
          /\ ~(d <= Before("dns") + Size("dns"))
      BY <1>1, <1>15, <2>6
    <3>2. Built("dns", d)
      BY <1>6, <1>7
    <3>3. Filled("dns")
      BY <1>6, <2>1, <3>1, <3>2 DEF Filled, Built
    <3>4. Goes
      BY <2>4, <3>1 DEF Goes
    <3> QED BY <1>6, <2>2, <2>3a, <2>4, <2>6, <3>3, <3>4 DEF Goal
  <2> QED BY <1>6, <2>5, <2>6
<1>16. ASSUME NEW c \in Chains, NEW i \in 1 .. Size(c), d = Before(c) + i,
              cmd = AppendTo(c, RuleAt(c, i))
       PROVE  Goal
  <2> DEFINE r == nat.rules[c]
             e == RuleAt(c, i)
             t == Append(r, e)
  <2>1. /\ nat'.made = nat.made /\ nat'.hooks = nat.hooks
        /\ nat'.rules = [nat.rules EXCEPT ![c] = t]
    BY <1>5, <1>10, <1>16 DEF AppendTo, Cmd, Executed
  <2>2. i \in Nat /\ d > Before(c) /\ d <= Before(c) + Size(c) /\ d - Before(c) - 1 = i - 1
        /\ d - Before(c) = i
    BY <1>1, <1>6, <1>16
  <2>3. c \in nat.made /\ Len(r) = i - 1 /\ \A j \in 1 .. i - 1 : r[j] = RuleAt(c, j)
    BY <1>7, <2>2 DEF Built
  <2>4. e \in Rules
    BY <1>3, RuleKinds
  <2>5. Len(t) = i /\ \A j \in 1 .. i : t[j] = RuleAt(c, j)
    <3>1. /\ Len(t) = Len(r) + 1 /\ t[Len(r) + 1] = e /\ \A j \in 1 .. Len(r) : t[j] = r[j]
      BY <1>5, <2>4, AppendProperties
    <3> HIDE DEF t, r
    <3>2. Len(r) + 1 = i /\ \A j \in 1 .. i : j \in 1 .. Len(r) \/ j = i
      BY <2>2, <2>3
    <3> QED BY <2>3, <3>1, <3>2
  <2> HIDE DEF t, r, e
  <2>6. InOrder(t)
    <3>1. i \in 0 .. Size(c)
      BY <2>2, <1>16
    <3> QED BY <1>3, <2>5, <3>1, BuiltInOrder
  <2>7. nat'.rules[c] = t /\ \A k \in Chains : k # c => nat'.rules[k] = nat.rules[k]
    BY <1>5, <2>1
  <2>8. RulesInOrder'
    BY <2>6, <2>7 DEF RulesInOrder
  <2>9. Length(c) = i
    BY <1>1, <1>6, <1>16, <2>2
  <2>9a. Filled(c)
    BY <2>1, <2>3, <2>5, <2>7, <2>9 DEF Filled
  <2>10. ~(d + 1 <= 6) /\ Hooked
    <3>1. ~(d + 1 >= Total - 1) /\ ~(d + 1 <= 6) /\ ~(d + 1 >= Total)
      BY <1>1, <1>6, <1>16
    <3> QED BY <3>1 DEF Hooked
  <2>11. CASE c = "dns"
    <3>1. d > 6 /\ d <= Before("trans") /\ ~(d + 1 > Before("trans")) /\ ~(d <= 6)
      BY <1>1, <1>16, <2>2, <2>11
    <3>2. lock.ok => "trans" \notin nat'.made
      BY <1>8, <2>1, <3>1
    <3>3. Filled("trans") /\ Goes
      BY <2>10, <3>1, <3>2 DEF Filled, Goes
    <3> QED BY <1>6, <2>8, <2>9a, <2>10, <2>11, <3>3 DEF Goal
  <2>12. CASE c = "trans"
    <3>1. ~(d + 1 <= Before("trans")) /\ Length("dns") = Size("dns") /\ d > Before("dns")
          /\ ~(d <= Before("dns") + Size("dns"))
      BY <1>1, <1>16, <2>2, <2>12
    <3>2. Built("dns", d) /\ nat'.rules["dns"] = nat.rules["dns"]
      BY <1>6, <1>7, <2>7, <2>12
    <3>3. Filled("dns")
      BY <1>6, <2>1, <3>1, <3>2 DEF Filled, Built
    <3>4. Goes
      BY <2>10, <3>1 DEF Goes
    <3> QED BY <1>6, <2>8, <2>9a, <2>10, <2>12, <3>3, <3>4 DEF Goal
  <2> QED BY <1>6, <2>11, <2>12
<1>17. ASSUME NEW c \in Chains, c = "dns" => d = Total - 2, c = "trans" => d = Total - 1,
              cmd = Bare("hook", c)
       PROVE  Goal
  <2>1. /\ nat'.made = nat.made /\ nat'.rules = nat.rules /\ nat'.hooks = nat.hooks \cup {c}
    BY <1>5, <1>10, <1>17 DEF Bare, Cmd, Executed
  <2>2. RulesInOrder'
    BY <2>1, OrderStays
  <2>3. ~(d + 1 <= Before("trans")) /\ ~(d + 1 <= 6)
    BY <1>1, <1>6, <1>17
  <2>4. \A k \in Chains : /\ d > Before(k) /\ ~(d <= Before(k) + Size(k))
                          /\ ~(d + 1 <= Before(k) + Size(k))
    BY <1>1, <1>6, <1>17
  <2>5. \A k \in Chains : Filled(k)
    BY <1>7, <2>1, <2>4 DEF Filled, Built
  <2>6. (d + 1 >= Total - 1 => "dns" \in nat'.hooks) /\ (d + 1 >= Total => "trans" \in nat'.hooks)
    BY <1>1, <1>2, <1>6, <1>9, <1>17, <2>1
  <2>7. Goes /\ Hooked
    BY <2>3, <2>6 DEF Goes, Hooked
  <2> QED BY <2>2, <2>5, <2>7 DEF Goal
<1> QED BY <1>2, <1>3, <1>6, <1>12, <1>14, <1>15, <1>16, <1>17, CommandAt DEF cmd

(* Steps that change no rule, no list and nothing under way. *)

\* Steps of Tor and of the monitor's answer.
LEMMA Aside ==
  ASSUME Inv, UNCHANGED <<mgr, bypass, nat, lock, stray, direct>>,
         tor' \in {"none", "booting", "up", "hung"}, orphan' \in BOOLEAN,
         mon' \in {"wait", "ask", "good", "bad"}
  PROVE  Inv'
<1>1. TypeOK'
  BY DEF Inv, TypeOK, Working
<1>2. RulesInOrder' /\ NoneTwice'
  BY OrderStays, ListStays DEF Inv
<1>3. OpsKnow' /\ DirectIsClean' /\ DisableGoesOn'
  BY DEF Inv, OpsKnow, DirectIsClean, DisableGoesOn, Cleaned
<1>4. EnableGoesOn'
  <2> SUFFICES ASSUME lock.op = "enable" PROVE \E d \in 0 .. Total' : Progress(d)'
    BY DEF EnableGoesOn
  <2>1. PICK d \in 0 .. Total : Progress(d)
    BY DEF Inv, EnableGoesOn
  <2>2. Progress(d)'
    BY <2>1 DEF Progress, Built, Cleaned, ApplyScript, ChainScript, Total, Size, Before, RuleAt
  <2> QED BY <2>2 DEF Total
<1>5. EditGoesOn'
  BY DEF Inv, EditGoesOn, AddScript, DropScript
<1>6. Complete'
  BY DEF Inv, Complete, InService, Exact, Listed, Edited
<1> QED BY <1>1, <1>2, <1>3, <1>4, <1>5, <1>6 DEF Inv

\* Steps that leave rules and list alone and hold no commands afterwards.
LEMMA Quiet ==
  ASSUME Inv, UNCHANGED <<bypass, nat, stray>>,
         lock.op \notin {"add", "remove"},
         lock' \in Locks, lock'.todo = << >>,
         lock'.op \in {"free", "boot", "control", "monitor", "rollback"},
         mgr' \in [running : BOOLEAN, circuit : BOOLEAN],
         InService' => InService,
         tor' \in {"none", "booting", "up", "hung"}, orphan' \in BOOLEAN,
         mon' \in {"wait", "ask", "good", "bad"}, direct' \in BOOLEAN,
         OpsKnow', DirectIsClean'
  PROVE  Inv'
<1>1. TypeOK'
  BY DEF Inv, TypeOK, Working, Locks, Commands
<1>2. RulesInOrder' /\ NoneTwice'
  BY OrderStays, ListStays DEF Inv
<1>3. EnableGoesOn' /\ DisableGoesOn' /\ EditGoesOn'
  BY DEF EnableGoesOn, DisableGoesOn, EditGoesOn
<1>4. Complete'
  <2>1. \A c \in Chains : ~Edited(c) /\ ~Edited(c)'
    BY DEF Edited
  <2> QED BY <2>1, ServiceStays DEF Inv
<1> QED BY <1>1, <1>2, <1>3, <1>4 DEF Inv

\* The steps of that kind keep the invariant.
LEMMA QuietSteps ==
  ASSUME Inv,
         \/ Enable \/ BootstrapFails \/ Stops \/ NewCircuit \/ ControlEnds
         \/ MonitorTicks \/ MonitorAsks \/ MonitorHears \/ MonitorTells
  PROVE  Inv'
<1> USE DEF Inv
<1>1. /\ mgr \in [running : BOOLEAN, circuit : BOOLEAN]
      /\ tor \in {"none", "booting", "up", "hung"} /\ orphan \in BOOLEAN
      /\ mon \in {"wait", "ask", "good", "bad"} /\ direct \in BOOLEAN
      /\ lock \in Locks
      /\ lock.todo # << >> => lock.op \in {"enable", "disable", "add", "remove"}
  BY DEF TypeOK, Working, Locks, Commands
<1>2. /\ << >> \in Seq(Commands) /\ TorUid \in Uids \cup {TorUid}
      /\ {"boot", "control", "monitor"} \subseteq Ops
  BY DEF Ops
<1>3. ASSUME NEW op \in Ops
      PROVE  /\ Holder(op, TorUid, << >>) \in Locks
             /\ Holder(op, TorUid, << >>).op = op
             /\ Holder(op, TorUid, << >>).todo = << >>
  <2> HIDE DEF Inv
  <2> QED BY <1>2 DEF Holder, Locks
<1>4. CASE Enable
  <2>1. lock' \in Locks /\ lock'.op = "boot" /\ lock'.todo = << >>
    BY <1>2, <1>3, <1>4 DEF Enable
  <2>2. OpsKnow' /\ DirectIsClean' /\ ~InService'
    BY <1>4, <2>1 DEF Enable, OpsKnow, DirectIsClean, InService
  <2> QED BY <1>1, <1>4, <2>1, <2>2, Quiet DEF Enable, LockFree
<1>5. CASE BootstrapFails
  <2>1. lock' \in Locks /\ lock'.op = "free" /\ lock'.todo = << >>
    BY <1>5, FreeTyped DEF BootstrapFails
  <2>2. OpsKnow' /\ DirectIsClean' /\ ~InService'
    BY <1>5, <2>1 DEF BootstrapFails, OpsKnow, DirectIsClean, InService
  <2> QED BY <1>1, <1>5, <2>1, <2>2, Quiet DEF BootstrapFails
<1>6. CASE Stops
  <2>1. lock' \in Locks /\ lock'.op = "free" /\ lock'.todo = << >>
    BY <1>6, FreeTyped DEF Stops
  <2>2. mgr' \in [running : BOOLEAN, circuit : BOOLEAN] /\ ~mgr'.running
    BY <1>1, <1>6 DEF Stops, Stopped
  <2>3. direct' => nat.hooks = {} /\ nat.made = {}
    <3> SUFFICES ASSUME lock.op = "disable", lock.ok PROVE nat.hooks = {} /\ nat.made = {}
      BY <1>6 DEF Stops
    <3>1. PICK d \in 0 .. 6 : lock.todo = SubSeq(CleanupScript, d + 1, 6) /\ Cleaned(d)
      BY DEF DisableGoesOn
    <3>2. d = 6
      BY <1>6, <3>1, DisableAt DEF Stops, Working, TypeOK
    <3>3. {"dns", "trans"} \cap nat.hooks = {} /\ {"dns", "trans"} \cap nat.made = {}
      BY <3>1, <3>2 DEF Cleaned
    <3>4. nat.hooks \in SUBSET Chains /\ nat.made \in SUBSET Chains
      BY DEF TypeOK
    <3> QED BY <3>3, <3>4 DEF Chains
  <2>4. OpsKnow' /\ DirectIsClean' /\ ~InService'
    BY <1>6, <2>1, <2>2, <2>3 DEF Stops, OpsKnow, DirectIsClean, InService
  <2>5. direct' \in BOOLEAN /\ tor' \in {"none", "booting", "up", "hung"}
    BY <1>1, <1>6 DEF Stops
  <2> QED BY <1>1, <1>6, <2>1, <2>2, <2>4, <2>5, Quiet DEF Stops
<1>7. CASE NewCircuit
  <2>1. lock' \in Locks /\ lock'.op = "control" /\ lock'.todo = << >>
    BY <1>2, <1>3, <1>7 DEF NewCircuit
  <2>2. OpsKnow' /\ DirectIsClean' /\ InService
    BY <1>7, <2>1 DEF NewCircuit, LockFree, OpsKnow, DirectIsClean, InService
  <2> QED BY <1>1, <1>7, <2>1, <2>2, Quiet DEF NewCircuit, LockFree
<1>8. CASE ControlEnds
  <2>1. lock' \in Locks /\ lock'.op = "free" /\ lock'.todo = << >>
    BY <1>8, FreeTyped DEF ControlEnds
  <2>2. OpsKnow' /\ DirectIsClean' /\ InService
    BY <1>8, <2>1 DEF ControlEnds, OpsKnow, DirectIsClean, InService
  <2> QED BY <1>1, <1>8, <2>1, <2>2, Quiet DEF ControlEnds
<1>9. CASE MonitorTicks
  <2>1. lock' \in Locks /\ lock'.op = "free" /\ lock'.todo = << >>
    BY <1>1, <1>9 DEF MonitorTicks, LockFree
  <2>2. OpsKnow' /\ DirectIsClean' /\ InService
    BY <1>9, <2>1 DEF MonitorTicks, LockFree, OpsKnow, DirectIsClean, InService
  <2> QED BY <1>1, <1>9, <2>1, <2>2, Quiet DEF MonitorTicks, LockFree
<1>10. CASE MonitorAsks
  <2> DEFINE h == Holder("monitor", TorUid, << >>)
  <2>1a. h \in Locks /\ h.op = "monitor" /\ h.todo = << >>
    BY <1>2, <1>3
  <2>1b. ASSUME NEW b \in BOOLEAN
         PROVE  [h EXCEPT !.ok = b] \in Locks /\ [h EXCEPT !.ok = b].op = "monitor"
                /\ [h EXCEPT !.ok = b].todo = << >>
    <3> HIDE DEF h, Inv
    <3> QED BY <2>1a DEF Locks
  <2>1c. (lock' = lock /\ lock.op = "free") \/ (mgr.running /\ lock' = [h EXCEPT !.ok = (tor # "none")])
    BY <1>10 DEF MonitorAsks, LockFree
  <2> HIDE DEF h
  <2>1. lock' \in Locks /\ lock'.todo = << >>
    BY <1>1, <2>1b, <2>1c
  <2>2. lock'.op = "free" \/ (lock'.op = "monitor" /\ mgr.running)
    BY <2>1b, <2>1c
  <2>3. OpsKnow' /\ DirectIsClean' /\ (InService' => InService)
    BY <1>10, <2>2 DEF MonitorAsks, LockFree, OpsKnow, DirectIsClean, InService
  <2>4. mon' \in {"wait", "ask", "good", "bad"}
    BY <1>10 DEF MonitorAsks
  <2> QED BY <1>1, <1>10, <2>1, <2>2, <2>3, <2>4, Quiet DEF MonitorAsks, LockFree
<1>11. CASE MonitorHears
  <2>1. lock' \in Locks /\ lock'.op = "free" /\ lock'.todo = << >>
    BY <1>11, FreeTyped DEF MonitorHears
  <2>2. OpsKnow' /\ DirectIsClean' /\ InService
    BY <1>11, <2>1 DEF MonitorHears, OpsKnow, DirectIsClean, InService
  <2>3. mon' \in {"wait", "ask", "good", "bad"}
    BY <1>11 DEF MonitorHears
  <2> QED BY <1>1, <1>11, <2>1, <2>2, <2>3, Quiet DEF MonitorHears
<1>12. CASE MonitorTells
  <2>1. lock' \in Locks /\ lock'.op = "free" /\ lock'.todo = << >> /\ lock' = lock
    BY <1>1, <1>12 DEF MonitorTells, LockFree
  <2>2. mgr' \in [running : BOOLEAN, circuit : BOOLEAN] /\ mgr'.running = mgr.running
    BY <1>1, <1>12 DEF MonitorTells
  <2>3. OpsKnow' /\ DirectIsClean' /\ (InService' => InService)
    BY <1>12, <2>1, <2>2 DEF MonitorTells, OpsKnow, DirectIsClean, InService
  <2>4. mon' \in {"wait", "ask", "good", "bad"}
    BY <1>12 DEF MonitorTells
  <2> QED BY <1>1, <1>12, <2>1, <2>2, <2>3, <2>4, Quiet DEF MonitorTells, LockFree
<1> QED BY <1>4, <1>5, <1>6, <1>7, <1>8, <1>9, <1>10, <1>11, <1>12

(* Steps of the requests that edit rules, other than their commands. *)

\* The commands of add_bypass_uid and remove_bypass_uid.
LEMMA Scripts ==
  ASSUME NEW u \in Uids
  PROVE  /\ AddScript(u) \in Seq(Commands) /\ DropScript(u) \in Seq(Commands)
         /\ Len(AddScript(u)) = 2 /\ Len(DropScript(u)) = 2
         /\ Head(AddScript(u)) = Cmd("insert", "dns", u)
         /\ Tail(AddScript(u)) = << Cmd("insert", "trans", u) >>
         /\ Head(DropScript(u)) = Cmd("drop", "dns", u)
         /\ Tail(DropScript(u)) = << Cmd("drop", "trans", u) >>
<1>1. \A act \in {"insert", "drop"} : \A c \in {"dns", "trans"} : Cmd(act, c, u) \in Commands
  BY DEF Cmd, Commands, Acts, Chains, Rules
<1>2. \A a, b \in Commands : /\ <<a, b>> \in Seq(Commands) /\ Len(<<a, b>>) = 2
                             /\ Head(<<a, b>>) = a /\ Tail(<<a, b>>) = <<b>>
  <2> SUFFICES ASSUME NEW a \in Commands, NEW b \in Commands
               PROVE  /\ <<a, b>> \in Seq(Commands) /\ Len(<<a, b>>) = 2
                      /\ Head(<<a, b>>) = a /\ Tail(<<a, b>>) = <<b>>
    OBVIOUS
  <2> QED OBVIOUS
<1> QED BY <1>1, <1>2 DEF AddScript, DropScript

\* Tor is up and apply begins.
LEMMA BootstrapsKeeps ==
  ASSUME Inv, Bootstraps
  PROVE  Inv'
<1>1. bypass \in Seq(Uids) /\ ApplyScript \in Seq(Commands) /\ Len(ApplyScript) = Total
  BY ScriptLaid DEF Inv, TypeOK
<1>2. /\ lock' \in Locks /\ lock'.op = "enable" /\ lock'.todo = ApplyScript /\ lock'.ok = TRUE
  <2>1. "enable" \in Ops /\ TorUid \in Uids \cup {TorUid}
    BY DEF Ops
  <2>2. lock' = Holder("enable", TorUid, ApplyScript)
    BY DEF Bootstraps
  <2> QED BY <1>1, <2>1, <2>2 DEF Holder, Locks
<1>3. UNCHANGED <<bypass, nat, orphan, mon, stray, direct>>
  BY DEF Bootstraps
<1>4. mgr' = [running |-> TRUE, circuit |-> TRUE] /\ tor' = "up" /\ lock.op = "boot"
  BY DEF Bootstraps
<1>5. TypeOK'
  BY <1>2, <1>3, <1>4 DEF Inv, TypeOK, Working, Locks, Commands
<1>6. RulesInOrder' /\ NoneTwice'
  BY <1>3, OrderStays, ListStays DEF Inv
<1>7. OpsKnow' /\ DirectIsClean' /\ DisableGoesOn' /\ EditGoesOn' /\ Complete'
  BY <1>2, <1>3, <1>4
  DEF Inv, OpsKnow, DirectIsClean, DisableGoesOn, EditGoesOn, Complete, InService
<1>8. EnableGoesOn'
  <2>1. ApplyScript' = ApplyScript /\ Total' = Total
    BY <1>3, SameScript
  <2>2. /\ 0 \in 0 .. Total /\ ~(0 >= Total - 1) /\ ~(0 >= Total)
        /\ \A c \in Chains : Before(c)' \in Nat /\ ~(0 > Before(c)')
    BY <1>1, <1>3, Sizes, SameScript DEF Chains
  <2>3. lock'.todo = SubSeq(ApplyScript, 0 + 1, Total)
    BY <1>1, <1>2, SubSeqFull
  <2>4. \A c \in Chains : Built(c, 0)'
    BY <2>2 DEF Built
  <2>5. Cleaned(0)'
    BY DEF Cleaned
  <2>6. Progress(0)'
    BY <2>1, <2>2, <2>3, <2>4, <2>5 DEF Progress
  <2> QED BY <2>1, <2>2, <2>6 DEF EnableGoesOn
<1> QED BY <1>5, <1>6, <1>7, <1>8 DEF Inv

\* The clean-up of a disable begins.
LEMMA DisableKeeps ==
  ASSUME Inv, Disable
  PROVE  Inv'
<1>1. CleanupScript \in Seq(Commands) /\ Len(CleanupScript) = 6
  BY ScriptLaid DEF Inv, TypeOK
<1>2. /\ lock' \in Locks /\ lock'.op = "disable" /\ lock'.todo = CleanupScript
  <2>1. "disable" \in Ops /\ TorUid \in Uids \cup {TorUid}
    BY DEF Ops
  <2>2. lock' = Holder("disable", TorUid, CleanupScript)
    BY DEF Disable
  <2> QED BY <1>1, <2>1, <2>2 DEF Holder, Locks
<1>3. UNCHANGED <<mgr, bypass, nat, tor, orphan, mon, stray>> /\ direct' = FALSE
  BY DEF Disable
<1>4. TypeOK'
  BY <1>2, <1>3 DEF Inv, TypeOK, Working, Locks, Commands
<1>5. RulesInOrder' /\ NoneTwice'
  BY <1>3, OrderStays, ListStays DEF Inv
<1>6. OpsKnow' /\ DirectIsClean' /\ EnableGoesOn' /\ EditGoesOn' /\ Complete'
  BY <1>2, <1>3
  DEF Inv, OpsKnow, DirectIsClean, EnableGoesOn, EditGoesOn, Complete, InService
<1>7. DisableGoesOn'
  <2>1. lock'.todo = SubSeq(CleanupScript, 0 + 1, 6)
    BY <1>1, <1>2, SubSeqFull
  <2>2. Cleaned(0)' /\ 0 \in 0 .. 6
    BY DEF Cleaned
  <2> QED BY <2>1, <2>2 DEF DisableGoesOn
<1> QED BY <1>4, <1>5, <1>6, <1>7 DEF Inv

\* apply is through: both chains exempt exactly the list.
LEMMA EnabledKeeps ==
  ASSUME Inv, Enabled
  PROVE  Inv'
<1>1. /\ lock.op = "enable" /\ lock.todo = << >> /\ lock' = Free /\ stray' = [c \in Chains |-> {}]
      /\ UNCHANGED <<mgr, bypass, nat, tor, orphan, mon, direct>>
  BY DEF Enabled, Working
<1>2. lock' \in Locks /\ lock'.op = "free" /\ lock'.todo = << >>
  BY <1>1, FreeTyped
<1>3. TypeOK'
  BY <1>1, <1>2 DEF Inv, TypeOK, Working, Locks, Commands
<1>4. RulesInOrder' /\ NoneTwice'
  BY <1>1, OrderStays, ListStays DEF Inv
<1>5. OpsKnow' /\ DirectIsClean'
  BY <1>1, <1>2 DEF Inv, OpsKnow, DirectIsClean
<1>6. EnableGoesOn' /\ DisableGoesOn' /\ EditGoesOn'
  BY <1>2 DEF EnableGoesOn, DisableGoesOn, EditGoesOn
<1>7. Complete'
  <2>1. PICK d \in 0 .. Total : Progress(d)
    BY <1>1 DEF Inv, EnableGoesOn
  <2>2. bypass \in Seq(Uids) /\ NoneTwice
    BY DEF Inv, TypeOK
  <2>3. d = Total
    BY <1>1, <2>1, <2>2, EnableAt DEF Progress
  <2>4. \A c \in Chains : Built(c, Total)
    BY <2>1, <2>3 DEF Progress
  <2>5. \A c \in Chains : Total > Before(c) /\ ~(Total <= Before(c) + Size(c))
    BY <2>2, Sizes DEF Chains
  <2>6. \A c \in Chains : Len(nat.rules[c]) = Size(c)
                          /\ \A i \in 1 .. Size(c) : nat.rules[c][i] = RuleAt(c, i)
    BY <2>4, <2>5 DEF Built
  <2>7. Total >= Total - 1 /\ Total >= Total
    BY <2>2, Sizes
  <2>8. \A c \in Chains : c \in nat.hooks
    BY <2>1, <2>3, <2>7 DEF Progress, Chains
  <2>9. \A c \in Chains : Exempts(nat.rules[c], {u \in Uids : Contains(bypass, u)}, {})
    BY <2>2, <2>6, BuiltExempts
  <2>10. \A c \in Chains : Listed(c)' = {u \in Uids : Contains(bypass, u)}
    BY <1>1, <1>2 DEF Listed, Edited
  <2> QED BY <1>1, <2>8, <2>9, <2>10 DEF Complete, Exact
<1> QED BY <1>3, <1>4, <1>5, <1>6, <1>7 DEF Inv

\* The daemon ends and starts again.
LEMMA RestartKeeps ==
  ASSUME Inv, Restart
  PROVE  Inv'
<1>1. /\ mgr' = Stopped /\ bypass' = << >> /\ lock' = Free /\ mon' = "wait" /\ tor' = "none"
      /\ stray' = [c \in Chains |-> {}] /\ UNCHANGED <<nat, direct>>
  BY DEF Restart
<1>2. lock' \in Locks /\ lock'.op = "free" /\ lock'.todo = << >>
  BY <1>1, FreeTyped
<1>3. mgr' \in [running : BOOLEAN, circuit : BOOLEAN] /\ ~mgr'.running
  BY <1>1 DEF Stopped
<1>4. orphan' \in BOOLEAN /\ bypass' \in Seq(Uids)
  <2>1. orphan \in BOOLEAN /\ (orphan' = orphan \/ orphan' = (orphan \/ tor # "none"))
    BY DEF Restart, Inv, TypeOK
  <2>2. orphan' \in BOOLEAN
    BY <2>1, Zenon
  <2> QED BY <1>1, <2>2
<1>5. TypeOK'
  BY <1>1, <1>2, <1>3, <1>4 DEF Inv, TypeOK, Working, Locks, Commands
<1>6. RulesInOrder' /\ NoneTwice'
  BY <1>1, OrderStays DEF Inv, NoneTwice, Once
<1>7. OpsKnow' /\ DirectIsClean' /\ Complete'
  BY <1>1, <1>2, <1>3 DEF Inv, OpsKnow, DirectIsClean, Complete, InService
<1>8. EnableGoesOn' /\ DisableGoesOn' /\ EditGoesOn'
  BY <1>2 DEF EnableGoesOn, DisableGoesOn, EditGoesOn
<1> QED BY <1>5, <1>6, <1>7, <1>8 DEF Inv

(* The requests that edit the list, and their commands. *)

\* A request for an addition or a removal.
LEMMA BypassAsked ==
  ASSUME Inv, NEW u \in Uids, AddBypass(u) \/ RemoveBypass(u)
  PROVE  Inv'
<1>1. bypass \in Seq(Uids) /\ lock \in Locks /\ NoneTwice
  BY DEF Inv, TypeOK, Locks, Commands
<1>2. lock.op = "free" /\ UNCHANGED <<mgr, nat, tor, orphan, mon, stray, direct>>
  BY DEF AddBypass, RemoveBypass, LockFree
<1>3. RulesInOrder'
  BY <1>2, OrderStays DEF Inv
<1>4. CASE mgr.running
  <2> DEFINE add == ~Contains(bypass, u)
             todo == IF add THEN AddScript(u) ELSE DropScript(u)
  <2>1. bypass' = bypass /\ lock' = Holder(IF add THEN "add" ELSE "remove", u, todo)
    BY <1>4 DEF AddBypass, RemoveBypass
  <2>2. /\ lock' \in Locks /\ lock'.op = IF add THEN "add" ELSE "remove"
        /\ lock'.todo = todo /\ lock'.uid = u
    <3>1. todo \in Seq(Commands)
      BY Scripts
    <3> QED BY <2>1, <3>1 DEF Holder, Locks, Ops
  <2>3. Len(lock'.todo) = 2 /\ lock'.todo # << >>
    BY <2>2, Scripts
  <2>4. TypeOK'
    BY <1>2, <2>1, <2>2 DEF Inv, TypeOK, Working, Locks, Commands
  <2>5. EnableGoesOn' /\ DisableGoesOn'
    BY <2>2 DEF EnableGoesOn, DisableGoesOn
  <2>6. EditGoesOn'
    BY <2>1, <2>2 DEF EditGoesOn, AddScript, DropScript
  <2>7. OpsKnow' /\ DirectIsClean'
    BY <1>2, <1>4, <2>2 DEF Inv, OpsKnow, DirectIsClean
  <2>8. Complete'
    <3>1. \A c \in Chains : ~Edited(c) /\ ~Edited(c)'
      BY <1>2, <2>3 DEF Edited
    <3>2. InService
      BY <1>2, <1>4 DEF InService
    <3> QED BY <1>2, <2>1, <3>1, <3>2, ServiceStays DEF Inv
  <2>9. NoneTwice'
    BY <1>1, <2>1, ListStays
  <2> QED BY <1>3, <2>4, <2>5, <2>6, <2>7, <2>8, <2>9 DEF Inv
<1>5. CASE ~mgr.running
  <2>1. lock' = lock
    BY <1>5 DEF AddBypass, RemoveBypass
  <2>2. bypass' \in Seq(Uids) /\ NoneTwice'
    <3>1. CASE ~Contains(bypass, u)
      <4>1. bypass' = Append(bypass, u)
        BY <1>5, <3>1 DEF AddBypass, RemoveBypass
      <4> QED BY <1>1, <3>1, <4>1, ListGrows DEF NoneTwice
    <3>2. CASE Contains(bypass, u)
      <4>1. bypass' = RemoveFirst(bypass, u) /\ Once(bypass, u)
        BY <1>1, <1>5, <3>2 DEF AddBypass, RemoveBypass, Without, NoneTwice
      <4> QED BY <1>1, <3>2, <4>1, ListShrinks DEF NoneTwice
    <3> QED BY <3>1, <3>2
  <2>3. TypeOK'
    BY <1>2, <2>1, <2>2 DEF Inv, TypeOK, Working
  <2>4. OpsKnow' /\ DirectIsClean' /\ Complete'
    BY <1>2, <1>5, <2>1 DEF Inv, OpsKnow, DirectIsClean, Complete, InService
  <2>5. EnableGoesOn' /\ DisableGoesOn' /\ EditGoesOn'
    BY <1>2, <2>1 DEF EnableGoesOn, DisableGoesOn, EditGoesOn
  <2> QED BY <1>3, <2>2, <2>3, <2>4, <2>5 DEF Inv
<1> QED BY <1>4, <1>5

\* The list follows the rules.
LEMMA BypassEditedKeeps ==
  ASSUME Inv, BypassEdited
  PROVE  Inv'
<1> DEFINE u == lock.uid
<1>1. /\ bypass \in Seq(Uids) /\ NoneTwice /\ u \in Uids
      /\ lock.op \in {"add", "remove"} /\ lock.todo = << >>
      /\ (lock.op = "add") = ~Contains(bypass, u)
  BY DEF Inv, TypeOK, BypassEdited, EditGoesOn, Working
<1>2. lock' = Free /\ UNCHANGED <<mgr, nat, tor, orphan, mon, stray, direct>>
  BY DEF BypassEdited
<1>3. lock' \in Locks /\ lock'.op = "free" /\ lock'.todo = << >>
  BY <1>2, FreeTyped
<1>4. /\ bypass' \in Seq(Uids) /\ NoneTwice'
      /\ \A v \in Uids : Contains(bypass', v) <=>
           IF v = u THEN lock.op = "add" ELSE Contains(bypass, v)
  <2>1. CASE lock.op = "add"
    <3>1. bypass' = Append(bypass, u) /\ ~Contains(bypass, u)
      BY <1>1, <2>1 DEF BypassEdited
    <3> QED BY <1>1, <2>1, <3>1, ListGrows DEF NoneTwice
  <2>2. CASE lock.op = "remove"
    <3>1. bypass' = RemoveFirst(bypass, u) /\ Contains(bypass, u) /\ Once(bypass, u)
      BY <1>1, <2>2 DEF BypassEdited, Without, NoneTwice
    <3> QED BY <1>1, <2>2, <3>1, ListShrinks DEF NoneTwice
  <2> QED BY <1>1, <2>1, <2>2
<1>5. TypeOK'
  BY <1>2, <1>3, <1>4 DEF Inv, TypeOK, Working, Locks, Commands
<1>6. RulesInOrder'
  BY <1>2, OrderStays DEF Inv
<1>7. OpsKnow' /\ DirectIsClean'
  BY <1>1, <1>2, <1>3 DEF Inv, OpsKnow, DirectIsClean
<1>8. EnableGoesOn' /\ DisableGoesOn' /\ EditGoesOn'
  BY <1>3 DEF EnableGoesOn, DisableGoesOn, EditGoesOn
<1>9. Complete'
  <2>1. \A c \in Chains : Edited(c) /\ ~Edited(c)'
    BY <1>1, <1>3 DEF Edited
  <2>2. \A c \in Chains : Listed(c)' = {v \in Uids : Contains(bypass', v)}
    BY <2>1 DEF Listed
  <2>3. \A c \in Chains : Listed(c) = {v \in Uids : IF v = u THEN lock.op = "add"
                                                    ELSE Contains(bypass, v)}
    BY <2>1 DEF Listed
  <2>4. \A c \in Chains : Listed(c)' = Listed(c)
    BY <1>4, <2>2, <2>3
  <2>5. InService' => InService
    BY <1>1, <1>2 DEF InService
  <2> QED BY <1>2, <2>4, <2>5 DEF Inv, Complete, Exact
<1> QED BY <1>4, <1>5, <1>6, <1>7, <1>8, <1>9 DEF Inv

\* The next command of an edit is the one for the first chain not done yet.
LEMMA EditNext ==
  ASSUME TypeOK, EditGoesOn, Working, lock.op \in {"add", "remove"}
  PROVE  \E c \in Chains :
           /\ Head(lock.todo) = Cmd(IF lock.op = "add" THEN "insert" ELSE "drop", c, lock.uid)
           /\ lock.op = "add" =>
                Tail(lock.todo) \in {<< Cmd("insert", "trans", lock.uid) >>, << >>}
           /\ lock.op = "remove" =>
                Tail(lock.todo) \in {<< Cmd("drop", "trans", lock.uid) >>, << >>}
           /\ ~Edited(c)
           /\ lock'.op = lock.op /\ lock'.todo = Tail(lock.todo) =>
                Edited(c)' /\ \A k \in Chains : k # c => (Edited(k)' <=> Edited(k))
<1> DEFINE u == lock.uid
           Rest(c) == lock'.op = lock.op /\ lock'.todo = Tail(lock.todo) =>
                        Edited(c)' /\ \A k \in Chains : k # c => (Edited(k)' <=> Edited(k))
           cmd(c) == Cmd(IF lock.op = "add" THEN "insert" ELSE "drop", c, u)
<1>1. u \in Uids
  BY DEF EditGoesOn
<1>2. lock.todo = (IF lock.op = "add" THEN AddScript(u) ELSE DropScript(u))
      \/ lock.todo = << cmd("trans") >>
  BY DEF EditGoesOn, Working
<1>3. "dns" \in Chains /\ "trans" \in Chains /\ \A c \in Chains : c = "dns" \/ c = "trans"
  BY DEF Chains
<1> HIDE DEF u
<1>4. CASE lock.todo = IF lock.op = "add" THEN AddScript(u) ELSE DropScript(u)
  <2>1. /\ Len(lock.todo) = 2 /\ Head(lock.todo) = cmd("dns")
        /\ Tail(lock.todo) = << cmd("trans") >>
    BY <1>1, <1>4, Scripts
  <2>2. Len(<< cmd("trans") >>) = 1 /\ << cmd("trans") >> # << >>
    OBVIOUS
  <2>3. ~Edited("dns") /\ ~Edited("trans")
    BY <2>1 DEF Edited
  <2>4. ASSUME lock'.op = lock.op, lock'.todo = Tail(lock.todo)
        PROVE  Edited("dns")' /\ ~Edited("trans")'
    <3>1. Len(lock'.todo) = 1 /\ lock'.todo # << >>
      BY <2>1, <2>2, <2>4
    <3>2. Len(lock'.todo) < 2
      BY <3>1
    <3>2a. lock'.op \in {"add", "remove"}
      BY <2>4
    <3>3. Edited("dns")'
      BY <3>2, <3>2a DEF Edited
    <3>4. ~Edited("trans")'
      BY <3>1 DEF Edited
    <3> QED BY <3>3, <3>4
  <2>5. Rest("dns")
    BY <1>3, <2>3, <2>4
  <2>6. \/ lock.op = "add" /\ Tail(lock.todo) = << Cmd("insert", "trans", u) >>
        \/ lock.op = "remove" /\ Tail(lock.todo) = << Cmd("drop", "trans", u) >>
    BY <2>1
  <2> HIDE DEF Rest
  <2>7. "add" # "remove"
    OBVIOUS
  <2>8. /\ lock.op = "add" => Tail(lock.todo) \in {<< Cmd("insert", "trans", u) >>, << >>}
        /\ lock.op = "remove" => Tail(lock.todo) \in {<< Cmd("drop", "trans", u) >>, << >>}
    BY <2>6, <2>7
  <2> QED BY <1>3, <2>1, <2>3, <2>5, <2>8 DEF u, Rest
<1>5. CASE lock.todo = << cmd("trans") >>
  <2>1. Len(lock.todo) = 1 /\ Head(lock.todo) = cmd("trans") /\ Tail(lock.todo) = << >>
        /\ lock.todo # << >>
    BY <1>5
  <2>2. Edited("dns") /\ ~Edited("trans")
    BY <2>1 DEF Edited
  <2>3. ASSUME lock'.op = lock.op, lock'.todo = Tail(lock.todo)
        PROVE  Edited("dns")' /\ Edited("trans")'
    <3>1. Len(lock'.todo) = 0 /\ lock'.todo = << >>
      BY <2>1, <2>3
    <3>2. Len(lock'.todo) < 2
      BY <3>1
    <3>2a. lock'.op \in {"add", "remove"}
      BY <2>3
    <3>3. Edited("dns")' /\ Edited("trans")'
      BY <3>1, <3>2, <3>2a DEF Edited
    <3> QED BY <3>3
  <2>4. Rest("trans")
    BY <1>3, <2>2, <2>3
  <2> HIDE DEF Rest
  <2>5. Tail(lock.todo) = << >> /\ Head(lock.todo) = cmd("trans") /\ ~Edited("trans")
    BY <2>1, <2>2
  <2> QED BY <1>3, <2>4, <2>5 DEF u, Rest
<1> HIDE DEF Rest, cmd
<1> QED BY <1>2, <1>4, <1>5

(* Commands. *)

\* What a command leaves to do has its type and its holder.
LEMMA HolderGoesOn ==
  ASSUME TypeOK, Working
  PROVE  /\ Head(lock.todo) \in Commands /\ Tail(lock.todo) \in Seq(Commands)
         /\ [lock EXCEPT !.todo = Tail(@)] \in Locks
         /\ [lock EXCEPT !.todo = Tail(@)].op = lock.op
         /\ [lock EXCEPT !.todo = Tail(@)].uid = lock.uid
         /\ [lock EXCEPT !.todo = Tail(@)].ok = lock.ok
         /\ [lock EXCEPT !.todo = Tail(@)].todo = Tail(lock.todo)
<1>1. lock \in Locks /\ lock.todo \in Seq(Commands) /\ lock.todo # << >>
  BY DEF TypeOK, Working, Locks, Commands
<1>2. Head(lock.todo) \in Commands /\ Tail(lock.todo) \in Seq(Commands)
  BY <1>1, HeadTailProperties
<1> QED BY <1>1, <1>2 DEF Locks

\* A command that works keeps what does not depend on its operation.
LEMMA SucceedsTyped ==
  ASSUME Inv, CommandSucceeds
  PROVE  /\ TypeOK' /\ NoneTwice' /\ OpsKnow' /\ DirectIsClean'
         /\ lock'.op = lock.op /\ lock'.uid = lock.uid /\ lock'.ok = lock.ok
         /\ lock'.todo = Tail(lock.todo)
         /\ UNCHANGED <<mgr, bypass, tor, orphan, mon, stray, direct>>
         /\ lock.op \in {"enable", "disable", "add", "remove"}
<1>1. /\ TypeOK /\ Working /\ Feasible(Head(lock.todo)) /\ nat' = Executed(Head(lock.todo))
      /\ lock' = [lock EXCEPT !.todo = Tail(@)]
      /\ UNCHANGED <<mgr, bypass, tor, orphan, mon, stray, direct>>
  BY DEF Inv, CommandSucceeds
<1>2. /\ lock' \in Locks /\ lock'.op = lock.op /\ lock'.uid = lock.uid /\ lock'.ok = lock.ok
      /\ lock'.todo = Tail(lock.todo) /\ Head(lock.todo) \in Commands
  BY <1>1, HolderGoesOn
<1>3. /\ nat' \in [made : SUBSET Chains, rules : [Chains -> Seq(Rules)], hooks : SUBSET Chains]
      /\ nat'.hooks \subseteq nat'.made
      /\ \A c \in Chains \ nat'.made : nat'.rules[c] = << >>
  BY <1>1, <1>2, KernelConsistent
<1>4. lock.op \in {"enable", "disable", "add", "remove"}
  BY <1>1 DEF TypeOK
<1>5. TypeOK'
  BY <1>1, <1>2, <1>3, <1>4 DEF TypeOK, Locks, Commands
<1>6. NoneTwice'
  BY <1>1, ListStays DEF Inv
<1>7. OpsKnow' /\ DirectIsClean'
  BY <1>1, <1>2, <1>4 DEF Inv, OpsKnow, DirectIsClean
<1> QED BY <1>1, <1>2, <1>4, <1>5, <1>6, <1>7

\* A command of apply works.
LEMMA EnableSucceeds ==
  ASSUME Inv, CommandSucceeds, lock.op = "enable"
  PROVE  Inv'
<1>1. /\ TypeOK' /\ NoneTwice' /\ OpsKnow' /\ DirectIsClean'
      /\ lock'.op = lock.op /\ lock'.ok = lock.ok /\ lock'.todo = Tail(lock.todo)
      /\ bypass' = bypass
  BY SucceedsTyped
<1>2. PICK d \in 0 .. Total : Progress(d)
  BY DEF Inv, EnableGoesOn
<1>3. TypeOK /\ RulesInOrder /\ bypass \in Seq(Uids)
  BY DEF Inv, TypeOK
<1>4. d # Total /\ Head(lock.todo) = ApplyScript[d + 1]
  BY <1>2, <1>3, EnableAt DEF Progress, CommandSucceeds, Working
<1>5. Feasible(ApplyScript[d + 1]) /\ nat' = Executed(ApplyScript[d + 1])
  BY <1>4 DEF CommandSucceeds
<1>6. RulesInOrder' /\ Progress(d + 1)'
  BY <1>1, <1>2, <1>3, <1>4, <1>5, EnableStep
<1>7. Total' = Total /\ Total \in Nat
  BY <1>1, <1>3, Sizes, SameScript
<1>8. d + 1 \in 0 .. Total'
  BY <1>4, <1>7
<1>9. EnableGoesOn' /\ DisableGoesOn' /\ EditGoesOn' /\ Complete'
  BY <1>1, <1>6, <1>8
  DEF EnableGoesOn, DisableGoesOn, EditGoesOn, Complete, InService
<1> QED BY <1>1, <1>6, <1>9 DEF Inv

\* A command of a disable works.
LEMMA DisableSucceeds ==
  ASSUME Inv, CommandSucceeds, lock.op = "disable"
  PROVE  Inv'
<1>1. /\ TypeOK' /\ NoneTwice' /\ OpsKnow' /\ DirectIsClean'
      /\ lock'.op = lock.op /\ lock'.ok = lock.ok /\ lock'.todo = Tail(lock.todo)
  BY SucceedsTyped
<1>2. PICK d \in 0 .. 6 : lock.todo = SubSeq(CleanupScript, d + 1, 6) /\ (lock.ok => Cleaned(d))
  BY DEF Inv, DisableGoesOn
<1>3. TypeOK /\ RulesInOrder /\ bypass \in Seq(Uids)
  BY DEF Inv, TypeOK
<1>4. d # 6 /\ Head(lock.todo) = CleanupScript[d + 1]
      /\ Tail(lock.todo) = SubSeq(CleanupScript, d + 2, 6)
  BY <1>2, <1>3, DisableAt DEF CommandSucceeds, Working
<1>5. Feasible(CleanupScript[d + 1]) /\ nat' = Executed(CleanupScript[d + 1])
  BY <1>4 DEF CommandSucceeds
<1>6. d \in 0 .. 5 /\ d + 1 \in 0 .. 6 /\ (d + 1) + 1 = d + 2
  BY <1>4
<1>7. RulesInOrder' /\ (lock.ok => Cleaned(d + 1)')
  BY <1>3, <1>5, <1>6, <1>2, CleanKeeps, CleanStep
<1>8. lock'.todo = SubSeq(CleanupScript, (d + 1) + 1, 6) /\ (lock'.ok => Cleaned(d + 1)')
  BY <1>1, <1>4, <1>6, <1>7
<1>9. EnableGoesOn' /\ DisableGoesOn' /\ EditGoesOn' /\ Complete'
  BY <1>1, <1>6, <1>8
  DEF EnableGoesOn, DisableGoesOn, EditGoesOn, Complete, InService
<1> QED BY <1>1, <1>7, <1>9 DEF Inv

\* A command of an addition or a removal works.
LEMMA EditSucceeds ==
  ASSUME Inv, CommandSucceeds, lock.op \in {"add", "remove"}
  PROVE  Inv'
<1> DEFINE u == lock.uid
           cmd == Head(lock.todo)
<1>1. /\ TypeOK' /\ NoneTwice' /\ OpsKnow' /\ DirectIsClean'
      /\ lock'.op = lock.op /\ lock'.uid = u /\ lock'.todo = Tail(lock.todo)
      /\ mgr' = mgr /\ bypass' = bypass /\ stray' = stray
  BY SucceedsTyped
<1>2. TypeOK /\ RulesInOrder /\ Complete /\ EditGoesOn /\ OpsKnow
  BY DEF Inv
<1>3. PICK c \in Chains :
           /\ cmd = Cmd(IF lock.op = "add" THEN "insert" ELSE "drop", c, u)
           /\ lock.op = "add" => Tail(lock.todo) \in {<< Cmd("insert", "trans", u) >>, << >>}
           /\ lock.op = "remove" => Tail(lock.todo) \in {<< Cmd("drop", "trans", u) >>, << >>}
           /\ ~Edited(c)
           /\ Edited(c)' /\ \A k \in Chains : k # c => (Edited(k)' <=> Edited(k))
  BY <1>1, <1>2, EditNext DEF CommandSucceeds
<1>4. InService /\ u \in Uids /\ ((lock.op = "add") = ~Contains(bypass, u))
  BY <1>2 DEF OpsKnow, InService, EditGoesOn
<1>5. /\ nat \in [made : SUBSET Chains, rules : [Chains -> Seq(Rules)], hooks : SUBSET Chains]
      /\ nat.rules[c] \in Seq(Rules)
  BY <1>2 DEF TypeOK
<1>6. Exact(c) /\ InOrder(nat.rules[c]) /\ \A k \in Chains : Exact(k)
  BY <1>2, <1>4 DEF Complete, RulesInOrder
<1>7. Listed(c) = {v \in Uids : Contains(bypass, v)}
  BY <1>3 DEF Listed
<1>8. Listed(c)' = {v \in Uids : IF v = u THEN lock.op = "add" ELSE Contains(bypass, v)}
  BY <1>1, <1>3 DEF Listed
<1>9. Listed(c)' = IF lock.op = "add" THEN Listed(c) \cup {u} ELSE Listed(c) \ {u}
  BY <1>4, <1>7, <1>8
<1>10. \A k \in Chains : k # c => Listed(k)' = Listed(k)
  BY <1>1, <1>3 DEF Listed
<1>11. /\ nat'.hooks = nat.hooks
       /\ nat'.rules = [nat.rules EXCEPT ![c] = nat'.rules[c]]
       /\ InOrder(nat'.rules[c])
       /\ Exempts(nat'.rules[c], Listed(c)', stray[c])
  <2>1. CASE lock.op = "add"
    <3>1. cmd.act = "insert" /\ cmd.chain = c /\ cmd.rule = u
      BY <1>3, <2>1 DEF Cmd
    <3>2. nat' = [nat EXCEPT !.rules[c] = Inserted(@, u)]
      BY <3>1 DEF CommandSucceeds, Executed
    <3>3. /\ nat'.hooks = nat.hooks /\ nat'.rules[c] = Inserted(nat.rules[c], u)
          /\ nat'.rules = [nat.rules EXCEPT ![c] = Inserted(nat.rules[c], u)]
      BY <1>5, <3>2
    <3>4. u \notin Listed(c) /\ Exempts(nat.rules[c], Listed(c), stray[c])
      BY <1>4, <1>6, <1>7, <2>1 DEF Exact
    <3>5. InOrder(Inserted(nat.rules[c], u))
          /\ Exempts(Inserted(nat.rules[c], u), Listed(c) \cup {u}, stray[c])
      BY <1>4, <1>5, <1>6, <3>4, InsertExempts
    <3> QED BY <1>9, <2>1, <3>3, <3>5
  <2>2. CASE lock.op = "remove"
    <3>1. cmd.act = "drop" /\ cmd.chain = c /\ cmd.rule = u
      BY <1>3, <2>2 DEF Cmd
    <3>2. nat' = [nat EXCEPT !.rules[c] = RemoveFirst(@, u)] /\ Contains(nat.rules[c], u)
      BY <3>1 DEF CommandSucceeds, Executed, Feasible
    <3>3. /\ nat'.hooks = nat.hooks /\ nat'.rules[c] = RemoveFirst(nat.rules[c], u)
          /\ nat'.rules = [nat.rules EXCEPT ![c] = RemoveFirst(nat.rules[c], u)]
      BY <1>5, <3>2
    <3>4. u \in Listed(c) /\ Exempts(nat.rules[c], Listed(c), stray[c])
      BY <1>4, <1>6, <1>7, <2>2 DEF Exact
    <3>5. InOrder(RemoveFirst(nat.rules[c], u))
          /\ Exempts(RemoveFirst(nat.rules[c], u), Listed(c) \ {u}, stray[c])
      BY <1>4, <1>5, <1>6, <3>2, <3>4, DropExempts
    <3> QED BY <1>9, <2>2, <3>3, <3>5
  <2> QED BY <2>1, <2>2
<1>12. \A k \in Chains : k # c => nat'.rules[k] = nat.rules[k]
  BY <1>5, <1>11
<1>13. RulesInOrder'
  BY <1>2, <1>11, <1>12 DEF RulesInOrder
<1>14. Complete'
  <2>1. Exact(c)'
    BY <1>1, <1>6, <1>11 DEF Exact
  <2>2. \A k \in Chains : k # c => Exact(k)'
    BY <1>1, <1>6, <1>10, <1>11, <1>12 DEF Exact
  <2> QED BY <2>1, <2>2 DEF Complete
<1>15. EnableGoesOn' /\ DisableGoesOn' /\ EditGoesOn'
  BY <1>1, <1>2, <1>3 DEF EnableGoesOn, DisableGoesOn, EditGoesOn
<1> QED BY <1>1, <1>13, <1>14, <1>15 DEF Inv

\* A failure that is not returned.
LEMMA FailureIgnored ==
  ASSUME Inv, CommandFails, Ignored(Head(lock.todo).act)
  PROVE  /\ lock' \in Locks /\ lock'.op = lock.op /\ lock'.uid = lock.uid
         /\ lock'.todo = Tail(lock.todo)
         /\ lock'.ok => lock.ok /\ ~Feasible(Head(lock.todo))
<1>1. TypeOK /\ Working /\ lock \in Locks
  BY DEF Inv, CommandFails, TypeOK, Locks, Commands
<1>2. Tail(lock.todo) \in Seq(Commands)
  BY <1>1, HolderGoesOn
<1>3. lock' = [lock EXCEPT !.todo = Tail(@), !.ok = @ /\ ~Feasible(Head(lock.todo))]
  BY DEF CommandFails
<1> DEFINE b == lock.ok /\ ~Feasible(Head(lock.todo))
<1>4. b \in BOOLEAN
  OBVIOUS
<1>5. lock' = [lock EXCEPT !.todo = Tail(@), !.ok = b]
  BY <1>3
<1> HIDE DEF b
<1>6. /\ lock' \in Locks /\ lock'.op = lock.op /\ lock'.uid = lock.uid
      /\ lock'.todo = Tail(lock.todo) /\ lock'.ok = b
  BY <1>1, <1>2, <1>4, <1>5 DEF Locks
<1> QED BY <1>6 DEF b

\* A command that fails keeps what does not depend on its operation.
LEMMA FailsTyped ==
  ASSUME Inv, CommandFails, lock' \in Locks, Tail(lock.todo) = lock'.todo \/ lock'.todo = << >>,
         lock'.op = lock.op \/ (lock'.op = "free" /\ lock'.todo = << >>)
  PROVE  /\ TypeOK' /\ NoneTwice' /\ RulesInOrder' /\ OpsKnow' /\ DirectIsClean'
         /\ UNCHANGED <<mgr, bypass, nat>>
         /\ lock.op \in {"enable", "disable", "add", "remove"}
<1>1. TypeOK /\ Working /\ UNCHANGED <<mgr, bypass, nat, tor, orphan, mon, direct>>
  BY DEF Inv, CommandFails
<1>2. lock.op \in {"enable", "disable", "add", "remove"}
  BY <1>1 DEF TypeOK
<1>3. stray' \in [Chains -> SUBSET Uids]
  <2>1. lock.op \in {"add", "remove"} => lock.uid \in Uids
    BY DEF Inv, EditGoesOn
  <2>2. \A c \in Chains : LeftBehind(c) \in SUBSET Uids
    BY <2>1 DEF LeftBehind
  <2>3. stray' = [c \in Chains |-> stray[c] \cup LeftBehind(c)]
    BY DEF CommandFails
  <2> QED BY <1>1, <2>2, <2>3 DEF TypeOK
<1>4. TypeOK'
  BY <1>1, <1>2, <1>3 DEF TypeOK, Working, Locks, Commands
<1>5. NoneTwice' /\ RulesInOrder'
  BY <1>1, ListStays, OrderStays DEF Inv
<1>6. OpsKnow' /\ DirectIsClean'
  BY <1>1, <1>2 DEF Inv, OpsKnow, DirectIsClean
<1> QED BY <1>1, <1>2, <1>4, <1>5, <1>6

\* Only edits of the list leave rules behind.
LEMMA NothingLeft ==
  ASSUME Inv, CommandFails, lock.op \notin {"add", "remove"}
  PROVE  stray' = stray
<1>1. \A c \in Chains : LeftBehind(c) = {}
  BY DEF LeftBehind
<1>2. stray \in [Chains -> SUBSET Uids] /\ stray' = [c \in Chains |-> stray[c] \cup LeftBehind(c)]
  BY DEF Inv, TypeOK, CommandFails
<1> QED BY <1>1, <1>2

\* An addition that fails has put a rule into each chain it is done with.
LEMMA LeftByAddition ==
  ASSUME EditGoesOn, Working, lock.op = "add", NEW c \in Chains
  PROVE  LeftBehind(c) = IF Edited(c) THEN {lock.uid} \ {TorUid} ELSE {}
<1> DEFINE a == Cmd("insert", "dns", lock.uid)
           b == Cmd("insert", "trans", lock.uid)
<1>1. lock.todo = <<a, b>> \/ lock.todo = <<b>>
  BY DEF EditGoesOn, Working, AddScript
<1>2. a.chain = "dns" /\ b.chain = "trans"
  BY DEF Cmd
<1> HIDE DEF a, b
<1>3. CASE lock.todo = <<a, b>>
  <2>1. /\ Len(lock.todo) = 2 /\ lock.todo[1] = a /\ lock.todo[2] = b /\ lock.todo # << >>
        /\ 1 \in 1 .. Len(lock.todo) /\ 2 \in 1 .. Len(lock.todo)
    BY <1>3
  <2>2. ~\A i \in 1 .. Len(lock.todo) : lock.todo[i].chain # c
    BY <1>2, <2>1 DEF Chains
  <2>3. ~Edited(c)
    BY <2>1 DEF Edited
  <2> QED BY <2>2, <2>3 DEF LeftBehind
<1>4. CASE lock.todo = <<b>>
  <2>1. Len(lock.todo) = 1 /\ lock.todo # << >> /\ \A i \in 1 .. Len(lock.todo) : lock.todo[i] = b
    BY <1>4
  <2>2. (\A i \in 1 .. Len(lock.todo) : lock.todo[i].chain # c) <=> c = "dns"
    <3>1. 1 \in 1 .. Len(lock.todo)
      BY <2>1
    <3> QED BY <1>2, <2>1, <3>1 DEF Chains
  <2>3. Edited(c) <=> c = "dns"
    BY <2>1 DEF Edited
  <2> QED BY <2>2, <2>3 DEF LeftBehind
<1> QED BY <1>1, <1>3, <1>4

\* A command of apply fails: ignored in the clean-up, rolled back elsewhere.
LEMMA EnableFails ==
  ASSUME Inv, CommandFails, lock.op = "enable"
  PROVE  Inv'
<1> DEFINE cmd == Head(lock.todo)
<1>1. UNCHANGED <<mgr, bypass, nat, tor, orphan, mon, direct, stray>> /\ Working
  BY NothingLeft DEF CommandFails
<1>2. TypeOK /\ RulesInOrder /\ bypass \in Seq(Uids) /\ OpsKnow /\ DirectIsClean
  BY DEF Inv, TypeOK
<1>3. CASE Ignored(cmd.act)
  <2>1. /\ lock' \in Locks /\ lock'.op = "enable" /\ lock'.todo = Tail(lock.todo)
        /\ lock'.ok => lock.ok /\ ~Feasible(cmd)
    BY <1>3, FailureIgnored
  <2>2. TypeOK' /\ NoneTwice' /\ RulesInOrder' /\ OpsKnow' /\ DirectIsClean'
    BY <2>1, FailsTyped
  <2>3. PICK d \in 0 .. Total : Progress(d)
    BY DEF Inv, EnableGoesOn
  <2>4. /\ d # Total /\ cmd = ApplyScript[d + 1]
        /\ Tail(lock.todo) = SubSeq(ApplyScript, d + 2, Total)
    BY <1>1, <1>2, <2>3, EnableAt DEF Progress, Working
  <2>5. /\ Total \in Nat /\ d \in Nat /\ d < Total /\ Total >= 15
        /\ \A c \in Chains : Before(c) \in Nat /\ Before(c) >= 6
    BY <1>2, <2>4, Sizes DEF Chains
  <2>6. d < 6 /\ cmd = CleanupScript[d + 1]
    <3>1. \A c \in Chains : ~Ignored(Bare("new", c).act) /\ ~Ignored(Bare("hook", c).act)
                            /\ \A r : ~Ignored(AppendTo(c, r).act)
      BY DEF Ignored, Bare, AppendTo, Cmd
    <3> QED BY <1>2, <1>3, <2>4, <2>5, <3>1, CommandAt DEF Chains
  <2>7. d \in 0 .. 5 /\ d + 1 <= 6 /\ (d + 1) + 1 = d + 2 /\ d + 1 \in 0 .. Total
        /\ ~(d + 1 >= Total - 1) /\ ~(d + 1 >= Total)
    BY <2>5, <2>6
  <2>8. lock'.ok => Cleaned(d + 1)'
    <3> SUFFICES ASSUME lock'.ok PROVE Cleaned(d + 1)'
      OBVIOUS
    <3>1. lock.ok /\ ~Feasible(CleanupScript[d + 1])
      BY <2>1, <2>6
    <3>2. d <= 6
      BY <2>7
    <3>3. Cleaned(d)
      BY <2>3, <3>1, <3>2 DEF Progress
    <3> QED BY <1>1, <1>2, <2>7, <3>1, <3>3, CleanStep
  <2>9. ApplyScript' = ApplyScript /\ Total' = Total
        /\ \A c \in Chains : Before(c)' = Before(c)
    BY <1>1, SameScript
  <2>10. \A c \in Chains : Built(c, d + 1)'
    <3>1. \A c \in Chains : ~(d + 1 > Before(c)')
      BY <2>5, <2>7, <2>9
    <3> QED BY <3>1 DEF Built
  <2>11. lock'.todo = SubSeq(ApplyScript', (d + 1) + 1, Total')
    BY <2>1, <2>4, <2>7, <2>9
  <2>12. Progress(d + 1)'
    BY <2>7, <2>8, <2>9, <2>10, <2>11 DEF Progress
  <2>13. EnableGoesOn' /\ DisableGoesOn' /\ EditGoesOn' /\ Complete'
    BY <2>1, <2>7, <2>9, <2>12
    DEF EnableGoesOn, DisableGoesOn, EditGoesOn, Complete, InService
  <2> QED BY <2>2, <2>13 DEF Inv
<1>4. CASE ~Ignored(cmd.act)
  <2>1. lock' = [lock EXCEPT !.op = "rollback", !.todo = << >>, !.ok = FALSE]
    BY <1>4 DEF CommandFails, GivesUp
  <2>2. lock' \in Locks /\ lock'.op = "rollback" /\ lock'.todo = << >>
    <3>1. lock \in Locks /\ "rollback" \in Ops /\ << >> \in Seq(Commands)
      BY <1>2 DEF TypeOK, Locks, Commands, Ops
    <3> QED BY <2>1, <3>1 DEF Locks
  <2>3. OpsKnow' /\ DirectIsClean' /\ ~InService'
    BY <1>1, <1>2, <2>2 DEF OpsKnow, DirectIsClean, InService
  <2>4. /\ mgr' \in [running : BOOLEAN, circuit : BOOLEAN]
        /\ tor' \in {"none", "booting", "up", "hung"} /\ orphan' \in BOOLEAN
        /\ mon' \in {"wait", "ask", "good", "bad"} /\ direct' \in BOOLEAN
    BY <1>1, <1>2 DEF TypeOK
  <2> QED BY <1>1, <2>2, <2>3, <2>4, Quiet
<1> QED BY <1>3, <1>4

\* A command of a disable fails and is passed over.
LEMMA DisableFails ==
  ASSUME Inv, CommandFails, lock.op = "disable"
  PROVE  Inv'
<1> DEFINE cmd == Head(lock.todo)
<1>1. nat' = nat /\ Working
  BY DEF CommandFails
<1>2. TypeOK /\ RulesInOrder /\ bypass \in Seq(Uids)
  BY DEF Inv, TypeOK
<1>3. PICK d \in 0 .. 6 : lock.todo = SubSeq(CleanupScript, d + 1, 6) /\ (lock.ok => Cleaned(d))
  BY DEF Inv, DisableGoesOn
<1>4. d # 6 /\ cmd = CleanupScript[d + 1] /\ Tail(lock.todo) = SubSeq(CleanupScript, d + 2, 6)
  BY <1>1, <1>2, <1>3, DisableAt DEF Working
<1>5. d \in 0 .. 5 /\ d + 1 \in 0 .. 6 /\ (d + 1) + 1 = d + 2
  BY <1>4
<1>6. Ignored(cmd.act)
  BY <1>2, <1>4, <1>5, CleanKeeps
<1>7. /\ lock' \in Locks /\ lock'.op = "disable" /\ lock'.todo = Tail(lock.todo)
      /\ lock'.ok => lock.ok /\ ~Feasible(cmd)
  BY <1>6, FailureIgnored
<1>8. TypeOK' /\ NoneTwice' /\ RulesInOrder' /\ OpsKnow' /\ DirectIsClean'
  BY <1>7, FailsTyped
<1>9. lock'.ok => Cleaned(d + 1)'
  <2> SUFFICES ASSUME lock'.ok PROVE Cleaned(d + 1)'
    OBVIOUS
  <2>1. Cleaned(d) /\ ~Feasible(CleanupScript[d + 1])
    BY <1>3, <1>4, <1>7
  <2> QED BY <1>1, <1>2, <1>5, <2>1, CleanStep
<1>10. lock'.todo = SubSeq(CleanupScript, (d + 1) + 1, 6)
  BY <1>4, <1>5, <1>7
<1>11. EnableGoesOn' /\ DisableGoesOn' /\ EditGoesOn' /\ Complete'
  BY <1>5, <1>7, <1>9, <1>10
  DEF EnableGoesOn, DisableGoesOn, EditGoesOn, Complete, InService
<1> QED BY <1>8, <1>11 DEF Inv

\* A command of an addition or a removal fails: its rule may be left behind.
LEMMA EditFails ==
  ASSUME Inv, CommandFails, lock.op \in {"add", "remove"}
  PROVE  Inv'
<1> DEFINE u == lock.uid
           cmd == Head(lock.todo)
<1>1. TypeOK /\ RulesInOrder /\ Complete /\ EditGoesOn /\ OpsKnow /\ Working
  BY DEF Inv, CommandFails
<1>2. /\ InService /\ u \in Uids /\ (lock.op = "add" => ~Contains(bypass, u))
      /\ lock.op = "remove" => Contains(bypass, u)
      /\ \A k \in Chains : stray'[k] = stray[k] \cup LeftBehind(k)
      /\ UNCHANGED <<mgr, bypass, nat>>
  BY <1>1 DEF OpsKnow, InService, EditGoesOn, CommandFails
<1>3. \A k \in Chains : Exact(k)
  BY <1>1, <1>2 DEF Complete
<1>4. ASSUME \A k \in Chains :
               \/ Listed(k)' = Listed(k) /\ LeftBehind(k) = {}
               \/ /\ u \in Listed(k) /\ Listed(k)' = Listed(k) \ {u}
                  /\ LeftBehind(k) = {u} \ {TorUid}
      PROVE  Complete'
  <2>1. ASSUME NEW k \in Chains PROVE Exact(k)'
    <3>1. k \in nat.hooks /\ Exempts(nat.rules[k], Listed(k), stray[k])
      BY <1>3 DEF Exact
    <3>2. CASE Listed(k)' = Listed(k) /\ LeftBehind(k) = {}
      <4>1. stray'[k] = stray[k]
        BY <1>2, <3>2
      <4> QED BY <1>2, <3>1, <3>2, <4>1 DEF Exact
    <3>3. CASE /\ u \in Listed(k) /\ Listed(k)' = Listed(k) \ {u}
               /\ LeftBehind(k) = {u} \ {TorUid}
      <4>1. stray'[k] = stray[k] \cup ({u} \ {TorUid})
        BY <1>2, <3>3
      <4>2. Exempts(nat.rules[k], Listed(k) \ {u}, stray[k] \cup ({u} \ {TorUid}))
        BY <3>1, <3>3, LeftExempts
      <4> QED BY <1>2, <3>1, <3>3, <4>1, <4>2 DEF Exact
    <3> QED BY <1>4, <3>2, <3>3
  <2> QED BY <2>1 DEF Complete
<1>5. CASE lock.op = "add"
  <2>1. ~Ignored(cmd.act)
    <3>1. PICK c \in Chains : cmd = Cmd("insert", c, u)
      BY <1>1, <1>5, EditNext
    <3> QED BY <3>1 DEF Ignored, Cmd
  <2>2. lock' = Free
    BY <1>5, <2>1 DEF CommandFails, GivesUp
  <2>3. lock' \in Locks /\ lock'.op = "free" /\ lock'.todo = << >>
    BY <2>2, FreeTyped
  <2>4. TypeOK' /\ NoneTwice' /\ RulesInOrder' /\ OpsKnow' /\ DirectIsClean'
    BY <2>3, FailsTyped
  <2>5. EnableGoesOn' /\ DisableGoesOn' /\ EditGoesOn'
    BY <2>3 DEF EnableGoesOn, DisableGoesOn, EditGoesOn
  <2>6. \A k \in Chains : Listed(k)' = {v \in Uids : Contains(bypass, v)}
    BY <1>2, <2>3 DEF Listed, Edited
  <2>7. \A k \in Chains :
           IF Edited(k) THEN Listed(k) = {v \in Uids : v = u \/ Contains(bypass, v)}
                        ELSE Listed(k) = {v \in Uids : Contains(bypass, v)}
    BY <1>5 DEF Listed
  <2>8. ASSUME NEW k \in Chains
        PROVE  \/ Listed(k)' = Listed(k) /\ LeftBehind(k) = {}
               \/ /\ u \in Listed(k) /\ Listed(k)' = Listed(k) \ {u}
                  /\ LeftBehind(k) = {u} \ {TorUid}
    <3>1. LeftBehind(k) = IF Edited(k) THEN {u} \ {TorUid} ELSE {}
      BY <1>1, <1>5, LeftByAddition
    <3> QED BY <1>2, <1>5, <2>6, <2>7, <3>1
  <2>9. Complete'
    BY <1>4, <2>8
  <2> QED BY <2>4, <2>5, <2>9 DEF Inv
<1>6. CASE lock.op = "remove"
  <2>1. Ignored(cmd.act)
    <3>1. PICK c \in Chains : cmd = Cmd("drop", c, u)
      BY <1>1, <1>6, EditNext
    <3> QED BY <3>1 DEF Ignored, Cmd
  <2>2. lock' \in Locks /\ lock'.op = lock.op /\ lock'.uid = u /\ lock'.todo = Tail(lock.todo)
    BY <2>1, FailureIgnored
  <2>3. TypeOK' /\ NoneTwice' /\ RulesInOrder' /\ OpsKnow' /\ DirectIsClean'
    BY <2>2, FailsTyped
  <2>4. PICK c \in Chains :
           /\ cmd = Cmd("drop", c, u)
           /\ lock.op = "remove" => Tail(lock.todo) \in {<< Cmd("drop", "trans", u) >>, << >>}
           /\ ~Edited(c)
           /\ Edited(c)' /\ \A k \in Chains : k # c => (Edited(k)' <=> Edited(k))
    BY <1>1, <1>6, <2>2, EditNext
  <2>5. EnableGoesOn' /\ DisableGoesOn' /\ EditGoesOn'
    BY <1>1, <1>2, <1>6, <2>2, <2>4 DEF EnableGoesOn, DisableGoesOn, EditGoesOn
  <2>6. Listed(c) = {v \in Uids : Contains(bypass, v)}
    BY <2>4 DEF Listed
  <2>7. Listed(c)' = {v \in Uids : IF v = u THEN FALSE ELSE Contains(bypass, v)}
    BY <1>2, <1>6, <2>2, <2>4 DEF Listed
  <2>8. Listed(c)' = Listed(c) \ {u}
    BY <2>6, <2>7
  <2>9. \A k \in Chains : k # c => Listed(k)' = Listed(k)
    BY <1>2, <2>2, <2>4 DEF Listed
  <2>10. u \in Listed(c)
    BY <1>2, <1>6, <2>6
  <2>11. LeftBehind(c) = {u} \ {TorUid} /\ \A k \in Chains : k # c => LeftBehind(k) = {}
    <3>1. cmd.act = "drop" /\ cmd.chain = c /\ cmd.rule = u
      BY <2>4 DEF Cmd
    <3>2. Contains(nat.rules[c], u)
      BY <1>3, <2>10 DEF Exact, Exempts
    <3>3. Feasible(cmd)
      BY <3>1, <3>2 DEF Feasible
    <3> QED BY <1>6, <3>1, <3>3 DEF LeftBehind
  <2>12. Complete'
    BY <1>4, <2>8, <2>9, <2>10, <2>11
  <2> QED BY <2>3, <2>5, <2>12 DEF Inv
<1> QED BY <1>5, <1>6

-----------------------------------------------------------------------------
(* The invariant, and what follows from it. *)

\* Every step keeps the invariant.
LEMMA Invariant == Inv /\ [Next]_vars => Inv'
<1> SUFFICES ASSUME Inv, [Next]_vars PROVE Inv'
  OBVIOUS
<1>1. /\ tor \in {"none", "booting", "up", "hung"} /\ orphan \in BOOLEAN
      /\ mon \in {"wait", "ask", "good", "bad"}
  BY DEF Inv, TypeOK
<1>2. CASE CommandSucceeds
  <2>1. lock.op \in {"enable", "disable", "add", "remove"}
    BY <1>2, SucceedsTyped
  <2> QED BY <1>2, <2>1, EnableSucceeds, DisableSucceeds, EditSucceeds
<1>3. CASE CommandFails
  <2>1. lock.op \in {"enable", "disable", "add", "remove"}
    BY <1>3 DEF CommandFails, Inv, TypeOK
  <2> QED BY <1>3, <2>1, EnableFails, DisableFails, EditFails
<1>4. CASE \/ Enable \/ BootstrapFails \/ Stops \/ NewCircuit \/ ControlEnds
           \/ MonitorTicks \/ MonitorAsks \/ MonitorHears \/ MonitorTells
  BY <1>4, QuietSteps
<1>5. CASE Bootstraps
  BY <1>5, BootstrapsKeeps
<1>6. CASE Enabled
  BY <1>6, EnabledKeeps
<1>7. CASE Disable
  BY <1>7, DisableKeeps
<1>8. ASSUME NEW u \in Uids, AddBypass(u) \/ RemoveBypass(u) PROVE Inv'
  BY <1>8, BypassAsked
<1>9. CASE BypassEdited
  BY <1>9, BypassEditedKeeps
<1>10. CASE Restart
  BY <1>10, RestartKeeps
<1>11. CASE TorChanges
  BY <1>1, <1>11, Aside DEF TorChanges
<1>12. CASE OrphanEnds
  BY <1>1, <1>12, Aside DEF OrphanEnds
<1>13. CASE UNCHANGED vars
  BY <1>1, <1>13, Aside DEF vars
<1> QED
  BY <1>2, <1>3, <1>4, <1>5, <1>6, <1>7, <1>8, <1>9, <1>10, <1>11, <1>12, <1>13
  DEF Next, Request, HolderStep, MonitorStep

\* It always holds.
LEMMA Invariance == Spec => []Inv
<1>1. Init => Inv
  BY Initially
<1>2. Inv /\ [Next]_vars => Inv'
  BY Invariant
<1> QED BY <1>1, <1>2, PTL DEF Spec

\* The variables of every reachable state have their types, and OUTPUT jumps only
\* to chains that exist.
THEOREM TypeCorrect == Spec => []TypeOK
<1>1. Inv => TypeOK
  BY DEF Inv
<1> QED BY <1>1, Invariance, PTL

\* A rule for u before the redirection.
LEMMA DirectIffListed ==
  ASSUME TypeOK, RulesInOrder, NEW c \in Chains, Contains(nat.rules[c], "redirect"),
         NEW u \in Uids \cup {TorUid}
  PROVE  GoesDirect(u, c) <=> Contains(nat.rules[c], u)
<1> DEFINE r == nat.rules[c]
<1>1. r \in Seq(Rules) /\ Len(r) \in Nat
  BY DEF TypeOK
<1>2. OnlyLast(r)
  BY DEF RulesInOrder, InOrder
<1>3. u # "redirect"
  BY NamesAssumption
<1> HIDE DEF r
<1>4. ASSUME NEW i \in 1 .. Len(r), r[i] = u PROVE \A j \in 1 .. i : r[j] # "redirect"
  <2> SUFFICES ASSUME NEW j \in 1 .. i, r[j] = "redirect" PROVE FALSE
    OBVIOUS
  <2>1. j \in 1 .. Len(r)
    BY <1>1
  <2>2. j = Len(r)
    BY <1>2, <2>1 DEF OnlyLast
  <2>3. i = j
    BY <1>1, <2>2
  <2> QED BY <1>3, <1>4, <2>3
<1> QED BY <1>4 DEF GoesDirect, Contains, r

\* Tor's own traffic leaves both chains before they redirect, at every point of
\* apply, of the edits and of the clean-up, and after a restart.
THEOREM TorStaysOutside == Spec => []TorIsNeverLooped
<1>1. Inv => TorIsNeverLooped
  <2> SUFFICES ASSUME Inv, NEW c \in Chains, Redirects(c) PROVE GoesDirect(TorUid, c)
    BY DEF TorIsNeverLooped
  <2>1. TypeOK /\ RulesInOrder /\ Contains(nat.rules[c], "redirect")
    BY DEF Inv, Redirects
  <2>2. Contains(nat.rules[c], TorUid)
    BY <2>1 DEF RulesInOrder, InOrder
  <2> QED BY <2>1, <2>2, DirectIffListed
<1> QED BY <1>1, Invariance, PTL

\* With Tor enabled the uids exempt from a chain are the listed ones, Tor's own, and
\* those for whom a failed edit left a rule in that chain: exactly these.
THEOREM BypassStaysExact == Spec => []BypassIsExact
<1>1. Inv => BypassIsExact
  <2> SUFFICES ASSUME Inv, LockFree, mgr.running, NEW c \in Chains
               PROVE  /\ Redirects(c)
                      /\ \A u \in Uids :
                           GoesDirect(u, c) <=> u \in ToSet(bypass) \cup {TorUid} \cup stray[c]
    BY DEF BypassIsExact
  <2>1. TypeOK /\ RulesInOrder /\ lock.op = "free" /\ bypass \in Seq(Uids)
    BY DEF Inv, LockFree, TypeOK
  <2>2. Exact(c)
    BY <2>1 DEF Inv, Complete, InService
  <2>3. Listed(c) = {u \in Uids : Contains(bypass, u)}
    BY <2>1 DEF Listed, Edited
  <2>4. Redirects(c) /\ Exempts(nat.rules[c], Listed(c), stray[c])
    BY <2>2 DEF Exact, Exempts, Redirects
  <2>5. \A u \in Uids : u \in ToSet(bypass) <=> Contains(bypass, u)
    BY <2>1 DEF ToSet, Contains
  <2>6. \A u \in Uids : GoesDirect(u, c) <=> Contains(nat.rules[c], u)
    BY <2>1, <2>4, DirectIffListed DEF Redirects
  <2>7. Contains(nat.rules[c], TorUid)
    BY <2>1, <2>4 DEF Redirects, RulesInOrder, InOrder
  <2>8. \A u \in Uids : Contains(nat.rules[c], u) <=> u \in Listed(c) \cup {TorUid} \cup stray[c]
    BY <2>4, <2>7 DEF Exempts
  <2> QED BY <2>3, <2>4, <2>5, <2>6, <2>8
<1> QED BY <1>1, Invariance, PTL

\* A disable whose commands all worked leaves no chain and no jump.
THEOREM DisableRestores == Spec => []DisableRestoresRouting
<1>1. Inv => DisableRestoresRouting
  BY DEF Inv, DirectIsClean, DisableRestoresRouting
<1> QED BY <1>1, Invariance, PTL

\* apply meets no refusal that it does not ignore, whatever was left behind.
THEOREM ApplyMeetsNoRefusal == Spec => []ApplyIsIdempotent
<1>1. Inv => ApplyIsIdempotent
  <2> SUFFICES ASSUME Inv, lock.op = "enable", lock.ok, Working
               PROVE  Ignored(Head(lock.todo).act) \/ Feasible(Head(lock.todo))
    BY DEF ApplyIsIdempotent
  <2> DEFINE cmd == Head(lock.todo)
  <2>1. TypeOK /\ bypass \in Seq(Uids) /\ RulesInOrder
    BY DEF Inv, TypeOK
  <2>2. PICK d \in 0 .. Total : Progress(d)
    BY DEF Inv, EnableGoesOn
  <2>3. d # Total /\ cmd = ApplyScript[d + 1]
    BY <2>1, <2>2, EnableAt DEF Progress, Working
  <2>4. /\ Len(bypass) \in Nat /\ Before("dns") = 6 /\ Before("trans") = Len(bypass) + 9
        /\ Size("dns") = Len(bypass) + 2 /\ Size("trans") = Len(bypass) + 3
        /\ Total = 2 * Len(bypass) + 15
    BY <2>1, Sizes
  <2>5. d \in Nat /\ d < Total
    BY <2>3, <2>4
  <2>6. IF d <= 6 THEN Cleaned(d) ELSE d <= Before("trans") => "trans" \notin nat.made
    BY <2>2 DEF Progress
  <2>7. \A c \in Chains : d > Before(c) => c \in nat.made
    BY <2>2 DEF Progress, Built
  <2> HIDE DEF cmd
  <2>8. CASE d < 6 /\ cmd = CleanupScript[d + 1]
    <3>1. d \in 0 .. 5
      BY <2>5, <2>8
    <3> QED BY <2>1, <2>8, <3>1, CleanKeeps DEF cmd
  <2>9. ASSUME NEW c \in Chains, d = Before(c), cmd = Bare("new", c) PROVE Feasible(cmd)
    <3>1. c \notin nat.made
      BY <2>4, <2>6, <2>9 DEF Chains, Cleaned
    <3> QED BY <2>9, <3>1 DEF Bare, Cmd, Feasible
  <2>10. ASSUME NEW c \in Chains, d > Before(c),
                cmd = Bare("hook", c) \/ \E r : cmd = AppendTo(c, r)
         PROVE  Feasible(cmd)
    <3>1. cmd.act \in {"hook", "append"} /\ cmd.chain = c
      BY <2>10 DEF Bare, AppendTo, Cmd
    <3> QED BY <2>7, <2>10, <3>1 DEF Feasible
  <2>11. ASSUME NEW c \in Chains, NEW i \in 1 .. Size(c), d = Before(c) + i,
                cmd = AppendTo(c, RuleAt(c, i))
         PROVE  Feasible(cmd)
    <3>1. d > Before(c)
      BY <2>4, <2>11 DEF Chains
    <3> QED BY <2>10, <2>11, <3>1
  <2>12. ASSUME NEW c \in Chains, d = Total - 2 \/ d = Total - 1, cmd = Bare("hook", c)
         PROVE  Feasible(cmd)
    <3>1. d > Before(c)
      BY <2>4, <2>12 DEF Chains
    <3> QED BY <2>10, <2>12, <3>1
  <2> QED
    BY <2>1, <2>3, <2>5, <2>8, <2>9, <2>11, <2>12, CommandAt DEF cmd, Chains
<1> QED BY <1>1, Invariance, PTL
=============================================================================
