--------------------------- MODULE KillSwitch_proofs ---------------------------
(***************************************************************************)
(* Theorems about KillSwitch for any number of connection tasks, VPN       *)
(* interfaces and endpoints.                                               *)
(***************************************************************************)
EXTENDS KillSwitch, TLAPS

\* The rest of a block sequence after its flush, the DROP still to come.
Refills == { <<"lo", "dst", "out", "drop">>, <<"dst", "out", "drop">>,
             <<"out", "drop">>, <<"drop">> }

\* The commands a task may have left, by what it does.
Rest(op) ==
  CASE op \in Blocks -> {BlockScript, << >>} \cup Refills
    [] op = "disable" -> {RestoreScript, <<"policy">>, << >>}
    [] OTHER -> {<< >>}

\* Checks and reblocks run in the monitor; a failure ends its sequence.
TasksKnow ==
  \A t \in Tasks :
    /\ task[t].todo \in Rest(task[t].op)
    /\ task[t].op \in {"check", "reblock", "dns"} => t = Monitor
    /\ ~task[t].ok => Editing(t) /\ task[t].todo = << >>

\* A block sequence that got past its endpoint rule had an endpoint, and the
\* snapshot it took of one is of a record that keeps having one.
EndpointKnown ==
  /\ st.endpoint # Unset => st.iface # Unset
  /\ \A t \in Tasks :
       /\ task[t].op \in {"enable", "vpn_up"} => task[t].iface # Unset
       /\ task[t].op \in Blocks /\ task[t].ok
            /\ task[t].todo \in {<<"out", "drop">>, <<"drop">>, << >>}
          => task[t].endpoint # Unset
       /\ task[t].op = "vpn_down" /\ task[t].endpoint # Unset => st.endpoint # Unset

\* Before the first flush no sequence got anywhere.
NothingFlushed ==
  flushed.kind = "none" =>
    /\ ~st.active
    /\ \A t \in Tasks : task[t].op \in Blocks /\ task[t].ok => task[t].todo = BlockScript

\* A block that emptied the chain either has refilled it up to the DROP or is
\* still about to.
FlusherRefills ==
  flushed.kind = "block" =>
    \/ Blocking
    \/ \E t \in Tasks : flushed.by = t /\ task[t].todo \in Refills

Inv == TypeOK /\ TasksKnow /\ EndpointKnown /\ NothingFlushed /\ FlusherRefills

BlockingIn(rules) == \E i \in DOMAIN rules : rules[i].kind = "drop"

-----------------------------------------------------------------------------
(* The two sequences and the commands they are made of *)

\* How a sequence goes on, from each of its commands to the next.
LEMMA RestSteps ==
  /\ Head(BlockScript) = "flush" /\ Tail(BlockScript) = <<"lo", "dst", "out", "drop">>
  /\ Head(<<"lo", "dst", "out", "drop">>) = "lo"
  /\ Tail(<<"lo", "dst", "out", "drop">>) = <<"dst", "out", "drop">>
  /\ Head(<<"dst", "out", "drop">>) = "dst" /\ Tail(<<"dst", "out", "drop">>) = <<"out", "drop">>
  /\ Head(<<"out", "drop">>) = "out" /\ Tail(<<"out", "drop">>) = <<"drop">>
  /\ Head(<<"drop">>) = "drop" /\ Tail(<<"drop">>) = << >>
  /\ Head(RestoreScript) = "flush" /\ Tail(RestoreScript) = <<"policy">>
  /\ Head(<<"policy">>) = "policy" /\ Tail(<<"policy">>) = << >>
BY DEF BlockScript, RestoreScript

\* The rests of the sequences are told apart.
LEMMA RestsDiffer ==
  /\ BlockScript # << >> /\ RestoreScript # << >> /\ <<"policy">> # << >>
  /\ RestoreScript # <<"policy">>
  /\ << >> \notin Refills /\ BlockScript \notin Refills
  /\ BlockScript \notin {<<"out", "drop">>, <<"drop">>, << >>}
  /\ <<"lo", "dst", "out", "drop">> \notin {<<"out", "drop">>, <<"drop">>, << >>}
  /\ <<"dst", "out", "drop">> \notin {<<"out", "drop">>, <<"drop">>, << >>}
BY DEF BlockScript, RestoreScript, Refills

\* Every rest is a sequence of commands.
LEMMA RestsAreCommands ==
  /\ BlockScript \in Seq(Commands) /\ RestoreScript \in Seq(Commands)
  /\ <<"policy">> \in Seq(Commands) /\ << >> \in Seq(Commands)
  /\ Refills \subseteq Seq(Commands)
<1>1. /\ <<"lo", "dst", "out", "drop">> \in Seq(Commands)
      /\ <<"dst", "out", "drop">> \in Seq(Commands)
      /\ <<"out", "drop">> \in Seq(Commands)
      /\ <<"drop">> \in Seq(Commands)
  BY DEF Commands
<1>2. BlockScript \in Seq(Commands) /\ RestoreScript \in Seq(Commands)
  BY DEF BlockScript, RestoreScript, Commands
<1>3. <<"policy">> \in Seq(Commands) /\ << >> \in Seq(Commands)
  BY DEF Commands
<1> QED BY <1>1, <1>2, <1>3 DEF Refills

\* A command leaves a chain of rules; only a flush can end blocking, and the
\* DROP, whether it is appended or was there, begins it.
LEMMA ExecutedRules ==
  ASSUME chain \in Seq(Rules), NEW cmd \in Commands,
         NEW iface \in Ifaces \cup {Unset}, NEW endpoint \in Endpoints \cup {Unset}
  PROVE  /\ Executed(cmd, iface, endpoint) \in Seq(Rules)
         /\ cmd # "flush" /\ Blocking => BlockingIn(Executed(cmd, iface, endpoint))
         /\ cmd = "drop" => BlockingIn(Executed(cmd, iface, endpoint))
<1> DEFINE rule == RuleOf(cmd, iface, endpoint)
<1>1. rule \in Rules /\ rule.kind = cmd
  BY DEF RuleOf, Rule, Rules
<1> HIDE DEF rule
<1>2. /\ Append(chain, rule) \in Seq(Rules)
      /\ \A i \in DOMAIN chain : i \in DOMAIN Append(chain, rule) /\ Append(chain, rule)[i] = chain[i]
      /\ Len(chain) + 1 \in DOMAIN Append(chain, rule)
      /\ Append(chain, rule)[Len(chain) + 1] = rule
  BY <1>1
<1>3. << >> \in Seq(Rules)
  OBVIOUS
<1>4. /\ cmd = "flush" => Executed(cmd, iface, endpoint) = << >>
      /\ cmd = "policy" => Executed(cmd, iface, endpoint) = chain
      /\ cmd \notin {"flush", "policy"} =>
           Executed(cmd, iface, endpoint) = IF Decides(rule) THEN Append(chain, rule) ELSE chain
  BY DEF Executed, rule
<1>5. Blocking => BlockingIn(Append(chain, rule))
  BY <1>2 DEF Blocking, BlockingIn
<1>6. Blocking <=> BlockingIn(chain)
  BY DEF Blocking, BlockingIn
<1>7. cmd = "drop" => BlockingIn(Append(chain, rule))
  BY <1>1, <1>2 DEF BlockingIn
<1>8. cmd = "drop" /\ ~Decides(rule) => Blocking
  BY <1>1 DEF Decides, Blocking
<1> QED BY <1>2, <1>3, <1>4, <1>5, <1>6, <1>7, <1>8

-----------------------------------------------------------------------------
(* Type correctness and safety *)

LEMMA InitInv == Init => Inv
<1> SUFFICES ASSUME Init PROVE Inv
  OBVIOUS
<1>1. Idle \in Works /\ Idle.op = "idle" /\ Idle.todo = << >>
  BY RestsAreCommands DEF Idle, Works
<1>2. TypeOK
  BY <1>1, NamesAssumption DEF Init, TypeOK, Fresh, Editing
<1>3. TasksKnow /\ EndpointKnown
  BY <1>1 DEF Init, TasksKnow, EndpointKnown, Rest, Fresh, Blocks, Idle
<1>4. NothingFlushed /\ FlusherRefills
  BY <1>1 DEF Init, NothingFlushed, FlusherRefills, Fresh, Blocks
<1> QED BY <1>2, <1>3, <1>4 DEF Inv

\* A task that takes up a fresh sequence keeps the invariant, provided it was
\* not editing and its snapshot is one that the record supports.
LEMMA StartInv ==
  ASSUME Inv, NEW t \in Tasks, NEW w \in Works, ~Editing(t), Starts(t, w),
         UNCHANGED <<st, chain, routes, flushed, clean>>,
         w.op \in Blocks \cup {"disable"}, w.todo \in {BlockScript, RestoreScript},
         w.op \in Blocks <=> w.todo = BlockScript, w.ok,
         w.op = "reblock" => t = Monitor,
         w.op \in {"enable", "vpn_up"} => w.iface # Unset,
         w.op = "vpn_down" /\ w.endpoint # Unset => st.endpoint # Unset
  PROVE  Inv'
<1> USE DEF Inv
<1>1. /\ task' \in [Tasks -> Works]
      /\ \A u \in Tasks \ {t} :
           /\ task'[u].op = task[u].op /\ task'[u].todo = task[u].todo
           /\ task'[u].ok = task[u].ok /\ task'[u].iface = task[u].iface
           /\ task'[u].endpoint = task[u].endpoint
      /\ task'[t].op = w.op /\ task'[t].todo = w.todo /\ task'[t].ok = w.ok
      /\ task'[t].iface = w.iface /\ task'[t].endpoint = w.endpoint
  <2> DEFINE lonely == w.alone /\ \A v \in Tasks \ {t} : ~Editing(v)
             mine == [w EXCEPT !.alone = lonely]
             other(u) == [task[u] EXCEPT !.alone = FALSE]
  <2>1. lonely \in BOOLEAN
    BY DEF Works
  <2>2. task' = [u \in Tasks |-> IF u = t THEN mine ELSE other(u)]
    BY DEF Starts
  <2> HIDE DEF lonely
  <2>3. /\ mine \in Works /\ mine.op = w.op /\ mine.todo = w.todo /\ mine.ok = w.ok
        /\ mine.iface = w.iface /\ mine.endpoint = w.endpoint
    BY <2>1 DEF Works
  <2>4. \A u \in Tasks : /\ other(u) \in Works /\ other(u).op = task[u].op
                         /\ other(u).todo = task[u].todo /\ other(u).ok = task[u].ok
                         /\ other(u).iface = task[u].iface
                         /\ other(u).endpoint = task[u].endpoint
    BY ZenonT(30) DEF TypeOK, Works
  <2> HIDE DEF mine, other
  <2> QED BY <2>2, <2>3, <2>4
<1>2. task[t].todo = << >>
  BY DEF TypeOK
<1>3. TypeOK'
  BY <1>1 DEF TypeOK, Editing, Blocks
<1>4. TasksKnow'
  <2>1. w.todo \in Rest(w.op) /\ Editing(t)'
    BY <1>1 DEF Rest, Blocks, Editing
  <2>2. \A u \in Tasks \ {t} : (Editing(u) <=> Editing(u)')
    BY <1>1 DEF Editing
  <2> QED BY ZenonT(30), <1>1, <2>1, <2>2 DEF TasksKnow, Blocks
<1>5. EndpointKnown'
  BY <1>1, RestsDiffer DEF EndpointKnown, Blocks
<1>6. NothingFlushed'
  BY <1>1 DEF NothingFlushed
<1>7. FlusherRefills'
  BY <1>1, <1>2, RestsDiffer DEF FlusherRefills, Blocking
<1> QED BY <1>3, <1>4, <1>5, <1>6, <1>7

\* A request starts its sequence from the record or from its arguments.
LEMMA RequestInv == ASSUME Inv, NEW c \in Clients, Request(c) PROVE Inv'
<1> USE DEF Inv
<1>1. c \in Tasks /\ (Ready(c) => ~Editing(c))
  BY DEF Tasks, Ready, Editing
<1>2. ASSUME NEW i \in Ifaces, NEW e \in Endpoints, Enable(c, i, e) PROVE Inv'
  <2> DEFINE w == Work("enable", BlockScript, i, e)
  <2>1. /\ w \in Works /\ w.op = "enable" /\ w.todo = BlockScript /\ w.ok
        /\ w.iface = i /\ w.endpoint = e
    BY RestsAreCommands DEF Work, Idle, Works, Blocks
  <2>2. i # Unset
    BY NamesAssumption
  <2> HIDE DEF w
  <2> QED BY <1>1, <1>2, <2>1, <2>2, StartInv DEF Enable, w, Blocks
<1>3. CASE Disable(c)
  <2> DEFINE w == Work("disable", RestoreScript, Unset, Unset)
  <2>1. w \in Works /\ w.op = "disable" /\ w.todo = RestoreScript /\ w.ok
    BY RestsAreCommands DEF Work, Idle, Works, Blocks
  <2>2. RestoreScript # BlockScript
    BY RestSteps DEF BlockScript, RestoreScript
  <2> HIDE DEF w
  <2> QED BY <1>1, <1>3, <2>1, <2>2, StartInv DEF Disable, w, Blocks
<1>4. ASSUME NEW i \in Ifaces, VpnUp(c, i) PROVE Inv'
  <2> DEFINE w == Work("vpn_up", BlockScript, i, st.endpoint)
  <2>1. /\ w \in Works /\ w.op = "vpn_up" /\ w.todo = BlockScript /\ w.ok
        /\ w.iface = i /\ i # Unset
    BY RestsAreCommands, NamesAssumption DEF Work, Idle, Works, Blocks, TypeOK
  <2> HIDE DEF w
  <2> QED BY <1>1, <1>4, <2>1, StartInv DEF VpnUp, w, Blocks
<1>5. CASE VpnDown(c)
  <2> DEFINE w == Work("vpn_down", BlockScript, st.iface, st.endpoint)
  <2>1. /\ w \in Works /\ w.op = "vpn_down" /\ w.todo = BlockScript /\ w.ok
        /\ w.endpoint = st.endpoint
    BY RestsAreCommands DEF Work, Idle, Works, Blocks, TypeOK
  <2> HIDE DEF w
  <2> QED BY <1>1, <1>5, <2>1, StartInv DEF VpnDown, w, Blocks
<1> QED BY <1>2, <1>3, <1>4, <1>5 DEF Request

\* A task with commands left is running one of the two sequences.
LEMMA CommandsLeft ==
  ASSUME Inv, NEW t \in Tasks, task[t].todo # << >>
  PROVE  /\ task[t].ok
         /\ \/ task[t].op \in Blocks /\ task[t].todo \in {BlockScript} \cup Refills
            \/ task[t].op = "disable" /\ task[t].todo \in {RestoreScript, <<"policy">>}
         /\ Head(task[t].todo) \in Commands
         /\ Tail(task[t].todo) \in Rest(task[t].op)
         /\ Head(task[t].todo) = "flush" <=> task[t].todo \in {BlockScript, RestoreScript}
<1>1. /\ task[t].ok
      /\ \/ task[t].op \in Blocks /\ task[t].todo \in {BlockScript} \cup Refills
         \/ task[t].op = "disable" /\ task[t].todo \in {RestoreScript, <<"policy">>}
  BY DEF Inv, TasksKnow, Rest, Blocks
<1>2. CASE task[t].op \in Blocks /\ task[t].todo \in {BlockScript} \cup Refills
  <2>1. Tail(task[t].todo) \in Refills \cup {<< >>} /\ Head(task[t].todo) \in Commands
    BY <1>2, RestSteps DEF Refills, Commands
  <2>2. Head(task[t].todo) = "flush" <=> task[t].todo \in {BlockScript, RestoreScript}
    BY <1>2, RestSteps DEF Refills
  <2>3. Rest(task[t].op) = {BlockScript, << >>} \cup Refills
    BY <1>2 DEF Rest, Blocks
  <2> QED BY <1>1, <2>1, <2>2, <2>3
<1>3. CASE task[t].op = "disable" /\ task[t].todo \in {RestoreScript, <<"policy">>}
  <2>1. Tail(task[t].todo) \in {<<"policy">>, << >>} /\ Head(task[t].todo) \in Commands
    BY <1>3, RestSteps DEF Commands
  <2>2. Head(task[t].todo) = "flush" <=> task[t].todo \in {BlockScript, RestoreScript}
    BY <1>3, RestSteps
  <2> QED BY <1>1, <1>3, <2>1, <2>2 DEF Rest, Blocks
<1> QED BY <1>1, <1>2, <1>3

LEMMA SucceedsInv == ASSUME Inv, NEW t \in Tasks, CommandSucceeds(t) PROVE Inv'
<1> USE DEF Inv
<1> DEFINE w == task[t]
<1>1. w.todo # << >> /\ w \in Works
  BY DEF CommandSucceeds, TypeOK
<1>2. /\ w.ok
      /\ \/ w.op \in Blocks /\ w.todo \in {BlockScript} \cup Refills
         \/ w.op = "disable" /\ w.todo \in {RestoreScript, <<"policy">>}
      /\ Head(w.todo) \in Commands
      /\ Tail(w.todo) \in Rest(w.op)
      /\ Head(w.todo) = "flush" <=> w.todo \in {BlockScript, RestoreScript}
  BY <1>1, CommandsLeft
<1>3. Tail(w.todo) \in Seq(Commands)
  BY <1>2, RestsAreCommands DEF Rest
<1>4. /\ task' \in [Tasks -> Works]
      /\ \A u \in Tasks \ {t} : task'[u] = task[u]
      /\ task'[t] = [w EXCEPT !.todo = Tail(@)]
  BY <1>1, <1>3 DEF CommandSucceeds, TypeOK, Works
<1>5. /\ task'[t].todo = Tail(w.todo) /\ task'[t].op = w.op /\ task'[t].ok = w.ok
      /\ task'[t].iface = w.iface /\ task'[t].endpoint = w.endpoint
  BY <1>1, <1>4 DEF Works
<1>6. /\ chain' \in Seq(Rules)
      /\ Head(w.todo) # "flush" /\ Blocking => Blocking'
      /\ Head(w.todo) = "drop" => Blocking'
  <2>1. /\ chain \in Seq(Rules)
        /\ w.iface \in Ifaces \cup {Unset} /\ w.endpoint \in Endpoints \cup {Unset}
    BY <1>1 DEF TypeOK, Works
  <2>2. chain' = Executed(Head(w.todo), w.iface, w.endpoint)
    BY DEF CommandSucceeds
  <2>3. BlockingIn(chain') <=> Blocking'
    BY DEF Blocking, BlockingIn
  <2> HIDE DEF w
  <2> QED BY <1>2, <2>1, <2>2, <2>3, ExecutedRules
<1>7. /\ st' = st /\ routes' = routes /\ clean' = clean
      /\ flushed' = IF Head(w.todo) = "flush"
           THEN [by |-> t, kind |-> IF w.op = "disable" THEN "restore" ELSE "block"]
           ELSE flushed
  BY DEF CommandSucceeds
<1>8. w.todo = <<"dst", "out", "drop">> => w.endpoint # Unset
  BY RestSteps DEF CommandSucceeds, Refused
<1> HIDE DEF w
<1>9. TypeOK'
  <2>1. flushed' \in [by : Tasks \cup {Unset}, kind : {"none", "block", "restore", "broken"}]
    BY <1>7 DEF TypeOK
  <2>2. \A u \in Tasks : (task[u].todo # << >> => Editing(u))
    BY DEF TypeOK
  <2>3. Editing(t)'
    BY <1>2, <1>5 DEF Editing, Blocks
  <2>4. \A u \in Tasks : (task[u].todo # << >> => Editing(u))'
    BY <1>4, <2>2, <2>3 DEF Editing
  <2> QED BY <1>4, <1>6, <1>7, <2>1, <2>4 DEF TypeOK
<1>10. TasksKnow'
  BY ZenonT(30), <1>2, <1>4, <1>5 DEF TasksKnow, Editing, w
<1>11. EndpointKnown'
  <2>1. w.op \in Blocks /\ Tail(w.todo) \in {<<"out", "drop">>, <<"drop">>, << >>} =>
           w.todo \in {<<"dst", "out", "drop">>, <<"out", "drop">>, <<"drop">>}
    BY <1>2, RestSteps, RestsDiffer DEF Refills, Blocks
  <2>2. w.op \in Blocks /\ Tail(w.todo) \in {<<"out", "drop">>, <<"drop">>, << >>} =>
           w.endpoint # Unset
    BY <1>2, <1>8, <2>1 DEF EndpointKnown, w
  <2> QED BY ZenonT(30), <1>4, <1>5, <1>7, <2>2 DEF EndpointKnown, w
<1>12. NothingFlushed'
  <2>1. CASE Head(w.todo) = "flush"
    BY <1>7, <2>1 DEF NothingFlushed
  <2>2. CASE Head(w.todo) # "flush"
    <3>1. flushed.kind = "none" => w.op \notin Blocks
      BY <1>2, <2>2, RestSteps DEF NothingFlushed, w
    <3> QED BY <1>4, <1>5, <1>7, <2>2, <3>1 DEF NothingFlushed
  <2> QED BY <2>1, <2>2
<1>13. FlusherRefills'
  <2>1. CASE Head(w.todo) = "flush"
    <3>1. w.op # "disable" => w.op \in Blocks /\ Tail(w.todo) \in Refills
      BY <1>2, <2>1, RestSteps DEF Refills, Blocks
    <3> QED BY <1>5, <1>7, <2>1, <3>1 DEF FlusherRefills
  <2>2. CASE Head(w.todo) # "flush"
    <3>1. w.todo \in Refills => Head(w.todo) = "drop" \/ Tail(w.todo) \in Refills
      BY RestSteps DEF Refills
    <3> QED BY <1>4, <1>5, <1>6, <1>7, <2>2, <3>1 DEF FlusherRefills, w
  <2> QED BY <2>1, <2>2
<1> QED BY <1>9, <1>10, <1>11, <1>12, <1>13

LEMMA FailsInv == ASSUME Inv, NEW t \in Tasks, CommandFails(t) PROVE Inv'
<1> USE DEF Inv
<1> DEFINE w == task[t]
<1>1. w.todo # << >> /\ w \in Works
  BY DEF CommandFails, TypeOK
<1>2. /\ w.op \in Blocks \cup {"disable"}
      /\ Head(w.todo) = "flush" <=> w.todo \in {BlockScript, RestoreScript}
      /\ w.todo \in Refills => Head(w.todo) # "flush"
  BY <1>1, CommandsLeft, RestSteps, RestsDiffer DEF Refills
<1>3. /\ task' \in [Tasks -> Works]
      /\ \A u \in Tasks \ {t} : task'[u] = task[u]
      /\ task'[t].todo = << >> /\ task'[t].op = w.op /\ ~task'[t].ok
      /\ task'[t].iface = w.iface /\ task'[t].endpoint = Unset
  BY <1>1, RestsAreCommands DEF CommandFails, TypeOK, Works
<1>4. /\ st' = st /\ routes' = routes /\ clean' = clean /\ chain' = chain
      /\ flushed' = IF flushed.by = t /\ Head(w.todo) # "flush"
                      THEN [by |-> Unset, kind |-> "broken"] ELSE flushed
  BY DEF CommandFails
<1> HIDE DEF w
<1>5. TypeOK'
  BY <1>3, <1>4 DEF TypeOK, Editing
<1>6. TasksKnow'
  <2>1. << >> \in Rest(w.op) /\ Editing(t)'
    BY <1>2, <1>3 DEF Rest, Editing, Blocks
  <2> QED BY <1>3, <2>1 DEF TasksKnow, Editing, w
<1>7. EndpointKnown'
  BY <1>3, <1>4 DEF EndpointKnown, w
<1>8. NothingFlushed'
  BY <1>3, <1>4 DEF NothingFlushed
<1>9. FlusherRefills'
  BY <1>2, <1>3, <1>4 DEF FlusherRefills, Blocking, w
<1> QED BY <1>5, <1>6, <1>7, <1>8, <1>9

\* What an ended sequence records is well-formed and keeps the endpoint.
LEMMA RecordedKnown ==
  ASSUME Inv, NEW t \in Tasks, Editing(t), task[t].todo = << >>
  PROVE  LET r == Recorded(task[t]) IN
         /\ r \in [active : BOOLEAN, iface : Ifaces \cup {Unset},
                   endpoint : Endpoints \cup {Unset}, vpnUp : BOOLEAN, leaked : 0..MaxLeaked]
         /\ r.active => r.iface # Unset /\ r.endpoint # Unset
         /\ r.endpoint # Unset => r.iface # Unset
         /\ st.endpoint # Unset => r.endpoint # Unset
         /\ flushed.kind = "none" => ~r.active
<1> USE DEF Inv
<1> DEFINE w == task[t]
<1>1. /\ w \in Works
      /\ st \in [active : BOOLEAN, iface : Ifaces \cup {Unset},
                 endpoint : Endpoints \cup {Unset}, vpnUp : BOOLEAN, leaked : 0..MaxLeaked]
  BY DEF TypeOK
<1>2. w.op \in Blocks /\ w.ok => w.endpoint # Unset /\ flushed.kind # "none"
  BY RestsDiffer DEF EndpointKnown, NothingFlushed
<1>3. /\ w.op \in {"enable", "vpn_up"} => w.iface # Unset
      /\ w.op = "vpn_down" /\ w.endpoint # Unset => st.endpoint # Unset
      /\ st.endpoint # Unset => st.iface # Unset
  BY DEF EndpointKnown
<1>4. /\ st.active => st.iface # Unset /\ st.endpoint # Unset
      /\ flushed.kind = "none" => ~st.active
  BY DEF TypeOK, NothingFlushed
<1> HIDE DEF w
<1> SUFFICES
      LET r == Recorded(w) IN
         /\ r \in [active : BOOLEAN, iface : Ifaces \cup {Unset},
                   endpoint : Endpoints \cup {Unset}, vpnUp : BOOLEAN, leaked : 0..MaxLeaked]
         /\ r.active => r.iface # Unset /\ r.endpoint # Unset
         /\ r.endpoint # Unset => r.iface # Unset
         /\ st.endpoint # Unset => r.endpoint # Unset
         /\ flushed.kind = "none" => ~r.active
  BY DEF w
<1>5. CASE w.op = "enable" /\ w.ok
  <2>1. Recorded(w) = [st EXCEPT !.active = TRUE, !.iface = w.iface, !.endpoint = w.endpoint]
    BY <1>5 DEF Recorded
  <2> QED BY <1>1, <1>2, <1>3, <1>5, <2>1 DEF Works, Blocks
<1>6. CASE w.op = "disable" /\ w.ok
  <2>1. Recorded(w) = [st EXCEPT !.active = FALSE]
    BY <1>6 DEF Recorded
  <2> QED BY <1>1, <1>3, <1>4, <2>1
<1>7. CASE w.op = "vpn_up"
  <2>1. Recorded(w) = [st EXCEPT !.vpnUp = TRUE, !.iface = w.iface]
    BY <1>7 DEF Recorded
  <2> QED BY <1>1, <1>3, <1>4, <1>7, <2>1 DEF Works
<1>8. CASE w.op = "vpn_down" /\ w.ok
  <2>1. Recorded(w) = [st EXCEPT !.vpnUp = FALSE, !.active = TRUE]
    BY <1>8 DEF Recorded
  <2> QED BY <1>1, <1>2, <1>3, <1>8, <2>1 DEF Blocks
<1>9. CASE w.op = "reblock"
  <2>1. Recorded(w) = [st EXCEPT !.vpnUp = FALSE]
    BY <1>9 DEF Recorded
  <2> QED BY <1>1, <1>3, <1>4, <2>1
<1>10. CASE /\ ~(w.op = "enable" /\ w.ok) /\ ~(w.op = "disable" /\ w.ok)
            /\ w.op # "vpn_up" /\ ~(w.op = "vpn_down" /\ w.ok) /\ w.op # "reblock"
  <2>1. Recorded(w) = st
    BY <1>10 DEF Recorded
  <2> QED BY <1>1, <1>3, <1>4, <2>1
<1> QED BY <1>5, <1>6, <1>7, <1>8, <1>9, <1>10

\* A task outside every sequence: no commands, nothing recorded.
Resting == {w \in Works : w.op \in {"idle", "check", "dns"} /\ w.todo = << >> /\ w.ok}

\* A task that had no commands left comes to rest and the record changes to
\* one that still supports the others.
LEMMA RestInv ==
  ASSUME Inv, NEW t \in Tasks, NEW w \in Resting,
         w.op \in {"check", "dns"} => t = Monitor,
         task[t].todo = << >>, task' = [task EXCEPT ![t] = w],
         st' \in [active : BOOLEAN, iface : Ifaces \cup {Unset},
                  endpoint : Endpoints \cup {Unset}, vpnUp : BOOLEAN, leaked : 0..MaxLeaked],
         st'.active => st'.iface # Unset /\ st'.endpoint # Unset,
         st'.endpoint # Unset => st'.iface # Unset,
         st.endpoint # Unset => st'.endpoint # Unset,
         flushed.kind = "none" => ~st'.active,
         flushed' \in {flushed, [flushed EXCEPT !.by = Unset]},
         flushed.by # t => flushed' = flushed,
         clean' \in BOOLEAN, UNCHANGED <<chain, routes>>
  PROVE  Inv'
<1> USE DEF Inv
<1>1. /\ task' \in [Tasks -> Works] /\ task'[t] = w
      /\ \A u \in Tasks \ {t} : task'[u] = task[u]
  BY DEF TypeOK, Resting
<1>2. /\ flushed' \in [by : Tasks \cup {Unset}, kind : {"none", "block", "restore", "broken"}]
      /\ flushed'.kind = flushed.kind
  BY DEF TypeOK
<1>3. TypeOK'
  BY <1>1, <1>2 DEF TypeOK, Editing, Resting
<1>4. TasksKnow'
  <2>1. w.todo \in Rest(w.op)
    BY DEF Resting, Rest, Blocks
  <2> QED BY <1>1, <2>1 DEF TasksKnow, Editing, Resting
<1>5. EndpointKnown'
  BY <1>1 DEF EndpointKnown, Resting, Blocks
<1>6. NothingFlushed'
  BY <1>1, <1>2 DEF NothingFlushed, Resting, Blocks
<1>7. FlusherRefills'
  BY <1>1, <1>2, RestsDiffer DEF FlusherRefills, Blocking
<1> QED BY <1>3, <1>4, <1>5, <1>6, <1>7

LEMMA IdleRests ==
  /\ Idle \in Resting /\ Idle.op = "idle" /\ ~Idle.alone
  /\ [Idle EXCEPT !.op = "dns"] \in Resting /\ [Idle EXCEPT !.op = "dns"].op = "dns"
  /\ ~[Idle EXCEPT !.op = "dns"].alone
BY RestsAreCommands DEF Idle, Works, Resting

LEMMA FinishInv == ASSUME Inv, NEW t \in Tasks, Finish(t) PROVE Inv'
<1> DEFINE w == IF t = Monitor THEN [Idle EXCEPT !.op = "dns"] ELSE Idle
<1>1. Editing(t) /\ task[t].todo = << >> /\ st' = Recorded(task[t])
  BY DEF Finish
<1>2. w \in Resting /\ (w.op \in {"check", "dns"} => t = Monitor)
  BY IdleRests
<1>3. task' = [task EXCEPT ![t] = w] /\ UNCHANGED <<chain, routes>>
  BY DEF Finish
<1>4. /\ flushed' \in {flushed, [flushed EXCEPT !.by = Unset]}
      /\ flushed.by # t => flushed' = flushed
  BY DEF Finish
<1>5. clean' \in BOOLEAN
  <2>1. task[t].alone \in BOOLEAN /\ task[t].ok \in BOOLEAN
    BY DEF Inv, TypeOK, Works
  <2>2. clean' = (task[t].alone /\ task[t].ok)
    BY DEF Finish
  <2> QED BY <2>1, <2>2
<1> HIDE DEF w
<1> QED BY <1>1, <1>2, <1>3, <1>4, <1>5, RecordedKnown, RestInv

\* Between its sequences the monitor only takes snapshots and counts.
LEMMA MonitorRestsInv ==
  ASSUME Inv, MonitorSnapshots \/ MonitorSeesRoute \/ MonitorCountsDns
  PROVE  Inv'
<1>1. /\ Monitor \in Tasks /\ st.active \in BOOLEAN
      /\ st \in [active : BOOLEAN, iface : Ifaces \cup {Unset},
                 endpoint : Endpoints \cup {Unset}, vpnUp : BOOLEAN, leaked : 0..MaxLeaked]
      /\ st.active => st.iface # Unset /\ st.endpoint # Unset
      /\ st.endpoint # Unset => st.iface # Unset
      /\ flushed.kind = "none" => ~st.active
      /\ clean \in BOOLEAN
      /\ task[Monitor].op \in {"idle", "check", "dns"} => task[Monitor].todo = << >>
  BY DEF Inv, TypeOK, EndpointKnown, NothingFlushed, Tasks, Editing
<1>2. CASE MonitorSnapshots
  <2> DEFINE lonely == \A c \in Clients : ~Editing(c)
             w == [Work("check", << >>, st.iface, st.endpoint) EXCEPT
                     !.active = st.active, !.alone = lonely]
  <2>1. lonely \in BOOLEAN
    OBVIOUS
  <2>2. task' = [task EXCEPT ![Monitor] = w] /\ task[Monitor].op = "idle"
    BY <1>2 DEF MonitorSnapshots, Ready
  <2> HIDE DEF lonely
  <2>3. w \in Resting
    BY <1>1, <2>1, RestsAreCommands DEF Work, Idle, Works, Resting
  <2> HIDE DEF w
  <2> QED BY ZenonT(30), <1>1, <1>2, <2>2, <2>3, RestInv DEF MonitorSnapshots
<1>3. CASE MonitorSeesRoute
  BY <1>1, <1>3, IdleRests, RestInv DEF MonitorSeesRoute
<1>4. CASE MonitorCountsDns
  <2>1. /\ st' \in [active : BOOLEAN, iface : Ifaces \cup {Unset},
                    endpoint : Endpoints \cup {Unset}, vpnUp : BOOLEAN, leaked : 0..MaxLeaked]
        /\ st'.active = st.active /\ st'.iface = st.iface /\ st'.endpoint = st.endpoint
    BY <1>1, <1>4, NamesAssumption DEF MonitorCountsDns
  <2> QED BY <1>1, <1>4, <2>1, IdleRests, RestInv DEF MonitorCountsDns
<1> QED BY <1>2, <1>3, <1>4

LEMMA ReblockInv == ASSUME Inv, MonitorReblocks PROVE Inv'
<1> DEFINE w == [task[Monitor] EXCEPT !.op = "reblock", !.todo = BlockScript]
<1>1. /\ Monitor \in Tasks /\ task[Monitor].op = "check" /\ task[Monitor] \in Works
      /\ ~Editing(Monitor) /\ task[Monitor].ok
  BY DEF Inv, TypeOK, TasksKnow, MonitorReblocks, Tasks, Editing, Works
<1>2. w \in Works /\ w.op = "reblock" /\ w.todo = BlockScript /\ w.ok
  BY <1>1, RestsAreCommands DEF Works, Blocks
<1>3. Starts(Monitor, w) /\ UNCHANGED <<st, chain, routes, flushed, clean>>
  BY DEF MonitorReblocks
<1> HIDE DEF w
<1> QED BY <1>1, <1>2, <1>3, StartInv DEF Blocks

LEMMA RestartInv == ASSUME Inv, Restart PROVE Inv'
<1> USE DEF Inv
<1>1. /\ task' = [t \in Tasks |-> Idle] /\ st' = Fresh /\ clean' = FALSE
      /\ UNCHANGED <<chain, routes>>
      /\ flushed'.by = Unset
      /\ flushed'.kind = IF \E t \in Tasks : flushed.by = t /\ task[t].todo # << >>
                           THEN "broken" ELSE flushed.kind
      /\ flushed' \in [by : Tasks \cup {Unset}, kind : {"none", "block", "restore", "broken"}]
  BY DEF Restart, TypeOK
<1>2. Idle \in Works /\ Idle.op = "idle" /\ Idle.todo = << >> /\ Idle.ok
  BY IdleRests DEF Resting
<1>3. TypeOK'
  <2>1. /\ st' \in [active : BOOLEAN, iface : Ifaces \cup {Unset},
                    endpoint : Endpoints \cup {Unset}, vpnUp : BOOLEAN, leaked : 0..MaxLeaked]
        /\ ~st'.active
    BY <1>1, NamesAssumption DEF Fresh
  <2>2. /\ task' \in [Tasks -> Works]
        /\ \A t \in Tasks : (task[t].todo # << >> => Editing(t))'
    BY <1>1, <1>2 DEF Editing
  <2>3. chain' \in Seq(Rules) /\ routes' \in SUBSET Ifaces /\ clean' \in BOOLEAN
    BY <1>1 DEF TypeOK
  <2> QED BY <1>1, <2>1, <2>2, <2>3 DEF TypeOK
<1>4. TasksKnow' /\ EndpointKnown' /\ NothingFlushed'
  BY <1>1, <1>2 DEF TasksKnow, EndpointKnown, NothingFlushed, Rest, Fresh, Blocks
<1>5. FlusherRefills'
  BY <1>1, RestsDiffer DEF FlusherRefills, Blocking
<1> QED BY <1>3, <1>4, <1>5

LEMMA RoutesInv == ASSUME Inv, NEW i \in Ifaces, RouteChanges(i) PROVE Inv'
BY DEF RouteChanges, Inv, TypeOK, TasksKnow, EndpointKnown, NothingFlushed,
       FlusherRefills, Blocking, Editing

LEMMA StutterInv == ASSUME Inv, UNCHANGED vars PROVE Inv'
BY DEF vars, Inv, TypeOK, TasksKnow, EndpointKnown, NothingFlushed,
       FlusherRefills, Blocking, Editing

\* Every step keeps the invariant.
LEMMA StepInv == Inv /\ [Next]_vars => Inv'
BY RequestInv, SucceedsInv, FailsInv, FinishInv, MonitorRestsInv, ReblockInv,
   RestartInv, RoutesInv, StutterInv DEF Next

\* The strengthened invariant holds throughout.
THEOREM Invariance == Spec => []Inv
<1> QED BY InitInv, StepInv, PTL DEF Spec

\* The variables keep their types, commands are left only to tasks that edit,
\* and an active switch always knows its interface and endpoint, for any
\* number of connection tasks.
THEOREM TypeCorrect == Spec => []TypeOK
<1>1. Inv => TypeOK
  BY DEF Inv
<1> QED BY <1>1, Invariance, PTL

\* However many requests overlap with each other and with the monitor, an
\* active switch is open only after a Disable, a failure or a restart.
THEOREM StaysBlocked == Spec => []OpenOnlyByDisableOrFailure
<1>1. Inv => OpenOnlyByDisableOrFailure
  <2> SUFFICES ASSUME Inv, Settled, st.active, ~Blocking
               PROVE  flushed.kind \in {"restore", "broken"}
    BY DEF OpenOnlyByDisableOrFailure
  <2>1. flushed.kind \in {"none", "block", "restore", "broken"} /\ flushed.kind # "none"
    BY DEF Inv, TypeOK, NothingFlushed
  <2>2. flushed.kind # "block"
    BY RestsDiffer DEF Inv, TypeOK, FlusherRefills, Settled
  <2> QED BY <2>1, <2>2
<1> QED BY <1>1, Invariance, PTL

\* At every moment: an open chain under an active switch is explained, or whoever
\* flushed it is about to put the DROP in, for any number of tasks.
THEOREM DropComes == Spec => []DropIsOnItsWay
<1>1. Inv => DropIsOnItsWay
  <2> SUFFICES ASSUME Inv, st.active, ~Blocking, flushed.kind \notin {"restore", "broken"}
               PROVE  \E t \in Tasks : flushed.by = t
                        /\ \E i \in DOMAIN task[t].todo : task[t].todo[i] = "drop"
    BY DEF DropIsOnItsWay
  <2>1. flushed.kind = "block"
    BY DEF Inv, TypeOK, NothingFlushed
  <2>2. PICK t \in Tasks : flushed.by = t /\ task[t].todo \in Refills
    BY <2>1 DEF Inv, FlusherRefills
  <2>3. \A rest \in Refills : \E i \in DOMAIN rest : rest[i] = "drop"
    <3>1. /\ DOMAIN <<"lo", "dst", "out", "drop">> = 1 .. 4
          /\ DOMAIN <<"dst", "out", "drop">> = 1 .. 3
          /\ DOMAIN <<"out", "drop">> = 1 .. 2 /\ DOMAIN <<"drop">> = 1 .. 1
      OBVIOUS
    <3>2. /\ <<"lo", "dst", "out", "drop">>[4] = "drop" /\ <<"dst", "out", "drop">>[3] = "drop"
          /\ <<"out", "drop">>[2] = "drop" /\ <<"drop">>[1] = "drop"
      OBVIOUS
    <3> QED BY <3>1, <3>2 DEF Refills
  <2> QED BY <2>2, <2>3
<1> QED BY <1>1, Invariance, PTL

-----------------------------------------------------------------------------
(* Undisturbed sequences *)

\* The prefix of the rules that a block sequence with this rest has put in.
Prefix(rest, iface, endpoint) ==
  CASE rest = <<"lo", "dst", "out", "drop">> -> << >>
    [] rest = <<"dst", "out", "drop">> -> << Rule("lo", Unset) >>
    [] rest = <<"out", "drop">> -> << Rule("lo", Unset), Rule("dst", endpoint) >>
    [] rest = <<"drop">> ->
         << Rule("lo", Unset), Rule("dst", endpoint), Rule("out", iface) >>
    [] OTHER -> BlockRules(iface, endpoint)

\* What a sequence that has been alone so far found in the record.
SnapshotFits(w) ==
  /\ w.op \in {"vpn_up", "vpn_down", "reblock", "check"} => w.endpoint = st.endpoint
  /\ w.op \in {"vpn_down", "reblock", "check"} => w.iface = st.iface

\* A sequence that has been alone and lucky so far is the only one, its
\* snapshot still fits and the chain is as far as its commands are.
AloneIsExact ==
  \A t \in Tasks : LET w == task[t] IN
    w.alone =>
      /\ w.ok
      /\ \A u \in Tasks \ {t} : ~Editing(u)
      /\ SnapshotFits(w)
      /\ w.op \in Blocks /\ w.todo # BlockScript
           => chain = Prefix(w.todo, w.iface, w.endpoint)
      /\ w.op = "disable" /\ w.todo # RestoreScript => chain = << >>

IdleIsFresh ==
  \A t \in Tasks : task[t].op \in {"idle", "dns"} => ~task[t].alone

Exact == AloneIsExact /\ IdleIsFresh /\ RulesMatchRecord

\* A short sequence is known by its length and its elements.
LEMMA ShortSequences ==
  ASSUME NEW S, NEW s \in Seq(S), NEW a \in S, NEW b \in S, NEW c \in S, NEW d \in S
  PROVE  /\ Len(s) = 2 /\ s[1] = a /\ s[2] = b => s = <<a, b>>
         /\ Len(s) = 3 /\ s[1] = a /\ s[2] = b /\ s[3] = c => s = <<a, b, c>>
         /\ Len(s) = 4 /\ s[1] = a /\ s[2] = b /\ s[3] = c /\ s[4] = d
              => s = <<a, b, c, d>>
OBVIOUS

\* A command of an undisturbed sequence appends its own rule, which makes the
\* next longer prefix.
LEMMA PrefixGrows ==
  ASSUME NEW iface \in Ifaces \cup {Unset}, NEW endpoint \in Endpoints \cup {Unset},
         NEW rest \in Refills, chain = Prefix(rest, iface, endpoint)
  PROVE  Executed(Head(rest), iface, endpoint) = Prefix(Tail(rest), iface, endpoint)
<1> DEFINE lo == Rule("lo", Unset)
           dst == Rule("dst", endpoint)
           out == Rule("out", iface)
           drop == Rule("drop", Unset)
<1>1. /\ lo \in Rules /\ dst \in Rules /\ out \in Rules /\ drop \in Rules
      /\ lo.kind = "lo" /\ dst.kind = "dst" /\ out.kind = "out" /\ drop.kind = "drop"
  BY DEF Rule, Rules, Commands
<1>2. /\ RuleOf("lo", iface, endpoint) = lo /\ RuleOf("dst", iface, endpoint) = dst
      /\ RuleOf("out", iface, endpoint) = out /\ RuleOf("drop", iface, endpoint) = drop
  BY DEF RuleOf, Rule
<1> HIDE DEF lo, dst, out, drop
<1>3. \A cmd \in {"lo", "dst", "out", "drop"} :
        Decides(RuleOf(cmd, iface, endpoint)) =>
          Executed(cmd, iface, endpoint) = Append(chain, RuleOf(cmd, iface, endpoint))
  BY DEF Executed
<1>4. CASE rest = <<"lo", "dst", "out", "drop">>
  <2>1. chain = << >> /\ Prefix(Tail(rest), iface, endpoint) = <<lo>>
    BY <1>4, RestSteps DEF Prefix, lo
  <2>2. Decides(lo)
    BY <2>1 DEF Decides, Blocking
  <2>3. Append(chain, lo) = <<lo>>
    BY <2>1
  <2> QED BY <1>2, <1>3, <1>4, <2>1, <2>2, <2>3, RestSteps
<1>5. CASE rest = <<"dst", "out", "drop">>
  <2>1. chain = <<lo>> /\ Prefix(Tail(rest), iface, endpoint) = <<lo, dst>>
    BY <1>5, RestSteps DEF Prefix, lo, dst
  <2>2. Decides(dst)
    BY <1>1, <2>1 DEF Decides, Blocking
  <2> DEFINE next == Append(chain, dst)
  <2>3. /\ next \in Seq(Rules) /\ Len(next) = 2
        /\ next[1] = lo /\ next[2] = dst
    BY <1>1, <2>1
  <2> HIDE DEF next
  <2>4. next = <<lo, dst>>
    BY <1>1, <2>3, ShortSequences
  <2> QED BY <1>2, <1>3, <1>5, <2>1, <2>2, <2>4, RestSteps DEF next
<1>6. CASE rest = <<"out", "drop">>
  <2>1. chain = <<lo, dst>> /\ Prefix(Tail(rest), iface, endpoint) = <<lo, dst, out>>
    BY <1>6, RestSteps DEF Prefix, lo, dst, out
  <2>2. Decides(out)
    BY <1>1, <2>1 DEF Decides, Blocking
  <2> DEFINE next == Append(chain, out)
  <2>3. /\ next \in Seq(Rules) /\ Len(next) = 3
        /\ next[1] = lo /\ next[2] = dst
        /\ next[3] = out
    BY <1>1, <2>1
  <2> HIDE DEF next
  <2>4. next = <<lo, dst, out>>
    BY <1>1, <2>3, ShortSequences
  <2> QED BY <1>2, <1>3, <1>6, <2>1, <2>2, <2>4, RestSteps DEF next
<1>7. CASE rest = <<"drop">>
  <2>1. chain = <<lo, dst, out>> /\ Prefix(Tail(rest), iface, endpoint) = <<lo, dst, out, drop>>
    BY <1>7, RestSteps DEF Prefix, BlockRules, lo, dst, out, drop
  <2>2. Decides(drop)
    BY <1>1, <2>1 DEF Decides, Blocking
  <2> DEFINE next == Append(chain, drop)
  <2>3. /\ next \in Seq(Rules) /\ Len(next) = 4
        /\ next[1] = lo /\ next[2] = dst
        /\ next[3] = out /\ next[4] = drop
    BY <1>1, <2>1
  <2> HIDE DEF next
  <2>4. next = <<lo, dst, out, drop>>
    BY <1>1, <2>3, ShortSequences
  <2> QED BY <1>2, <1>3, <1>7, <2>1, <2>2, <2>4, RestSteps DEF next
<1> QED BY <1>4, <1>5, <1>6, <1>7 DEF Refills

LEMMA InitExact == Init => Exact
BY IdleRests DEF Init, Exact, AloneIsExact, IdleIsFresh, RulesMatchRecord, Fresh

\* A step of a task that was editing ends the solitude of nobody else, since
\* nobody else had it.
LEMMA OnlyEditorAlone ==
  ASSUME Exact, NEW t \in Tasks, Editing(t)
  PROVE  \A u \in Tasks \ {t} : ~task[u].alone
BY DEF Exact, AloneIsExact

LEMMA StartExact ==
  ASSUME Inv, Exact, NEW t \in Tasks, NEW w \in Works, ~Editing(t), Starts(t, w),
         UNCHANGED <<st, chain, routes, flushed, clean>>,
         w.op \in Blocks \cup {"disable"}, w.todo \in {BlockScript, RestoreScript},
         w.op \in Blocks <=> w.todo = BlockScript, w.ok, w.alone => SnapshotFits(w)
  PROVE  Exact'
<1> DEFINE lonely == w.alone /\ \A v \in Tasks \ {t} : ~Editing(v)
           mine == [w EXCEPT !.alone = lonely]
           other(u) == [task[u] EXCEPT !.alone = FALSE]
<1>1. task' = [u \in Tasks |-> IF u = t THEN mine ELSE other(u)]
  BY DEF Starts
<1>2. /\ mine.op = w.op /\ mine.todo = w.todo /\ mine.ok = w.ok /\ mine.alone = lonely
      /\ mine.iface = w.iface /\ mine.endpoint = w.endpoint
  BY DEF Works
<1>3. \A u \in Tasks : other(u).op = task[u].op /\ ~other(u).alone
  BY DEF Inv, TypeOK, Works
<1>4. lonely => w.alone /\ \A v \in Tasks \ {t} : ~Editing(v)
  OBVIOUS
<1> HIDE DEF lonely, mine, other
<1>5. /\ task'[t].op = w.op /\ task'[t].todo = w.todo /\ task'[t].ok = w.ok
      /\ task'[t].alone = lonely /\ task'[t].iface = w.iface /\ task'[t].endpoint = w.endpoint
      /\ \A u \in Tasks \ {t} : task'[u].op = task[u].op /\ ~task'[u].alone
  BY <1>1, <1>2, <1>3
<1>6. Editing(t)'
  BY <1>5 DEF Editing, Blocks
<1>7. AloneIsExact'
  <2> SUFFICES ASSUME task'[t].alone
               PROVE  /\ task'[t].ok
                      /\ \A u \in Tasks \ {t} : ~Editing(u)'
                      /\ SnapshotFits(task[t])'
                      /\ task'[t].op \in Blocks => task'[t].todo = BlockScript
                      /\ task'[t].op = "disable" => task'[t].todo = RestoreScript
    BY <1>5 DEF AloneIsExact
  <2>1. \A u \in Tasks \ {t} : ~Editing(u)'
    BY <1>4, <1>5 DEF Editing
  <2>2. SnapshotFits(task[t])'
    BY <1>4, <1>5 DEF SnapshotFits
  <2> QED BY <1>5, <2>1, <2>2 DEF Blocks
<1>8. IdleIsFresh'
  BY <1>5 DEF IdleIsFresh, Blocks
<1>9. RulesMatchRecord'
  BY <1>6 DEF RulesMatchRecord, Settled
<1> QED BY <1>7, <1>8, <1>9 DEF Exact

LEMMA RequestExact == ASSUME Inv, Exact, NEW c \in Clients, Request(c) PROVE Exact'
<1>1. c \in Tasks /\ (Ready(c) => ~Editing(c)) /\ RestoreScript # BlockScript
  BY RestSteps DEF Tasks, Ready, Editing, BlockScript, RestoreScript
<1>2. ASSUME NEW i \in Ifaces, NEW e \in Endpoints, Enable(c, i, e) PROVE Exact'
  <2> DEFINE w == Work("enable", BlockScript, i, e)
  <2>1. w \in Works /\ w.op = "enable" /\ w.todo = BlockScript /\ w.ok
    BY RestsAreCommands DEF Work, Idle, Works, Blocks
  <2> HIDE DEF w
  <2> QED BY <1>1, <1>2, <2>1, StartExact DEF Enable, w, Blocks, SnapshotFits
<1>3. CASE Disable(c)
  <2> DEFINE w == Work("disable", RestoreScript, Unset, Unset)
  <2>1. w \in Works /\ w.op = "disable" /\ w.todo = RestoreScript /\ w.ok
    BY RestsAreCommands DEF Work, Idle, Works, Blocks
  <2> HIDE DEF w
  <2> QED BY <1>1, <1>3, <2>1, StartExact DEF Disable, w, Blocks, SnapshotFits
<1>4. ASSUME NEW i \in Ifaces, VpnUp(c, i) PROVE Exact'
  <2> DEFINE w == Work("vpn_up", BlockScript, i, st.endpoint)
  <2>1. /\ w \in Works /\ w.op = "vpn_up" /\ w.todo = BlockScript /\ w.ok
        /\ w.endpoint = st.endpoint
    BY RestsAreCommands DEF Work, Idle, Works, Blocks, TypeOK, Inv
  <2> HIDE DEF w
  <2> QED BY <1>1, <1>4, <2>1, StartExact DEF VpnUp, w, Blocks, SnapshotFits
<1>5. CASE VpnDown(c)
  <2> DEFINE w == Work("vpn_down", BlockScript, st.iface, st.endpoint)
  <2>1. /\ w \in Works /\ w.op = "vpn_down" /\ w.todo = BlockScript /\ w.ok
        /\ w.endpoint = st.endpoint /\ w.iface = st.iface
    BY RestsAreCommands DEF Work, Idle, Works, Blocks, TypeOK, Inv
  <2> HIDE DEF w
  <2> QED BY <1>1, <1>5, <2>1, StartExact DEF VpnDown, w, Blocks, SnapshotFits
<1> QED BY <1>2, <1>3, <1>4, <1>5 DEF Request

LEMMA ReblockExact == ASSUME Inv, Exact, MonitorReblocks PROVE Exact'
<1> DEFINE w == [task[Monitor] EXCEPT !.op = "reblock", !.todo = BlockScript]
<1>1. /\ Monitor \in Tasks /\ task[Monitor].op = "check" /\ task[Monitor] \in Works
      /\ ~Editing(Monitor) /\ task[Monitor].ok
  BY DEF Inv, TypeOK, TasksKnow, MonitorReblocks, Tasks, Editing, Works
<1>2. /\ w \in Works /\ w.op = "reblock" /\ w.todo = BlockScript /\ w.ok
      /\ w.alone = task[Monitor].alone
      /\ w.iface = task[Monitor].iface /\ w.endpoint = task[Monitor].endpoint
  BY <1>1, RestsAreCommands DEF Works, Blocks
<1>3. Starts(Monitor, w) /\ UNCHANGED <<st, chain, routes, flushed, clean>>
  BY DEF MonitorReblocks
<1>4. w.alone => SnapshotFits(w)
  BY <1>1, <1>2 DEF Exact, AloneIsExact, SnapshotFits
<1> HIDE DEF w
<1> QED BY <1>1, <1>2, <1>3, <1>4, StartExact DEF Blocks

LEMMA SucceedsExact == ASSUME Inv, Exact, NEW t \in Tasks, CommandSucceeds(t) PROVE Exact'
<1> USE DEF Inv
<1> DEFINE w == task[t]
<1>1. w.todo # << >> /\ w \in Works /\ Editing(t)
  BY DEF CommandSucceeds, TypeOK
<1>2. /\ w.ok
      /\ \/ w.op \in Blocks /\ w.todo \in {BlockScript} \cup Refills
         \/ w.op = "disable" /\ w.todo \in {RestoreScript, <<"policy">>}
      /\ Tail(w.todo) \in Rest(w.op)
  BY <1>1, CommandsLeft
<1>3. Tail(w.todo) \in Seq(Commands)
  BY <1>2, RestsAreCommands DEF Rest
<1>4. /\ \A u \in Tasks \ {t} : task'[u] = task[u] /\ ~task'[u].alone
      /\ task'[t].todo = Tail(w.todo) /\ task'[t].op = w.op /\ task'[t].ok = w.ok
      /\ task'[t].iface = w.iface /\ task'[t].endpoint = w.endpoint
      /\ task'[t].alone = w.alone
  BY <1>1, <1>3, OnlyEditorAlone DEF CommandSucceeds, TypeOK, Works
<1>5. chain' = Executed(Head(w.todo), w.iface, w.endpoint) /\ st' = st
  BY DEF CommandSucceeds
<1>6. w.alone => /\ \A u \in Tasks \ {t} : ~Editing(u)
                 /\ SnapshotFits(w)
                 /\ w.op \in Blocks /\ w.todo # BlockScript
                      => chain = Prefix(w.todo, w.iface, w.endpoint)
                 /\ w.op = "disable" /\ w.todo # RestoreScript => chain = << >>
  BY DEF Exact, AloneIsExact
<1>7. w.iface \in Ifaces \cup {Unset} /\ w.endpoint \in Endpoints \cup {Unset}
  BY <1>1 DEF Works
<1> HIDE DEF w
<1>8. w.alone /\ w.op \in Blocks => chain' = Prefix(Tail(w.todo), w.iface, w.endpoint)
  <2>1. CASE w.todo = BlockScript
    BY <1>5, <2>1, RestSteps DEF Executed, Prefix
  <2>2. CASE w.todo \in Refills
    BY <1>5, <1>6, <1>7, <2>2, PrefixGrows, RestsDiffer
  <2> QED BY <1>2, <2>1, <2>2 DEF Blocks
<1>9. w.alone /\ w.op = "disable" => chain' = << >>
  <2>1. CASE w.todo = RestoreScript
    BY <1>5, <2>1, RestSteps DEF Executed
  <2>2. CASE w.todo = <<"policy">>
    BY <1>5, <1>6, <2>2, RestSteps, RestsDiffer DEF Executed
  <2> QED BY <1>2, <2>1, <2>2 DEF Blocks
<1>10. Editing(t)' /\ \A u \in Tasks \ {t} : (Editing(u) <=> Editing(u)')
  BY <1>1, <1>4 DEF Editing, w
<1>11. AloneIsExact'
  <2>1. w.alone => SnapshotFits(task[t])'
    BY <1>4, <1>5, <1>6 DEF SnapshotFits
  <2> QED BY <1>2, <1>4, <1>6, <1>8, <1>9, <1>10, <2>1 DEF AloneIsExact
<1>12. IdleIsFresh'
  BY <1>2, <1>4 DEF IdleIsFresh, Blocks
<1>13. RulesMatchRecord'
  BY <1>10 DEF RulesMatchRecord, Settled
<1> QED BY <1>11, <1>12, <1>13 DEF Exact

LEMMA FailsExact == ASSUME Inv, Exact, NEW t \in Tasks, CommandFails(t) PROVE Exact'
<1>1. task[t].todo # << >> /\ task[t] \in Works /\ Editing(t)
  BY DEF CommandFails, TypeOK, Inv
<1>2. /\ \A u \in Tasks : ~task'[u].alone
      /\ task'[t].op = task[t].op
  BY <1>1, OnlyEditorAlone DEF CommandFails, TypeOK, Inv, Works
<1>3. Editing(t)'
  BY <1>1, <1>2 DEF Editing
<1> QED BY <1>2, <1>3 DEF Exact, AloneIsExact, IdleIsFresh, RulesMatchRecord, Settled

LEMMA FinishExact == ASSUME Inv, Exact, NEW t \in Tasks, Finish(t) PROVE Exact'
<1> DEFINE w == task[t]
<1>1. /\ Editing(t) /\ w.todo = << >> /\ w \in Works
      /\ st \in [active : BOOLEAN, iface : Ifaces \cup {Unset},
                 endpoint : Endpoints \cup {Unset}, vpnUp : BOOLEAN, leaked : 0..MaxLeaked]
      /\ w.op \in Blocks \cup {"disable"}
  BY DEF Finish, Inv, TypeOK, Works, Editing
<1>2. /\ \A u \in Tasks : ~task'[u].alone
      /\ st' = Recorded(w) /\ clean' = (w.alone /\ w.ok) /\ chain' = chain
  BY <1>1, OnlyEditorAlone, IdleRests DEF Finish, Inv, TypeOK
<1>3. w.alone => /\ w.ok /\ SnapshotFits(w)
                 /\ w.op \in Blocks => chain = Prefix(<< >>, w.iface, w.endpoint)
                 /\ w.op = "disable" => chain = << >>
  BY <1>1, RestsDiffer DEF Exact, AloneIsExact
<1> HIDE DEF w
<1>4. Prefix(<< >>, w.iface, w.endpoint) = BlockRules(w.iface, w.endpoint)
  BY DEF Prefix
<1>5. CASE w.alone /\ w.op \in Blocks
  <2>1. st'.iface = w.iface /\ st'.endpoint = w.endpoint
    BY <1>1, <1>2, <1>3, <1>5 DEF Recorded, Blocks, SnapshotFits
  <2>2. chain' = BlockRules(st'.iface, st'.endpoint)
    BY <1>2, <1>3, <1>4, <1>5, <2>1
  <2> QED BY <1>2, <2>2 DEF Exact, AloneIsExact, IdleIsFresh, RulesMatchRecord
<1>6. CASE w.alone /\ w.op = "disable"
  <2>1. ~st'.active
    BY <1>1, <1>2, <1>3, <1>6 DEF Recorded
  <2> QED BY <1>2, <1>3, <1>6, <2>1 DEF Exact, AloneIsExact, IdleIsFresh, RulesMatchRecord
<1>7. CASE ~w.alone
  BY <1>2, <1>7 DEF Exact, AloneIsExact, IdleIsFresh, RulesMatchRecord
<1> QED BY <1>1, <1>5, <1>6, <1>7

\* The monitor's snapshots and counts disturb nobody.
LEMMA MonitorRestsExact ==
  ASSUME Inv, Exact, MonitorSnapshots \/ MonitorSeesRoute \/ MonitorCountsDns
  PROVE  Exact'
<1>1. /\ Monitor \in Tasks /\ Monitor \notin Clients /\ ~Editing(Monitor)
      /\ \A u \in Tasks \ {Monitor} : u \in Clients
  BY NamesAssumption DEF MonitorSnapshots, MonitorSeesRoute, MonitorCountsDns,
                         Ready, Editing, Tasks
<1>2. /\ \A u \in Tasks \ {Monitor} : task'[u] = task[u]
      /\ task'[Monitor].op \in {"idle", "check", "dns"}
      /\ task'[Monitor].op \in {"idle", "dns"} => ~task'[Monitor].alone
  <2>1. CASE MonitorSnapshots
    <3> DEFINE w == [Work("check", << >>, st.iface, st.endpoint) EXCEPT
                       !.active = st.active, !.alone = \A c \in Clients : ~Editing(c)]
    <3>1. w.op = "check"
      BY DEF Work, Idle
    <3>2. task' = [task EXCEPT ![Monitor] = w]
      BY <2>1 DEF MonitorSnapshots
    <3> HIDE DEF w
    <3> QED BY <1>1, <3>1, <3>2 DEF Inv, TypeOK
  <2>2. CASE MonitorSeesRoute \/ MonitorCountsDns
    BY <1>1, <2>2, IdleRests DEF MonitorSeesRoute, MonitorCountsDns, Inv, TypeOK
  <2> QED BY <2>1, <2>2
<1>3. /\ st'.active = st.active /\ st'.iface = st.iface /\ st'.endpoint = st.endpoint
      /\ chain' = chain /\ clean' = clean
  BY DEF MonitorSnapshots, MonitorSeesRoute, MonitorCountsDns, Inv, TypeOK
<1>4. \A u \in Tasks : (Editing(u) <=> Editing(u)')
  BY <1>1, <1>2 DEF Editing
<1>5. task'[Monitor].op = "check" /\ task'[Monitor].alone =>
        /\ task'[Monitor].ok
        /\ \A u \in Tasks \ {Monitor} : ~Editing(u)
        /\ SnapshotFits(task[Monitor])'
  <2>1. CASE MonitorSnapshots
    <3> DEFINE lonely == \A c \in Clients : ~Editing(c)
    <3>1. /\ task'[Monitor].ok /\ task'[Monitor].alone = lonely
          /\ task'[Monitor].iface = st.iface /\ task'[Monitor].endpoint = st.endpoint
          /\ task'[Monitor].op = "check"
      <4> HIDE DEF lonely
      <4>1. task' = [task EXCEPT ![Monitor] =
                       [Work("check", << >>, st.iface, st.endpoint) EXCEPT
                          !.active = st.active, !.alone = lonely]]
        BY <2>1 DEF MonitorSnapshots, lonely
      <4> QED BY <1>1, <4>1 DEF Inv, TypeOK, Work, Idle
    <3>2. SnapshotFits(task[Monitor])'
      BY <1>3, <3>1 DEF SnapshotFits
    <3> QED BY <1>1, <3>1, <3>2
  <2>2. CASE MonitorSeesRoute \/ MonitorCountsDns
    <3>1. task'[Monitor].op # "check"
      BY <1>1, <2>2, IdleRests DEF MonitorSeesRoute, MonitorCountsDns, Inv, TypeOK
    <3> QED BY <3>1
  <2> QED BY <2>1, <2>2
<1>6. AloneIsExact'
  <2>1. \A u \in Tasks \ {Monitor} : SnapshotFits(task[u]) => SnapshotFits(task[u])'
    BY <1>2, <1>3 DEF SnapshotFits
  <2>2. task'[Monitor].op \notin Blocks /\ task'[Monitor].op # "disable"
    BY <1>2 DEF Blocks
  <2> QED BY <1>1, <1>2, <1>3, <1>4, <1>5, <2>1, <2>2 DEF Exact, AloneIsExact
<1>7. IdleIsFresh'
  BY <1>1, <1>2 DEF Exact, IdleIsFresh
<1>8. RulesMatchRecord'
  BY <1>3, <1>4 DEF Exact, RulesMatchRecord, Settled
<1> QED BY <1>6, <1>7, <1>8 DEF Exact

LEMMA RestartExact == ASSUME Inv, Exact, Restart PROVE Exact'
<1>1. /\ \A t \in Tasks : task'[t] = Idle
      /\ ~clean'
  BY DEF Restart
<1> QED BY <1>1, IdleRests DEF Exact, AloneIsExact, IdleIsFresh, RulesMatchRecord

LEMMA RoutesExact == ASSUME Inv, Exact, NEW i \in Ifaces, RouteChanges(i) PROVE Exact'
BY DEF RouteChanges, Exact, AloneIsExact, IdleIsFresh, RulesMatchRecord, Settled,
       SnapshotFits, Editing

LEMMA StutterExact == ASSUME Inv, Exact, UNCHANGED vars PROVE Exact'
BY DEF vars, Exact, AloneIsExact, IdleIsFresh, RulesMatchRecord, Settled,
       SnapshotFits, Editing

LEMMA StepExact == Inv /\ Exact /\ [Next]_vars => Exact'
BY RequestExact, SucceedsExact, FailsExact, FinishExact, MonitorRestsExact,
   ReblockExact, RestartExact, RoutesExact, StutterExact DEF Next

\* For any number of tasks: an undisturbed sequence leaves exactly the rules of
\* the interface and endpoint it recorded, or an empty chain and an inactive
\* switch.
THEOREM RecordIsTrue == Spec => []RulesMatchRecord
<1>1. Exact => RulesMatchRecord
  BY DEF Exact
<1> QED BY <1>1, InitInv, StepInv, InitExact, StepExact, PTL DEF Spec

-----------------------------------------------------------------------------
(* The way of the monitor to its DROP *)

\* What the monitor is about, and that the snapshot of an active switch has an
\* endpoint, as long as it is used.
MonitorKnows ==
  LET w == task[Monitor] IN
  /\ w.op \in {"idle", "check", "reblock", "dns"}
  /\ w.op = "check" /\ w.active => w.endpoint # Unset
  /\ w.todo # << >> => w.endpoint # Unset

\* What MonitorKnows and StepsToBlock read of the monitor's task.
SamePlace(v, w) ==
  /\ v.op = w.op /\ v.todo = w.todo /\ v.active = w.active /\ v.endpoint = w.endpoint

LEMMA SameKnows == ASSUME MonitorKnows, SamePlace(task'[Monitor], task[Monitor]) PROVE MonitorKnows'
BY DEF MonitorKnows, SamePlace

\* A task that takes up work changes nothing else about the other tasks.
LEMMA StartsPlaces ==
  ASSUME TypeOK, NEW t \in Tasks, NEW w \in Works, Starts(t, w)
  PROVE  /\ SamePlace(task'[t], w)
         /\ \A u \in Tasks \ {t} : SamePlace(task'[u], task[u])
<1> DEFINE lonely == w.alone /\ \A v \in Tasks \ {t} : ~Editing(v)
           mine == [w EXCEPT !.alone = lonely]
           other(u) == [task[u] EXCEPT !.alone = FALSE]
<1>1. task' = [u \in Tasks |-> IF u = t THEN mine ELSE other(u)]
  BY DEF Starts
<1> HIDE DEF lonely
<1>2. SamePlace(mine, w)
  BY DEF Works, SamePlace
<1>3. \A u \in Tasks : SamePlace(other(u), task[u])
  BY DEF TypeOK, Works, SamePlace
<1> HIDE DEF mine, other
<1> QED BY <1>1, <1>2, <1>3

\* Requests are the clients'.
LEMMA RequestKnows ==
  ASSUME Inv, MonitorKnows, NEW c \in Clients, Request(c) PROVE MonitorKnows'
<1>1. c \in Tasks /\ Monitor \in Tasks \ {c} /\ TypeOK
  BY NamesAssumption DEF Tasks, Inv
<1>2. ASSUME NEW w \in Works, Starts(c, w) PROVE MonitorKnows'
  BY <1>1, <1>2, StartsPlaces, SameKnows
<1>3. \A op \in Blocks \cup {"disable"}, i \in Ifaces \cup {Unset}, e \in Endpoints \cup {Unset} :
        Work(op, BlockScript, i, e) \in Works /\ Work(op, RestoreScript, i, e) \in Works
  BY RestsAreCommands DEF Work, Idle, Works, Blocks
<1>4. st.iface \in Ifaces \cup {Unset} /\ st.endpoint \in Endpoints \cup {Unset}
  BY <1>1 DEF TypeOK
<1> HIDE DEF Inv
<1> QED BY <1>2, <1>3, <1>4 DEF Request, Enable, Disable, VpnUp, VpnDown, Blocks

\* A step that replaces one task's entry leaves the monitor's or is the monitor's.
LEMMA EntryKnows ==
  ASSUME Inv, MonitorKnows, NEW t \in Tasks, NEW w, task' = [task EXCEPT ![t] = w],
         t = Monitor =>
           /\ w.op \in {"idle", "check", "reblock", "dns"}
           /\ w.op = "check" /\ w.active => w.endpoint # Unset
           /\ w.todo # << >> => w.endpoint # Unset
  PROVE  MonitorKnows'
<1>1. task'[t] = w /\ (t # Monitor => task'[Monitor] = task[Monitor])
  BY DEF Inv, TypeOK, Tasks
<1> QED BY <1>1 DEF MonitorKnows

LEMMA CommandKnows ==
  ASSUME Inv, MonitorKnows, NEW t \in Tasks, CommandSucceeds(t) \/ CommandFails(t) \/ Finish(t)
  PROVE  MonitorKnows'
<1>1. task[t] \in Works
  BY DEF Inv, TypeOK
<1>2. CASE CommandSucceeds(t)
  <2> DEFINE w == [task[t] EXCEPT !.todo = Tail(@)]
  <2>1. task' = [task EXCEPT ![t] = w] /\ task[t].todo # << >>
    BY <1>2 DEF CommandSucceeds
  <2>2. w.op = task[t].op /\ w.active = task[t].active /\ w.endpoint = task[t].endpoint
    BY <1>1 DEF Works
  <2> HIDE DEF w
  <2> QED BY <2>1, <2>2, EntryKnows DEF MonitorKnows
<1>3. CASE CommandFails(t)
  <2> DEFINE w == [task[t] EXCEPT !.todo = << >>, !.ok = FALSE, !.endpoint = Unset, !.alone = FALSE]
  <2>1. task' = [task EXCEPT ![t] = w] /\ task[t].todo # << >>
    BY <1>3 DEF CommandFails
  <2>2. w.op = task[t].op /\ w.todo = << >>
    BY <1>1 DEF Works
  <2>3. task[t].op # "check"
    BY <2>1 DEF Inv, TypeOK, Editing
  <2> HIDE DEF w
  <2> QED BY <2>1, <2>2, <2>3, EntryKnows DEF MonitorKnows
<1>4. CASE Finish(t)
  <2> DEFINE w == IF t = Monitor THEN [Idle EXCEPT !.op = "dns"] ELSE Idle
  <2>1. task' = [task EXCEPT ![t] = w]
    BY <1>4 DEF Finish
  <2>2. w.op \in {"idle", "dns"} /\ w.todo = << >>
    BY DEF Idle
  <2> HIDE DEF w
  <2> QED BY <2>1, <2>2, EntryKnows
<1> QED BY <1>2, <1>3, <1>4

\* The snapshot is of the record, which has an endpoint while it is active.
LEMMA MonitorStepKnows ==
  ASSUME Inv, MonitorKnows,
         MonitorSnapshots \/ MonitorReblocks \/ MonitorSeesRoute \/ MonitorCountsDns
  PROVE  MonitorKnows'
<1>1. Monitor \in Tasks /\ task[Monitor] \in Works
  BY DEF Inv, TypeOK, Tasks
<1>2. CASE MonitorSnapshots
  <2> DEFINE lonely == \A c \in Clients : ~Editing(c)
             w == [Work("check", << >>, st.iface, st.endpoint) EXCEPT
                     !.active = st.active, !.alone = lonely]
  <2>1. task' = [task EXCEPT ![Monitor] = w]
    BY <1>2 DEF MonitorSnapshots
  <2> HIDE DEF lonely
  <2>2. w.op = "check" /\ w.todo = << >> /\ w.active = st.active /\ w.endpoint = st.endpoint
    BY DEF Work, Idle
  <2>3. st.active => st.endpoint # Unset
    BY DEF Inv, TypeOK
  <2> HIDE DEF w
  <2> QED BY <1>1, <2>1, <2>2, <2>3, EntryKnows
<1>3. CASE MonitorReblocks
  <2> DEFINE w == [task[Monitor] EXCEPT !.op = "reblock", !.todo = BlockScript]
  <2>1. Starts(Monitor, w) /\ task[Monitor].op = "check" /\ task[Monitor].active
    BY <1>3 DEF MonitorReblocks, LostVpn
  <2>2. w \in Works /\ w.op = "reblock" /\ w.endpoint = task[Monitor].endpoint
    BY <1>1, RestsAreCommands DEF Works, Blocks
  <2> HIDE DEF w
  <2>3. SamePlace(task'[Monitor], w)
    BY <1>1, <2>1, <2>2, StartsPlaces DEF Inv
  <2> QED BY <2>1, <2>2, <2>3 DEF MonitorKnows, SamePlace
<1>4. CASE MonitorSeesRoute \/ MonitorCountsDns
  <2>1. PICK w \in {Idle, [Idle EXCEPT !.op = "dns"]} : task' = [task EXCEPT ![Monitor] = w]
    BY <1>4 DEF MonitorSeesRoute, MonitorCountsDns
  <2>2. w.op \in {"idle", "dns"} /\ w.todo = << >>
    BY DEF Idle
  <2> QED BY <1>1, <2>1, <2>2, EntryKnows
<1> QED BY <1>2, <1>3, <1>4

LEMMA StepKnows == Inv /\ MonitorKnows /\ [Next]_vars => MonitorKnows'
<1> SUFFICES ASSUME Inv, MonitorKnows, [Next]_vars PROVE MonitorKnows'
  OBVIOUS
<1>1. CASE Restart
  <2>1. task'[Monitor] = Idle
    BY <1>1 DEF Restart, Tasks
  <2> QED BY <2>1 DEF MonitorKnows, Idle
<1>2. CASE (\E i \in Ifaces : RouteChanges(i)) \/ UNCHANGED vars
  BY <1>2 DEF RouteChanges, vars, MonitorKnows
<1> QED BY <1>1, <1>2, RequestKnows, CommandKnows, MonitorStepKnows DEF Next

LEMMA InitKnows == Init => MonitorKnows
BY DEF Init, MonitorKnows, Idle, Tasks

\* How far each place of the monitor is from the DROP.
DistancesKnown ==
  /\ task[Monitor].op = "reblock" =>
       /\ task[Monitor].todo = BlockScript => StepsToBlock = 5
       /\ task[Monitor].todo = <<"lo", "dst", "out", "drop">> => StepsToBlock = 4
       /\ task[Monitor].todo = <<"dst", "out", "drop">> => StepsToBlock = 3
       /\ task[Monitor].todo = <<"out", "drop">> => StepsToBlock = 2
       /\ task[Monitor].todo = <<"drop">> => StepsToBlock = 1
       /\ task[Monitor].todo = << >> => StepsToBlock = 9
  /\ task[Monitor].op = "check" =>
       StepsToBlock = IF LostVpn(task[Monitor]) THEN 6 ELSE 9
  /\ task[Monitor].op = "idle" => StepsToBlock = 7
  /\ task[Monitor].op = "dns" => StepsToBlock = 8

LEMMA Distances == DistancesKnown
<1>1. /\ Len(BlockScript) = 5 /\ Len(<<"lo", "dst", "out", "drop">>) = 4
      /\ Len(<<"dst", "out", "drop">>) = 3 /\ Len(<<"out", "drop">>) = 2 /\ Len(<<"drop">>) = 1
  BY DEF BlockScript
<1>2. /\ BlockScript # << >> /\ <<"lo", "dst", "out", "drop">> # << >>
      /\ <<"dst", "out", "drop">> # << >> /\ <<"out", "drop">> # << >> /\ <<"drop">> # << >>
  BY DEF BlockScript
<1>3. task[Monitor].op = "reblock" =>
        StepsToBlock = IF task[Monitor].todo # << >> THEN Len(task[Monitor].todo) ELSE 9
  BY <1>1 DEF StepsToBlock
<1>4. /\ task[Monitor].op = "check" =>
           StepsToBlock = IF LostVpn(task[Monitor]) THEN 6 ELSE 9
      /\ task[Monitor].op = "idle" => StepsToBlock = 7
      /\ task[Monitor].op = "dns" => StepsToBlock = 8
  BY <1>1 DEF StepsToBlock
<1> QED BY <1>1, <1>2, <1>3, <1>4 DEF DistancesKnown

\* Each step of the monitor leads one place on, the last one to a chain that blocks.
LEMMA MonitorComesNearer ==
  ASSUME Inv, MonitorKnows, MonitorActs, Lost
  PROVE  Blocking' \/ StepsToBlock' < StepsToBlock
<1>1. Monitor \in Tasks /\ task \in [Tasks -> Works] /\ task[Monitor] \in Works
  BY DEF Inv, TypeOK, Tasks
<1>2. task[Monitor].todo # << >> =>
        task[Monitor].op = "reblock" /\ task[Monitor].todo \in {BlockScript} \cup Refills
  BY <1>1, CommandsLeft DEF MonitorKnows, Blocks
<1>3. DistancesKnown /\ DistancesKnown'
  BY Distances, PTL
<1>4. CASE MonitorSnapshots
  <2> DEFINE lonely == \A c \in Clients : ~Editing(c)
             w == [Work("check", << >>, st.iface, st.endpoint) EXCEPT
                     !.active = st.active, !.alone = lonely]
  <2>1. task' = [task EXCEPT ![Monitor] = w] /\ task[Monitor].op = "idle" /\ UNCHANGED <<st, routes>>
    BY <1>4 DEF MonitorSnapshots, Ready
  <2> HIDE DEF lonely
  <2>2. w.op = "check" /\ w.active /\ w.iface \notin routes'
    BY <2>1 DEF Work, Idle, Lost
  <2> HIDE DEF w
  <2>3. task'[Monitor] = w
    BY <1>1, <2>1
  <2> QED BY <1>3, <2>1, <2>2, <2>3 DEF DistancesKnown, LostVpn
<1>5. CASE MonitorReblocks
  <2> DEFINE w == [task[Monitor] EXCEPT !.op = "reblock", !.todo = BlockScript]
  <2>1. Starts(Monitor, w) /\ task[Monitor].op = "check" /\ LostVpn(task[Monitor])
    BY <1>5 DEF MonitorReblocks
  <2>2. w \in Works /\ w.op = "reblock" /\ w.todo = BlockScript
    BY <1>1, RestsAreCommands DEF Works, Blocks
  <2> HIDE DEF w
  <2>3. task'[Monitor].op = "reblock" /\ task'[Monitor].todo = BlockScript
    BY <1>1, <2>1, <2>2, StartsPlaces DEF Inv, SamePlace
  <2> QED BY <1>3, <2>1, <2>3 DEF DistancesKnown
<1>6. CASE MonitorSeesRoute
  <2>1. task[Monitor].op = "check" /\ ~LostVpn(task[Monitor])
    BY <1>6 DEF MonitorSeesRoute
  <2>2. task'[Monitor].op = "dns"
    BY <1>1, <1>6 DEF MonitorSeesRoute, Idle
  <2> QED BY <1>3, <2>1, <2>2 DEF DistancesKnown
<1>7. CASE MonitorCountsDns
  <2>1. task[Monitor].op = "dns" /\ task'[Monitor].op = "idle"
    BY <1>1, <1>7 DEF MonitorCountsDns, Idle
  <2> QED BY <1>3, <2>1 DEF DistancesKnown
<1>8. CASE CommandSucceeds(Monitor)
  <2> DEFINE w == task[Monitor]
  <2>1. w.todo # << >> /\ chain' = Executed(Head(w.todo), w.iface, w.endpoint)
    BY <1>8 DEF CommandSucceeds
  <2>2. task'[Monitor].op = "reblock" /\ task'[Monitor].todo = Tail(w.todo)
    BY <1>1, <1>2, <1>8 DEF CommandSucceeds, Works
  <2>3. CASE w.todo = <<"drop">>
    <3>1. BlockingIn(chain')
      <4>1. /\ w.iface \in Ifaces \cup {Unset} /\ w.endpoint \in Endpoints \cup {Unset}
            /\ chain \in Seq(Rules)
        BY <1>1 DEF Works, Inv, TypeOK
      <4>2. Head(w.todo) = "drop" /\ "drop" \in Commands
        BY <2>3, RestSteps DEF Commands
      <4> HIDE DEF w
      <4> QED BY <2>1, <4>1, <4>2, ExecutedRules
    <3> QED BY <3>1 DEF Blocking, BlockingIn
  <2>4. CASE w.todo # <<"drop">>
    <3>1. w.op = "reblock" /\ w.todo \in {BlockScript, <<"lo", "dst", "out", "drop">>,
                                           <<"dst", "out", "drop">>, <<"out", "drop">>}
      BY <1>2, <2>1, <2>4 DEF Refills
    <3> DEFINE next == task'[Monitor].todo
    <3>2. /\ w.todo = BlockScript => next = <<"lo", "dst", "out", "drop">>
          /\ w.todo = <<"lo", "dst", "out", "drop">> => next = <<"dst", "out", "drop">>
          /\ w.todo = <<"dst", "out", "drop">> => next = <<"out", "drop">>
          /\ w.todo = <<"out", "drop">> => next = <<"drop">>
      BY <2>2, RestSteps
    <3>3. /\ next = <<"lo", "dst", "out", "drop">> => StepsToBlock' = 4
          /\ next = <<"dst", "out", "drop">> => StepsToBlock' = 3
          /\ next = <<"out", "drop">> => StepsToBlock' = 2
          /\ next = <<"drop">> => StepsToBlock' = 1
      BY <1>3, <2>2 DEF DistancesKnown
    <3>4. /\ w.todo = BlockScript => StepsToBlock = 5
          /\ w.todo = <<"lo", "dst", "out", "drop">> => StepsToBlock = 4
          /\ w.todo = <<"dst", "out", "drop">> => StepsToBlock = 3
          /\ w.todo = <<"out", "drop">> => StepsToBlock = 2
      BY <1>3, <3>1 DEF DistancesKnown
    <3> HIDE DEF w, next
    <3>5. CASE w.todo = BlockScript
      BY <3>2, <3>3, <3>4, <3>5
    <3>6. 3 < 4 /\ 2 < 3 /\ 1 < 2
      OBVIOUS
    <3>7. CASE w.todo # BlockScript
      BY ZenonT(30), <3>1, <3>2, <3>3, <3>4, <3>6, <3>7
    <3> QED BY <3>5, <3>7
  <2> QED BY <2>3, <2>4
<1>9. CASE Finish(Monitor)
  <2>1. task[Monitor].op = "reblock" /\ task[Monitor].todo = << >>
    BY <1>9 DEF Finish, Editing, MonitorKnows
  <2>2. task'[Monitor].op = "dns"
    BY <1>1, <1>9 DEF Finish, Idle
  <2> QED BY <1>3, <2>1, <2>2 DEF DistancesKnown
<1> QED BY <1>4, <1>5, <1>6, <1>7, <1>8, <1>9 DEF MonitorActs

\* While the recorded VPN has no route every step of the monitor brings the DROP
\* nearer and none of its commands is refused, for any clients, interfaces and
\* endpoints: what MonitorRestoresBlock needs beside fairness.
THEOREM MonitorBlocks == Spec => MonitorHeadsForBlock
<1> DEFINE Accepted == task[Monitor].todo # << >> =>
                         ~Refused(Head(task[Monitor].todo), task[Monitor].endpoint)
           Nearer == MonitorActs /\ Lost => Blocking' \/ StepsToBlock' < StepsToBlock
<1>1. MonitorKnows => Accepted
  BY DEF MonitorKnows, Refused
<1>2. Inv /\ MonitorKnows => Nearer
  BY MonitorComesNearer
<1>3. Spec => [](Inv /\ MonitorKnows)
  BY InitInv, StepInv, InitKnows, StepKnows, PTL DEF Spec
<1> HIDE DEF Accepted, Nearer
<1>4. Spec => []Accepted /\ [][Nearer]_vars
  BY <1>1, <1>2, <1>3, PTL
<1> QED BY <1>4 DEF Accepted, Nearer, MonitorHeadsForBlock
=============================================================================
