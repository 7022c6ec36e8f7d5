------------------------- MODULE AlertDaemon_proofs -------------------------
(***************************************************************************)
(* Proofs about AlertConfig and AlertDaemon, for every number of RPC       *)
(* threads, rules, actions and inputs: overlapping saves leave no torn     *)
(* file behind, with one thread what no flag marks survives a restart, and *)
(* what the calls on inputs promise holds whatever the rest of the daemon  *)
(* does.                                                                   *)
(***************************************************************************)
EXTENDS AlertDaemon, Subsequences_proofs, SequenceTheorems

PCs == {"idle", "compare", "open", "write", "reload", "clear"}

\* The parts of AlertConfig's TypeOK.
MemoryOK ==
  /\ up \in BOOLEAN
  /\ rules \in RuleLists /\ actions \in ActionMaps
  /\ modified \in [Kinds -> BOOLEAN]

FileShape(f) ==
  /\ f = [k \in Kinds |-> f[k]]
  /\ \A k \in Kinds : f[k] = Torn \/ f[k] \in Configs(k)

AdminShape(a) ==
  /\ a = [t \in Admins |-> [pc |-> a[t].pc, kind |-> a[t].kind, config |-> a[t].config]]
  /\ \A t \in Admins :
       a[t].pc \in PCs /\ a[t].kind \in Kinds /\ a[t].config \in Configs(a[t].kind)

DownOK == ~up => rules = <<>> /\ actions = NoActions /\ \A t \in Admins : admin[t] = Idle

\* The parts make the whole.
LEMMA TypeParts == TypeOK <=> MemoryOK /\ FileShape(file) /\ AdminShape(admin) /\ DownOK
BY DEF TypeOK, MemoryOK, FileShape, AdminShape, DownOK, PCs

\* And after a step.
LEMMA TypePartsNext ==
  ASSUME MemoryOK', FileShape(file)', AdminShape(admin)', DownOK'
  PROVE  TypeOK'
BY DEF TypeOK, MemoryOK, FileShape, AdminShape, DownOK, PCs
-----------------------------------------------------------------------------
(* Lists of rules and maps of actions.                                       *)

\* Members of RuleLists, and what a piece of one or two pieces joined are.
LEMMA ListPieces ==
  ASSUME NEW rs \in Seq(RuleSet)
  PROVE  /\ Len(rs) \in Nat /\ \A i \in 1..Len(rs) : rs[i] \in RuleSet
         /\ \A m \in Nat \ {0}, n \in Nat : n <= Len(rs) =>
              /\ SubSeq(rs, m, n) \in Seq(RuleSet)
              /\ Len(SubSeq(rs, m, n)) = IF m <= n THEN n - m + 1 ELSE 0
         /\ \A s \in Seq(RuleSet) : rs \o s \in Seq(RuleSet) /\ Len(rs \o s) = Len(rs) + Len(s)
<1>1. Len(rs) \in Nat /\ \A i \in 1..Len(rs) : rs[i] \in RuleSet
  OBVIOUS
<1>2. ASSUME NEW m \in Nat \ {0}, NEW n \in Nat, n <= Len(rs)
      PROVE  /\ SubSeq(rs, m, n) \in Seq(RuleSet)
             /\ Len(SubSeq(rs, m, n)) = IF m <= n THEN n - m + 1 ELSE 0
  <2>1. \A i \in m..n : rs[i] \in RuleSet
    BY <1>1, <1>2
  <2>. QED BY <2>1, <1>2, SubSeqProperties
<1>3. ASSUME NEW s \in Seq(RuleSet)
      PROVE  rs \o s \in Seq(RuleSet) /\ Len(rs \o s) = Len(rs) + Len(s)
  BY ConcatProperties
<1>. QED BY <1>1, <1>2, <1>3

\* The lists that the calls on rules give.
LEMMA EditsAreRules ==
  ASSUME NEW rs \in RuleLists
  PROVE  /\ \A pos \in Nat, rule \in RuleSet :
              Len(rs) < MaxRules => InsertRule(rs, pos, rule) \in RuleLists
         /\ \A pos \in Nat, rule \in RuleSet :
              pos < Len(rs) => ReplaceRule(rs, pos, rule) \in RuleLists
         /\ \A pos \in Nat : pos < Len(rs) => EraseRule(rs, pos) \in RuleLists
         /\ \A pos \in Nat : pos + 1 < Len(rs) => SwapWithNext(rs, pos) \in RuleLists
<1>. DEFINE n == Len(rs)
<1>1. /\ rs \in Seq(RuleSet) /\ n \in Nat /\ n <= MaxRules /\ MaxRules \in Nat
      /\ \A i \in 1..n : rs[i] \in RuleSet
  BY ConfigAssumption DEF RuleLists
<1>2. \A s \in Seq(RuleSet) : Len(s) <= MaxRules => s \in RuleLists
  BY DEF RuleLists
<1>3. ASSUME NEW pos \in Nat, NEW rule \in RuleSet, n < MaxRules
      PROVE  InsertRule(rs, pos, rule) \in RuleLists
  <2>1. CASE pos >= n
    <3>1. Append(rs, rule) \in Seq(RuleSet) /\ Len(Append(rs, rule)) = n + 1
      BY <1>1
    <3>2. Len(Append(rs, rule)) <= MaxRules
      BY <1>1, <1>3, <3>1
    <3>. QED BY <1>2, <2>1, <3>1, <3>2 DEF InsertRule
  <2>2. CASE pos < n
    <3>. DEFINE a == SubSeq(rs, 1, pos)
                b == SubSeq(rs, pos + 1, n)
    <3>1. /\ a \in Seq(RuleSet) /\ Len(a) = pos
          /\ b \in Seq(RuleSet) /\ Len(b) = n - pos
      BY <1>1, <2>2, ListPieces
    <3>2. <<rule>> \in Seq(RuleSet) /\ Len(<<rule>>) = 1
      OBVIOUS
    <3>. HIDE DEF a, b
    <3>3. a \o <<rule>> \in Seq(RuleSet) /\ Len(a \o <<rule>>) = pos + 1
      BY <3>1, <3>2, ListPieces
    <3>4. (a \o <<rule>>) \o b \in Seq(RuleSet) /\ Len((a \o <<rule>>) \o b) = n + 1
      BY <1>1, <3>1, <3>3, ListPieces
    <3>5. Len((a \o <<rule>>) \o b) <= MaxRules
      BY <1>1, <1>3, <3>4
    <3>6. (a \o <<rule>>) \o b \in RuleLists
      BY <1>2, <3>4, <3>5
    <3>. QED BY <2>2, <1>1, <3>6 DEF InsertRule, a, b
  <2>. QED BY <2>1, <2>2, <1>1
<1>4. ASSUME NEW pos \in Nat, NEW rule \in RuleSet, pos < n
      PROVE  ReplaceRule(rs, pos, rule) \in RuleLists
  <2>1. ReplaceRule(rs, pos, rule) \in Seq(RuleSet) /\ Len(ReplaceRule(rs, pos, rule)) = n
    BY <1>1, <1>4 DEF ReplaceRule
  <2>. QED BY <1>1, <1>2, <2>1
<1>5. ASSUME NEW pos \in Nat, pos < n PROVE EraseRule(rs, pos) \in RuleLists
  <2>. DEFINE a == SubSeq(rs, 1, pos)
              b == SubSeq(rs, pos + 2, n)
  <2>1. /\ a \in Seq(RuleSet) /\ Len(a) = pos
        /\ b \in Seq(RuleSet) /\ Len(b) = n - pos - 1
    BY <1>1, <1>5, ListPieces
  <2>. HIDE DEF a, b
  <2>2. a \o b \in Seq(RuleSet) /\ Len(a \o b) = Len(a) + Len(b)
    BY <2>1, ListPieces
  <2>3. Len(a \o b) <= MaxRules
    BY <1>1, <1>5, <2>1, <2>2
  <2>4. a \o b \in RuleLists
    BY <1>2, <2>2, <2>3
  <2>. QED BY <2>4 DEF EraseRule, a, b
<1>6. ASSUME NEW pos \in Nat, pos + 1 < n PROVE SwapWithNext(rs, pos) \in RuleLists
  <2>1. pos + 1 \in 1..n /\ pos + 2 \in 1..n
    BY <1>1, <1>6
  <2>2. SwapWithNext(rs, pos) \in Seq(RuleSet) /\ Len(SwapWithNext(rs, pos)) = n
    BY <1>1, <2>1 DEF SwapWithNext
  <2>. QED BY <1>1, <1>2, <2>2
<1>. QED BY <1>3, <1>4, <1>5, <1>6

\* The empty list, and what the file of rules gives.
LEMMA LoadsAreRules ==
  /\ <<>> \in RuleLists
  /\ \A rs \in RuleLists : \A acts : LoadRules(rs, acts) \in RuleLists
<1>1. <<>> \in RuleLists
  BY ConfigAssumption DEF RuleLists
<1>2. ASSUME NEW rs \in RuleLists, NEW acts PROVE LoadRules(rs, acts) \in RuleLists
  <2>. DEFINE D == {i \in DOMAIN rs : Accepts(rs[i], acts)}
  <2>1. rs \in Seq(RuleSet) /\ Len(rs) \in Nat /\ Len(rs) <= MaxRules /\ MaxRules \in Nat
    BY ConfigAssumption DEF RuleLists
  <2>2. D \in SUBSET DOMAIN rs
    OBVIOUS
  <2>. HIDE DEF D
  <2>3. /\ Chosen(rs, D) \in Seq(RuleSet)
        /\ Len(Chosen(rs, D)) = Cardinality(D) /\ Cardinality(D) \in 0..Len(rs)
    BY <2>1, <2>2, ChosenType
  <2>4. Chosen(rs, D) \in RuleLists
    BY <2>1, <2>3 DEF RuleLists
  <2>. QED BY <2>4 DEF LoadRules, D
<1>. QED BY <1>1, <1>2

\* An action map is a function from some of the names to bodies.
LEMMA ActionMapsMembers ==
  /\ \A N \in SUBSET ActionNames : \A f \in [N -> Bodies] : f \in ActionMaps
  /\ \A acts \in ActionMaps : acts \in [DOMAIN acts -> Bodies] /\ DOMAIN acts \subseteq ActionNames
BY DEF ActionMaps

\* The maps that the calls on actions give.
LEMMA EditsAreActions ==
  /\ NoActions \in ActionMaps
  /\ \A acts \in ActionMaps, name \in ActionNames :
       /\ \A body \in Bodies : WithAction(acts, name, body) \in ActionMaps
       /\ WithoutAction(acts, name) \in ActionMaps
<1>1. NoActions \in [{} -> Bodies] /\ {} \in SUBSET ActionNames
  BY DEF NoActions
<1>2. NoActions \in ActionMaps
  BY <1>1, ActionMapsMembers
<1>3. ASSUME NEW acts \in ActionMaps, NEW name \in ActionNames, NEW body \in Bodies
      PROVE  WithAction(acts, name, body) \in ActionMaps
  <2>1. acts \in [DOMAIN acts -> Bodies] /\ DOMAIN acts \cup {name} \in SUBSET ActionNames
    BY ActionMapsMembers
  <2>2. WithAction(acts, name, body) \in [DOMAIN acts \cup {name} -> Bodies]
    BY <2>1 DEF WithAction
  <2>. QED BY <2>1, <2>2, ActionMapsMembers
<1>4. ASSUME NEW acts \in ActionMaps, NEW name \in ActionNames
      PROVE  WithoutAction(acts, name) \in ActionMaps
  <2>1. acts \in [DOMAIN acts -> Bodies] /\ DOMAIN acts \ {name} \in SUBSET ActionNames
    BY ActionMapsMembers
  <2>2. WithoutAction(acts, name) \in [DOMAIN acts \ {name} -> Bodies]
    BY <2>1 DEF WithoutAction
  <2>. QED BY <2>1, <2>2, ActionMapsMembers
<1>. QED BY <1>2, <1>3, <1>4
-----------------------------------------------------------------------------
(* The type invariant of AlertConfig.                                        *)

\* What a thread's state may become.
LEMMA AdminMoves ==
  ASSUME AdminShape(admin), NEW t \in Admins
  PROVE  /\ \A pc \in PCs : AdminShape(Goes(t, pc))
         /\ AdminShape([admin EXCEPT ![t] = Idle])
         /\ \A k \in Kinds : \A c \in Configs(k) :
              AdminShape([admin EXCEPT ![t] = [pc |-> "compare", kind |-> k, config |-> c]])
<1>. DEFINE State(u) == [pc |-> admin[u].pc, kind |-> admin[u].kind, config |-> admin[u].config]
<1>1. ASSUME NEW r, r = [pc |-> r.pc, kind |-> r.kind, config |-> r.config],
             r.pc \in PCs, r.kind \in Kinds, r.config \in Configs(r.kind)
      PROVE  AdminShape([admin EXCEPT ![t] = r])
  BY <1>1 DEF AdminShape
<1>2. ASSUME NEW pc \in PCs PROVE AdminShape(Goes(t, pc))
  <2>. DEFINE r == [pc |-> pc, kind |-> admin[t].kind, config |-> admin[t].config]
  <2>1. admin[t] = [pc |-> admin[t].pc, kind |-> admin[t].kind, config |-> admin[t].config]
    BY DEF AdminShape
  <2>2. [admin[t] EXCEPT !.pc = pc] = r
    BY <2>1
  <2>3. Goes(t, pc) = [admin EXCEPT ![t] = r]
    BY <2>2 DEF Goes
  <2>4. /\ r.pc = pc /\ r.kind = admin[t].kind /\ r.config = admin[t].config
        /\ r = [pc |-> r.pc, kind |-> r.kind, config |-> r.config]
    OBVIOUS
  <2>. HIDE DEF r
  <2>5. AdminShape([admin EXCEPT ![t] = r])
    BY <1>1, <2>4 DEF AdminShape
  <2>. QED BY <2>3, <2>5
<1>3. AdminShape([admin EXCEPT ![t] = Idle])
  <2>1. /\ Idle.pc \in PCs /\ Idle.kind = "rules" /\ "rules" \in Kinds /\ Idle.config = <<>>
        /\ Idle = [pc |-> Idle.pc, kind |-> Idle.kind, config |-> Idle.config]
    BY DEF Idle, PCs, Kinds
  <2>2. Idle.config \in Configs(Idle.kind)
    BY <2>1, LoadsAreRules DEF Configs
  <2>. QED BY <1>1, <2>1, <2>2
<1>4. ASSUME NEW k \in Kinds, NEW c \in Configs(k)
      PROVE  AdminShape([admin EXCEPT ![t] = [pc |-> "compare", kind |-> k, config |-> c]])
  <2>. DEFINE r == [pc |-> "compare", kind |-> k, config |-> c]
  <2>1. /\ r.pc \in PCs /\ r.kind = k /\ r.config = c
        /\ r = [pc |-> r.pc, kind |-> r.kind, config |-> r.config]
    BY DEF PCs
  <2>. HIDE DEF r
  <2>2. AdminShape([admin EXCEPT ![t] = r])
    BY <1>1, <2>1
  <2>. QED BY <2>2 DEF r
<1>. QED BY <1>2, <1>3, <1>4

\* All threads at rest.
LEMMA AllIdle == AdminShape([t \in Admins |-> Idle])
<1>1. /\ Idle.pc \in PCs /\ Idle.kind = "rules" /\ "rules" \in Kinds /\ Idle.config = <<>>
      /\ Idle = [pc |-> Idle.pc, kind |-> Idle.kind, config |-> Idle.config]
  BY DEF Idle, PCs, Kinds
<1>2. Idle.config \in Configs(Idle.kind)
  BY <1>1, LoadsAreRules DEF Configs
<1>. HIDE DEF Idle
<1>. QED BY <1>1, <1>2 DEF AdminShape

\* What a file may become.
LEMMA FileMoves ==
  ASSUME FileShape(file), NEW k \in Kinds, NEW c, c = Torn \/ c \in Configs(k)
  PROVE  FileShape([file EXCEPT ![k] = c])
BY DEF FileShape

\* The end of the daemon.
LEMMA DieType ==
  ASSUME TypeOK, Die
  PROVE  TypeOK'
<1>1. /\ up' = FALSE /\ rules' = <<>> /\ actions' = NoActions
      /\ modified' = [k \in Kinds |-> FALSE] /\ admin' = [t \in Admins |-> Idle]
      /\ file' = file
  BY DEF Die
<1>2. MemoryOK'
  BY <1>1, LoadsAreRules, EditsAreActions DEF MemoryOK
<1>3. FileShape(file)' /\ AdminShape(admin)'
  <2>1. FileShape(file) BY TypeParts
  <2>. QED BY <1>1, <2>1, AllIdle DEF FileShape
<1>4. DownOK'
  BY <1>1 DEF DownOK
<1>. QED BY <1>2, <1>3, <1>4, TypePartsNext

\* What can be saved of what runs.
LEMMA RunningType ==
  ASSUME TypeOK
  PROVE  \A k \in Kinds : Running(k) \in Configs(k)
BY TypeParts DEF MemoryOK, Running, Configs, Kinds

\* The initial states have the type.
LEMMA TypeInit == Init => TypeOK
<1>. SUFFICES ASSUME Init PROVE TypeOK
  OBVIOUS
<1>1. PICK n \in ActionNames, b \in Bodies, fs \in {<<>>} \cup {<<rule>> : rule \in RuleSet} :
        file = [rules |-> fs, actions |-> WithAction(NoActions, n, b)]
  BY DEF Init
<1>2. WithAction(NoActions, n, b) \in ActionMaps
  BY EditsAreActions
<1>3. fs \in RuleLists
  <2>1. ASSUME NEW rule \in RuleSet, fs = <<rule>> PROVE fs \in RuleLists
    <3>1. fs \in Seq(RuleSet) /\ Len(fs) = 1 /\ MaxRules \in Nat \ {0}
      BY <2>1, ConfigAssumption
    <3>. QED BY <3>1 DEF RuleLists
  <2>. QED BY <2>1, LoadsAreRules
<1>4. FileShape(file)
  <2>1. file["rules"] = fs /\ file["actions"] = WithAction(NoActions, n, b)
    BY <1>1
  <2>2. file = [k \in Kinds |-> file[k]]
    BY <1>1 DEF Kinds
  <2>. QED BY <2>1, <2>2, <1>2, <1>3 DEF FileShape, Configs, Kinds
<1>5. MemoryOK
  BY LoadsAreRules, EditsAreActions DEF MemoryOK, Init
<1>6. AdminShape(admin) /\ DownOK
  BY AllIdle DEF Init, DownOK
<1>. QED BY <1>4, <1>5, <1>6, TypeParts

\* A call that edits.
LEMMA EditType ==
  ASSUME TypeOK, NEW t \in Admins, Edit(t)
  PROVE  TypeOK'
<1>1. MemoryOK /\ FileShape(file) /\ AdminShape(admin) /\ DownOK
  BY TypeParts
<1>2. rules \in RuleLists /\ actions \in ActionMaps /\ modified \in [Kinds -> BOOLEAN]
  BY <1>1 DEF MemoryOK
<1>3. Len(rules) \in Nat
  BY <1>2 DEF RuleLists
<1>4. ASSUME NEW rs \in RuleLists, EditRules(t, rs, MarkRules) PROVE TypeOK'
  <2>1. up /\ up' = up /\ rules' = rs /\ actions' = actions /\ file' = file /\ admin' = admin
    BY <1>4 DEF EditRules, Ready
  <2>2. modified' \in [Kinds -> BOOLEAN]
    BY <1>2, <1>4 DEF EditRules, MarkRules
  <2>3. MemoryOK' /\ DownOK'
    BY <1>1, <2>1, <2>2 DEF MemoryOK, DownOK
  <2>4. FileShape(file)' /\ AdminShape(admin)'
    BY <1>1, <2>1 DEF FileShape, AdminShape
  <2>. QED BY <2>3, <2>4, TypePartsNext
<1>5. ASSUME NEW acts \in ActionMaps, EditActions(t, acts) PROVE TypeOK'
  <2>1. up /\ up' = up /\ rules' = rules /\ actions' = acts /\ file' = file /\ admin' = admin
    BY <1>5 DEF EditActions, Ready
  <2>2. modified' \in [Kinds -> BOOLEAN]
    BY <1>2, <1>5 DEF EditActions
  <2>3. MemoryOK' /\ DownOK'
    BY <1>1, <2>1, <2>2 DEF MemoryOK, DownOK
  <2>4. FileShape(file)' /\ AdminShape(admin)'
    BY <1>1, <2>1 DEF FileShape, AdminShape
  <2>. QED BY <2>3, <2>4, TypePartsNext
<1>6. ASSUME NEW pos \in 0..MaxRules, NEW rule \in RuleSet, AddRule(t, pos, rule) PROVE TypeOK'
  <2>1. pos \in Nat /\ InsertRule(rules, pos, rule) \in RuleLists
    BY <1>2, <1>6, EditsAreRules DEF AddRule
  <2>. QED BY <1>4, <1>6, <2>1 DEF AddRule
<1>7. ASSUME NEW pos \in 0..MaxRules, NEW rule \in RuleSet, EditRule(t, pos, rule) PROVE TypeOK'
  <2>1. pos \in Nat /\ ReplaceRule(rules, pos, rule) \in RuleLists
    BY <1>2, <1>7, EditsAreRules DEF EditRule
  <2>. QED BY <1>4, <1>7, <2>1 DEF EditRule
<1>8. ASSUME NEW pos \in 0..MaxRules, RemoveRule(t, pos) PROVE TypeOK'
  <2>1. pos \in Nat /\ EraseRule(rules, pos) \in RuleLists
    BY <1>2, <1>8, EditsAreRules DEF RemoveRule
  <2>. QED BY <1>4, <1>8, <2>1 DEF RemoveRule
<1>9. ASSUME NEW pos \in 0..MaxRules, RuleUp(t, pos) \/ RuleDown(t, pos) PROVE TypeOK'
  <2>1. PICK p \in Nat : p + 1 < Len(rules) /\ EditRules(t, SwapWithNext(rules, p), MarkRules)
    <3>1. CASE RuleUp(t, pos)
      <4>1. pos - 1 \in Nat /\ (pos - 1) + 1 < Len(rules)
        BY <1>3, <3>1 DEF RuleUp
      <4>. QED BY <3>1, <4>1 DEF RuleUp, MarkMoved, MarkRules
    <3>2. CASE RuleDown(t, pos)
      <4>1. pos \in Nat /\ pos + 1 < Len(rules)
        BY <1>3, <3>2 DEF RuleDown
      <4>. QED BY <3>2, <4>1 DEF RuleDown, MarkMoved, MarkRules
    <3>. QED BY <1>9, <3>1, <3>2
  <2>2. SwapWithNext(rules, p) \in RuleLists
    BY <1>2, <2>1, EditsAreRules
  <2>. QED BY <1>4, <2>1, <2>2
<1>10. ASSUME NEW name \in ActionNames, NEW body \in Bodies,
              AddAction(t, name, body) \/ EditAction(t, name, body)
       PROVE  TypeOK'
  BY <1>2, <1>5, <1>10, EditsAreActions DEF AddAction, EditAction
<1>11. ASSUME NEW name \in ActionNames, RemoveAction(t, name) PROVE TypeOK'
  BY <1>2, <1>5, <1>11, EditsAreActions DEF RemoveAction
<1>. QED BY <1>6, <1>7, <1>8, <1>9, <1>10, <1>11 DEF Edit

\* What a reload makes of the memory.
LEMMA ReloadType ==
  ASSUME TypeOK, NEW k \in Kinds, up, file[k] # Torn, Reload(k)
  PROVE  MemoryOK' /\ DownOK' /\ FileShape(file)'
<1>1. MemoryOK /\ FileShape(file)
  BY TypeParts
<1>2. up' = up /\ file' = file /\ modified' \in [Kinds -> BOOLEAN]
  BY <1>1 DEF Reload, MemoryOK
<1>3. file[k] \in Configs(k)
  BY <1>1 DEF FileShape
<1>4. rules' \in RuleLists /\ actions' \in ActionMaps
  <2>1. CASE k = "rules"
    BY <1>1, <1>3, <2>1, LoadsAreRules DEF Reload, LoadedRules, Configs, MemoryOK
  <2>2. CASE k = "actions"
    BY <1>1, <1>3, <2>2 DEF Reload, Configs, MemoryOK
  <2>. QED BY <2>1, <2>2 DEF Kinds
<1>. QED BY <1>1, <1>2, <1>4 DEF MemoryOK, DownOK, FileShape

\* A call that saves, reloads or reads a file.
LEMMA SaveType ==
  ASSUME TypeOK, NEW t \in Admins, Save(t)
  PROVE  TypeOK'
<1>1. MemoryOK /\ FileShape(file) /\ AdminShape(admin) /\ DownOK
  BY TypeParts
<1>2. /\ admin[t].pc \in PCs /\ admin[t].kind \in Kinds
      /\ admin[t].config \in Configs(admin[t].kind)
      /\ (~up => admin[t].pc = "idle")
  BY <1>1 DEF AdminShape, DownOK, Idle
<1>3. ASSUME up, MemoryOK', FileShape(file)', AdminShape(admin'), up' = up PROVE TypeOK'
  BY <1>3, TypePartsNext DEF DownOK
<1>4. ASSUME NEW k \in Kinds, SaveRunning(t, k) PROVE TypeOK'
  <2>1. AdminShape(admin')
    BY <1>1, <1>4, RunningType, AdminMoves DEF SaveRunning
  <2>. QED BY <1>1, <1>3, <1>4, <2>1 DEF SaveRunning, Ready, MemoryOK, FileShape
<1>5. ASSUME NEW k \in Kinds, NEW c \in Configs(k), WriteFileConfig(t, k, c) PROVE TypeOK'
  <2>1. AdminShape(admin')
    BY <1>1, <1>5, AdminMoves DEF WriteFileConfig
  <2>. QED BY <1>1, <1>3, <1>5, <2>1 DEF WriteFileConfig, Ready, MemoryOK, FileShape
<1>6. ASSUME NEW k \in Kinds, ReloadCall(t, k) PROVE TypeOK'
  <2>1. CASE file[k] = Torn
    BY <1>6, <2>1, DieType DEF ReloadCall
  <2>2. CASE file[k] # Torn
    <3>1. up /\ Reload(k) /\ admin' = admin
      BY <1>6, <2>2 DEF ReloadCall, Ready
    <3>2. MemoryOK' /\ DownOK' /\ FileShape(file)'
      BY <2>2, <3>1, ReloadType
    <3>. QED BY <1>1, <3>1, <3>2, TypePartsNext DEF AdminShape
  <2>. QED BY <2>1, <2>2
<1>7. ASSUME NEW k \in Kinds, ReadFileConfig(t, k) PROVE TypeOK'
  <2>1. CASE file[k] = Torn
    BY <1>7, <2>1, DieType DEF ReadFileConfig
  <2>2. CASE file[k] # Torn
    <3>1. UNCHANGED vars
      BY <1>7, <2>2 DEF ReadFileConfig
    <3>. QED BY <1>1, <3>1, TypePartsNext DEF vars, MemoryOK, DownOK, FileShape, AdminShape
  <2>. QED BY <2>1, <2>2
<1>8. ASSUME Compare(t) PROVE TypeOK'
  <2>. DEFINE k == admin[t].kind
  <2>1. up
    BY <1>2, <1>8 DEF Compare
  <2>2. CASE Die
    BY <2>2, DieType
  <2>3. CASE /\ modified' = [modified EXCEPT ![k] = FALSE] /\ admin' = [admin EXCEPT ![t] = Idle]
             /\ UNCHANGED <<up, rules, actions, file>>
    BY <1>1, <1>2, <1>3, <2>1, <2>3, AdminMoves DEF MemoryOK, FileShape
  <2>4. CASE admin' = Goes(t, "open") /\ UNCHANGED <<up, rules, actions, modified, file>>
    BY <1>1, <1>3, <2>1, <2>4, AdminMoves DEF MemoryOK, FileShape, PCs
  <2>. QED BY <1>8, <2>2, <2>3, <2>4 DEF Compare
<1>9. ASSUME Open(t) PROVE TypeOK'
  <2>1. up /\ UNCHANGED <<up, rules, actions, modified>>
    BY <1>2, <1>9 DEF Open
  <2>2. FileShape(file')
    BY <1>1, <1>2, <1>9, FileMoves DEF Open
  <2>3. AdminShape(admin')
    BY <1>1, <1>9, AdminMoves DEF Open, Opened, PCs
  <2>. QED BY <1>1, <1>3, <2>1, <2>2, <2>3 DEF MemoryOK, FileShape
<1>10. ASSUME WriteAndClose(t) PROVE TypeOK'
  <2>1. up /\ UNCHANGED <<up, rules, actions, modified>>
    BY <1>2, <1>10 DEF WriteAndClose
  <2>2. FileShape(file')
    BY <1>1, <1>2, <1>10, FileMoves DEF WriteAndClose
  <2>3. AdminShape(admin')
    BY <1>1, <1>10, AdminMoves DEF WriteAndClose, PCs
  <2>. QED BY <1>1, <1>3, <2>1, <2>2, <2>3 DEF MemoryOK, FileShape
<1>11. ASSUME ReloadWritten(t) PROVE TypeOK'
  <2>1. CASE file[admin[t].kind] = Torn
    BY <1>11, <2>1, DieType DEF ReloadWritten
  <2>2. CASE file[admin[t].kind] # Torn
    <3>1. up /\ Reload(admin[t].kind) /\ admin' = Goes(t, "clear")
      BY <1>2, <1>11, <2>2 DEF ReloadWritten
    <3>2. MemoryOK' /\ DownOK' /\ FileShape(file)'
      BY <1>2, <2>2, <3>1, ReloadType
    <3>3. AdminShape(admin')
      BY <1>1, <3>1, AdminMoves DEF PCs
    <3>. QED BY <3>2, <3>3, TypePartsNext DEF AdminShape
  <2>. QED BY <2>1, <2>2
<1>12. ASSUME ClearFlag(t) PROVE TypeOK'
  <2>1. up
    BY <1>2, <1>12 DEF ClearFlag
  <2>2. AdminShape(admin')
    BY <1>1, <1>12, AdminMoves DEF ClearFlag
  <2>. QED BY <1>1, <1>2, <1>3, <1>12, <2>1, <2>2 DEF ClearFlag, MemoryOK, FileShape
<1>13. \A c \in WrittenRules : c \in Configs("rules")
  BY ConfigAssumption DEF Configs
<1>14. \A c \in WrittenActions : c \in Configs("actions")
  BY ConfigAssumption DEF Configs
<1>15. "rules" \in Kinds /\ "actions" \in Kinds
  BY DEF Kinds
<1>. QED BY <1>4, <1>5, <1>6, <1>7, <1>8, <1>9, <1>10, <1>11, <1>12, <1>13, <1>14, <1>15 DEF Save

\* A start.
LEMMA StartType ==
  ASSUME TypeOK, Start
  PROVE  TypeOK'
<1>1. MemoryOK /\ FileShape(file) /\ AdminShape(admin) /\ DownOK
  BY TypeParts
<1>2. CASE Torn \in {file[k] : k \in Kinds}
  <2>1. UNCHANGED vars
    BY <1>2 DEF Start
  <2>. QED BY <1>1, <2>1, TypePartsNext DEF vars, MemoryOK, DownOK, FileShape, AdminShape
<1>3. CASE Torn \notin {file[k] : k \in Kinds}
  <2>1. /\ up' = TRUE /\ actions' = file["actions"]
        /\ rules' = LoadRules(file["rules"], file["actions"])
        /\ UNCHANGED <<modified, file, admin>>
    BY <1>3 DEF Start
  <2>2. file["rules"] \in RuleLists /\ file["actions"] \in ActionMaps
    <3>1. "rules" \in Kinds /\ "actions" \in Kinds
      BY DEF Kinds
    <3>2. file["rules"] # Torn /\ file["actions"] # Torn
      BY <1>3, <3>1
    <3>. QED BY <1>1, <3>1, <3>2 DEF FileShape, Configs
  <2>3. MemoryOK' /\ DownOK'
    BY <1>1, <2>1, <2>2, LoadsAreRules DEF MemoryOK, DownOK
  <2>4. FileShape(file)' /\ AdminShape(admin)'
    BY <1>1, <2>1 DEF FileShape, AdminShape
  <2>. QED BY <2>3, <2>4, TypePartsNext
<1>. QED BY <1>2, <1>3

\* Every step keeps the type.
LEMMA TypeStep == TypeOK /\ [Next]_vars => TypeOK'
<1>. SUFFICES ASSUME TypeOK, [Next]_vars PROVE TypeOK'
  OBVIOUS
<1>1. CASE UNCHANGED vars
  <2>1. MemoryOK /\ FileShape(file) /\ AdminShape(admin) /\ DownOK
    BY TypeParts
  <2>. QED BY <1>1, <2>1, TypePartsNext DEF vars, MemoryOK, DownOK, FileShape, AdminShape
<1>2. CASE Stop
  BY <1>2, DieType DEF Stop
<1>3. CASE Start
  BY <1>3, StartType
<1>4. ASSUME NEW t \in Admins, Edit(t) PROVE TypeOK'
  BY <1>4, EditType
<1>5. ASSUME NEW t \in Admins, Save(t) PROVE TypeOK'
  BY <1>5, SaveType
<1>. QED BY <1>1, <1>2, <1>3, <1>4, <1>5 DEF Next

\* rules.json, actions.json and what runs are lists of rules and maps of
\* actions, whatever the calls that overlap, the saves and the restarts.
THEOREM TypeCorrect == Spec => []TypeOK
BY TypeInit, TypeStep, PTL DEF Spec
-----------------------------------------------------------------------------
(* Torn files of rules and actions.                                          *)

\* A configuration is not a torn file.
LEMMA ConfigsAreWhole ==
  ASSUME NEW k \in Kinds
  PROVE  Torn \notin Configs(k)
BY ConfigAssumption DEF Configs, RuleLists

\* Only an opening makes a file torn, and the thread that made it one writes it.
LEMMA TornSave ==
  ASSUME TypeOK, TornOnlyWhileWriting, NEW t \in Admins, Save(t)
  PROVE  TornOnlyWhileWriting'
<1>1. FileShape(file) /\ AdminShape(admin) /\ DownOK
  BY TypeParts
<1>2. /\ admin[t].kind \in Kinds /\ admin[t].config \in Configs(admin[t].kind)
      /\ (~up => admin[t].pc = "idle")
  BY <1>1 DEF AdminShape, DownOK, Idle
<1>3. ASSUME up, \A k \in Kinds : file'[k] = Torn => file[k] = Torn,
             \A u \in Admins : admin[u].pc = "write" => admin'[u] = admin[u]
      PROVE  TornOnlyWhileWriting'
  BY <1>3 DEF TornOnlyWhileWriting
<1>4. ASSUME Die PROVE TornOnlyWhileWriting'
  BY <1>4 DEF Die, TornOnlyWhileWriting
<1>5. ASSUME UNCHANGED vars PROVE TornOnlyWhileWriting'
  BY <1>5 DEF vars, TornOnlyWhileWriting
<1>6. ASSUME up, admin[t].pc # "write", file' = file,
             admin' = admin \/ \E r : admin' = [admin EXCEPT ![t] = r]
      PROVE  TornOnlyWhileWriting'
  <2>1. \A u \in Admins : admin[u].pc = "write" => admin'[u] = admin[u]
    BY <1>1, <1>6 DEF AdminShape
  <2>. QED BY <1>3, <1>6, <2>1
<1>7. ASSUME NEW k \in Kinds, SaveRunning(t, k) PROVE TornOnlyWhileWriting'
  BY <1>6, <1>7 DEF SaveRunning, Ready
<1>8. ASSUME NEW k \in Kinds, NEW c, WriteFileConfig(t, k, c) PROVE TornOnlyWhileWriting'
  BY <1>6, <1>8 DEF WriteFileConfig, Ready
<1>9. ASSUME NEW k \in Kinds, ReloadCall(t, k) PROVE TornOnlyWhileWriting'
  BY <1>4, <1>6, <1>9 DEF ReloadCall, Reload, Ready
<1>10. ASSUME NEW k \in Kinds, ReadFileConfig(t, k) PROVE TornOnlyWhileWriting'
  BY <1>4, <1>5, <1>10 DEF ReadFileConfig
<1>11. ASSUME Compare(t) PROVE TornOnlyWhileWriting'
  <2>1. up /\ admin[t].pc # "write"
    BY <1>2, <1>11 DEF Compare
  <2>2. Die \/ (file' = file /\ \E r : admin' = [admin EXCEPT ![t] = r])
    BY <1>11 DEF Compare, Goes
  <2>. QED BY <1>4, <1>6, <2>1, <2>2
<1>12. ASSUME Open(t) PROVE TornOnlyWhileWriting'
  <2>1. up /\ up' = up /\ admin[t].pc # "write"
    BY <1>2, <1>12 DEF Open
  <2>2. CASE file' = file /\ admin' = [admin EXCEPT ![t] = Idle]
    BY <1>6, <2>1, <2>2
  <2>3. CASE file' = [file EXCEPT ![admin[t].kind] = Torn] /\ admin' = Opened(t)
    <3>1. /\ \A u \in Admins : u # t => admin'[u] = admin[u]
          /\ admin'[t].pc = "write" /\ admin'[t].kind = admin[t].kind
      BY <1>1, <2>3 DEF Opened, Goes, AdminShape
    <3>2. \A k \in Kinds : k # admin[t].kind => file'[k] = file[k]
      BY <1>1, <2>3 DEF FileShape
    <3>. QED BY <2>1, <3>1, <3>2 DEF TornOnlyWhileWriting
  <2>. QED BY <1>12, <2>2, <2>3 DEF Open
<1>13. ASSUME WriteAndClose(t) PROVE TornOnlyWhileWriting'
  <2>1. up /\ up' = up
    BY <1>2, <1>13 DEF WriteAndClose
  <2>2. \A u \in Admins : u # t => admin'[u] = admin[u]
    BY <1>1, <1>13 DEF WriteAndClose, Goes, AdminShape
  <2>3. /\ file'[admin[t].kind] # Torn
        /\ \A k \in Kinds : k # admin[t].kind => file'[k] = file[k]
    BY <1>1, <1>2, <1>13, ConfigsAreWhole DEF WriteAndClose, FileShape
  <2>. QED BY <2>1, <2>2, <2>3 DEF TornOnlyWhileWriting
<1>14. ASSUME ReloadWritten(t) PROVE TornOnlyWhileWriting'
  <2>1. up /\ admin[t].pc # "write"
    BY <1>2, <1>14 DEF ReloadWritten
  <2>2. Die \/ (file' = file /\ \E r : admin' = [admin EXCEPT ![t] = r])
    BY <1>14 DEF ReloadWritten, Reload, Goes
  <2>. QED BY <1>4, <1>6, <2>1, <2>2
<1>15. ASSUME ClearFlag(t) PROVE TornOnlyWhileWriting'
  BY <1>2, <1>6, <1>15 DEF ClearFlag
<1>16. "rules" \in Kinds /\ "actions" \in Kinds
  BY DEF Kinds
<1>. QED BY <1>7, <1>8, <1>9, <1>10, <1>11, <1>12, <1>13, <1>14, <1>15, <1>16 DEF Save

\* Every step keeps it.
LEMMA TornStep == TypeOK /\ TornOnlyWhileWriting /\ [Next]_vars => TornOnlyWhileWriting'
<1>. SUFFICES ASSUME TypeOK, TornOnlyWhileWriting, [Next]_vars PROVE TornOnlyWhileWriting'
  OBVIOUS
<1>1. CASE UNCHANGED vars
  BY <1>1 DEF vars, TornOnlyWhileWriting
<1>2. CASE Stop
  BY <1>2 DEF Stop, Die, TornOnlyWhileWriting
<1>3. CASE Start
  BY <1>3 DEF Start, vars, TornOnlyWhileWriting
<1>4. ASSUME NEW t \in Admins, Edit(t) PROVE TornOnlyWhileWriting'
  <2>1. UNCHANGED <<up, file, admin>>
    BY <1>4 DEF Edit, AddRule, EditRule, RemoveRule, RuleUp, RuleDown, EditRules,
                AddAction, EditAction, RemoveAction, EditActions
  <2>. QED BY <2>1 DEF TornOnlyWhileWriting
<1>5. ASSUME NEW t \in Admins, Save(t) PROVE TornOnlyWhileWriting'
  BY <1>5, TornSave
<1>. QED BY <1>1, <1>2, <1>3, <1>4, <1>5 DEF Next

\* However many saves overlap, none leaves a file without contents behind.
THEOREM NoTornFileLeft == Spec => []TornOnlyWhileWriting
<1>1. Init => TornOnlyWhileWriting
  BY DEF Init, TornOnlyWhileWriting
<1>. QED BY <1>1, TypeCorrect, TornStep, PTL DEF Spec
-----------------------------------------------------------------------------
(* Subsequences of rule lists.                                               *)

\* A list is a subsequence of itself, and so is what is loaded of it.
LEMMA LoadIsSubSeq ==
  ASSUME NEW rs \in RuleLists, NEW acts
  PROVE  IsSubSeq(rs, rs) /\ IsSubSeq(LoadRules(rs, acts), rs)
<1>1. rs \in Seq(RuleSet) /\ Len(rs) \in Nat /\ DOMAIN rs = 1..Len(rs)
  BY DEF RuleLists
<1>2. IsSubSeq(rs, rs)
  <2>. DEFINE f == [i \in 1..Len(rs) |-> i]
  <2>1. f \in [1..Len(rs) -> DOMAIN rs] /\ \A i \in 1..Len(rs) : f[i] = i
    BY <1>1
  <2>. HIDE DEF f
  <2>2. /\ \A i, j \in 1..Len(rs) : i < j => f[i] < f[j]
        /\ \A i \in 1..Len(rs) : rs[i] = rs[f[i]]
    BY <2>1
  <2>. QED BY <2>1, <2>2 DEF IsSubSeq
<1>3. IsSubSeq(LoadRules(rs, acts), rs)
  <2>. DEFINE D == {i \in DOMAIN rs : Accepts(rs[i], acts)}
              c == Chosen(rs, D)
              f == [k \in 1..Len(c) |-> Nth(D, k)]
  <2>1. D \in SUBSET DOMAIN rs
    OBVIOUS
  <2>. HIDE DEF D
  <2>2. Len(c) = Cardinality(D) /\ D \in SUBSET Nat /\ IsFiniteSet(D)
    BY <1>1, <2>1, ChosenType, PositionsFinite
  <2>3. /\ \A k \in 1..Len(c) : Nth(D, k) \in D
        /\ \A k, l \in 1..Len(c) : k < l => Nth(D, k) < Nth(D, l)
    BY <2>2, NthInOrder
  <2>4. \A k \in 1..Len(c) : c[k] = rs[Nth(D, k)]
    BY <2>2 DEF Chosen
  <2>. HIDE DEF c
  <2>5. /\ f \in [1..Len(c) -> D]
        /\ \A i, j \in 1..Len(c) : i < j => f[i] < f[j]
        /\ \A i \in 1..Len(c) : c[i] = rs[f[i]]
    BY <2>3, <2>4
  <2>. HIDE DEF f
  <2>6. IsSubSeq(c, rs)
    BY <2>1, <2>5 DEF IsSubSeq
  <2>. QED BY <2>6 DEF LoadRules, c, D
<1>. QED BY <1>2, <1>3

\* Loading keeps the order: of a subsequence, it gives a subsequence.
LEMMA LoadMonotone ==
  ASSUME NEW s \in RuleLists, NEW r \in RuleLists, NEW acts, IsSubSeq(s, r)
  PROVE  IsSubSeq(LoadRules(s, acts), LoadRules(r, acts))
<1>. DEFINE Ds == {i \in DOMAIN s : Accepts(s[i], acts)}
            Dr == {i \in DOMAIN r : Accepts(r[i], acts)}
            cs == Chosen(s, Ds)
            cr == Chosen(r, Dr)
<1>1. /\ s \in Seq(RuleSet) /\ Len(s) \in Nat /\ DOMAIN s = 1..Len(s)
      /\ r \in Seq(RuleSet) /\ Len(r) \in Nat /\ DOMAIN r = 1..Len(r)
  BY DEF RuleLists
<1>2. PICK D \in SUBSET DOMAIN r : \E f \in [1..Len(s) -> D] :
        /\ \A i, j \in 1..Len(s) : i < j => f[i] < f[j]
        /\ \A i \in 1..Len(s) : s[i] = r[f[i]]
  BY DEF IsSubSeq
<1>3. PICK f \in [1..Len(s) -> D] :
        /\ \A i, j \in 1..Len(s) : i < j => f[i] < f[j]
        /\ \A i \in 1..Len(s) : s[i] = r[f[i]]
  BY <1>2
<1>4. Ds \in SUBSET DOMAIN s /\ Dr \in SUBSET DOMAIN r
  OBVIOUS
<1>5. \A i \in Ds : f[i] \in Dr /\ s[i] = r[f[i]] /\ i \in 1..Len(s)
  BY <1>1, <1>3
<1>. HIDE DEF Ds, Dr
<1>6. /\ Ds \in SUBSET Nat /\ IsFiniteSet(Ds) /\ Dr \in SUBSET Nat /\ IsFiniteSet(Dr)
      /\ Len(cs) = Cardinality(Ds) /\ Len(cr) = Cardinality(Dr)
      /\ DOMAIN cr = 1..Len(cr)
  BY <1>1, <1>4, ChosenType, PositionsFinite
<1>7. /\ \A k \in 1..Len(cs) : Nth(Ds, k) \in Ds
      /\ \A k, l \in 1..Len(cs) : k < l => Nth(Ds, k) < Nth(Ds, l)
      /\ \A i \in Dr : Nth(Dr, Rank(Dr, i)) = i
  BY <1>6, NthInOrder
<1>8. /\ \A i \in Dr : Rank(Dr, i) \in 1..Len(cr)
      /\ \A h, i \in Dr : h < i => Rank(Dr, h) < Rank(Dr, i)
  BY <1>6, RankGrows
<1>9. /\ \A k \in 1..Len(cs) : cs[k] = s[Nth(Ds, k)]
      /\ \A k \in 1..Len(cr) : cr[k] = r[Nth(Dr, k)]
  BY <1>6 DEF Chosen
<1>. HIDE DEF cs, cr
<1>. DEFINE g == [k \in 1..Len(cs) |-> Rank(Dr, f[Nth(Ds, k)])]
<1>10. \A k \in 1..Len(cs) :
        /\ f[Nth(Ds, k)] \in Dr /\ s[Nth(Ds, k)] = r[f[Nth(Ds, k)]]
        /\ Nth(Ds, k) \in 1..Len(s)
  BY <1>5, <1>7
<1>11. g \in [1..Len(cs) -> DOMAIN cr]
  BY <1>6, <1>8, <1>10
<1>12. \A k, l \in 1..Len(cs) : k < l => g[k] < g[l]
  <2>1. ASSUME NEW k \in 1..Len(cs), NEW l \in 1..Len(cs), k < l PROVE g[k] < g[l]
    <3>1. f[Nth(Ds, k)] < f[Nth(Ds, l)]
      BY <1>3, <1>7, <1>10, <2>1
    <3>. QED BY <1>8, <1>10, <3>1
  <2>. QED BY <2>1
<1>13. \A k \in 1..Len(cs) : cs[k] = cr[g[k]]
  <2>1. ASSUME NEW k \in 1..Len(cs) PROVE cs[k] = cr[g[k]]
    <3>1. g[k] \in 1..Len(cr) /\ Nth(Dr, g[k]) = f[Nth(Ds, k)]
      BY <1>7, <1>8, <1>10
    <3>. QED BY <1>9, <1>10, <3>1
  <2>. QED BY <2>1
<1>14. IsSubSeq(cs, cr)
  <2>. HIDE DEF g
  <2>. QED BY <1>11, <1>12, <1>13 DEF IsSubSeq
<1>. QED BY <1>14 DEF LoadRules, cs, cr, Ds, Dr
-----------------------------------------------------------------------------
(* What a restart brings back, when one thread makes the calls.              *)

\* One RPC thread, and only the calls that the web pages make.
OneCaller == (\A t, u \in Admins : t = u) /\ WrittenRules = {} /\ WrittenActions = {}

\* What runs is what the file says, or part of it: reload drops the rules that
\* cannot run.
Synced(k) == IF k = "rules" THEN IsSubSeq(rules, file["rules"]) ELSE file["actions"] = actions

BeingWritten(k) == \E t \in Admins : admin[t].pc = "write" /\ admin[t].kind = k

\* Whatever is not flagged is on disk, unless its file is open at this moment; a
\* save carries what runs until it has reloaded it.
SaveInv ==
  /\ \A k \in Kinds : up /\ ~modified[k] /\ ~BeingWritten(k) => Synced(k)
  /\ \A t \in Admins :
       /\ admin[t].pc \in {"compare", "open", "write", "reload"} =>
            admin[t].config = Running(admin[t].kind)
       /\ admin[t].pc = "reload" => file[admin[t].kind] = admin[t].config
       /\ admin[t].pc = "clear" => Synced(admin[t].kind)

\* What runs and is in the file as it is.
LEMMA SyncedEqual ==
  ASSUME TypeOK, NEW k \in Kinds
  PROVE  /\ file[k] = Running(k) => Synced(k)
         /\ file'[k] = Running(k) /\ rules' = rules /\ actions' = actions => Synced(k)'
<1>1. IsSubSeq(rules, rules)
  BY TypeParts, LoadIsSubSeq DEF MemoryOK
<1>. QED BY <1>1 DEF Synced, Running, Kinds

\* A reload brings what runs in line with the file.
LEMMA SyncedReload ==
  ASSUME TypeOK, NEW k \in Kinds, file[k] # Torn, Reload(k)
  PROVE  /\ Synced(k)'
         /\ \A j \in Kinds \ {k} : Synced(j) => Synced(j)'
         /\ \A j \in Kinds \ {k} : modified'[j] = modified[j]
<1>1. file[k] \in Configs(k) /\ modified \in [Kinds -> BOOLEAN]
  BY TypeParts DEF FileShape, MemoryOK
<1>2. CASE k = "rules"
  <2>1. IsSubSeq(LoadRules(file["rules"], actions), file["rules"])
    BY <1>1, <1>2, LoadIsSubSeq DEF Configs
  <2>. QED BY <1>1, <1>2, <2>1 DEF Reload, LoadedRules, Synced, Kinds
<1>3. CASE k = "actions"
  BY <1>1, <1>3 DEF Reload, Synced, Kinds
<1>. QED BY <1>2, <1>3 DEF Kinds

\* A step of the only thread, in terms of what it changes.
LEMMA SaveInvByThread ==
  ASSUME OneCaller, SaveInv, AdminShape(admin), NEW t \in Admins, NEW pc, NEW k, up, up' = up,
         admin' = [u \in Admins |-> admin'[u]], admin'[t].pc = pc, admin'[t].kind = k,
         \A j \in Kinds : ~modified'[j] /\ ~(pc = "write" /\ k = j) => Synced(j)',
         pc \in {"compare", "open", "write", "reload"} => admin'[t].config = Running(k)',
         pc = "reload" => file'[k] = admin'[t].config,
         pc = "clear" => Synced(k)'
  PROVE  SaveInv'
<1>1. \A u \in Admins : u = t
  BY DEF OneCaller
<1>2. \A j \in Kinds : BeingWritten(j)' <=> pc = "write" /\ k = j
  BY <1>1 DEF BeingWritten
<1>. QED BY <1>1, <1>2 DEF SaveInv

\* Nothing is in progress once the daemon is down.
LEMMA SaveInvDown ==
  ASSUME up' = FALSE, \A t \in Admins : admin'[t] = Idle
  PROVE  SaveInv'
BY DEF SaveInv, Idle

\* An edit flags what it changes.
LEMMA SaveInvEdit ==
  ASSUME OneCaller, TypeOK, SaveInv, NEW t \in Admins, Edit(t)
  PROVE  SaveInv'
<1>1. AdminShape(admin) /\ modified \in [Kinds -> BOOLEAN]
  BY TypeParts DEF MemoryOK
<1>2. Ready(t) /\ up' = up /\ file' = file /\ admin' = admin
  BY DEF Edit, AddRule, EditRule, RemoveRule, RuleUp, RuleDown, EditRules,
         AddAction, EditAction, RemoveAction, EditActions
<1>3. \/ modified' = [modified EXCEPT !["rules"] = TRUE] /\ actions' = actions
      \/ modified' = [modified EXCEPT !["actions"] = TRUE] /\ rules' = rules
  BY DEF Edit, AddRule, EditRule, RemoveRule, RuleUp, RuleDown, EditRules, MarkRules,
         MarkMoved, AddAction, EditAction, RemoveAction, EditActions
<1>4. \A u \in Admins : admin[u].pc = "idle"
  BY <1>2 DEF OneCaller, Ready
<1>5. \A j \in Kinds : ~modified[j] => Synced(j)
  BY <1>2, <1>4 DEF SaveInv, BeingWritten, Ready
<1>6. \A j \in Kinds : ~modified'[j] => Synced(j)'
  BY <1>1, <1>2, <1>3, <1>5 DEF Synced, Kinds
<1>. QED BY <1>2, <1>4, <1>6 DEF SaveInv

\* A save, a reload or the reading of a file.
LEMMA SaveInvSave ==
  ASSUME OneCaller, TypeOK, SaveInv, NEW t \in Admins, Save(t)
  PROVE  SaveInv'
<1>1. AdminShape(admin) /\ FileShape(file) /\ DownOK /\ modified \in [Kinds -> BOOLEAN]
  BY TypeParts DEF MemoryOK
<1>2. PICK k \in Kinds : k = admin[t].kind
  BY <1>1 DEF AdminShape
<1>3. /\ ~up => admin[t].pc = "idle"
      /\ \A u \in Admins : u = t
      /\ admin = [u \in Admins |-> admin[u]]
      /\ file = [j \in Kinds |-> file[j]]
  BY <1>1 DEF DownOK, Idle, OneCaller, AdminShape, FileShape
<1>4. /\ \A j \in Kinds : up /\ ~modified[j] /\ ~(admin[t].pc = "write" /\ j = k) => Synced(j)
      /\ admin[t].pc \in {"compare", "open", "write", "reload"} => admin[t].config = Running(k)
      /\ admin[t].pc = "reload" => file[k] = admin[t].config
      /\ admin[t].pc = "clear" => Synced(k)
  BY <1>2, <1>3 DEF SaveInv, BeingWritten
<1>5. ASSUME Die PROVE SaveInv'
  <2>1. up' = FALSE /\ \A u \in Admins : admin'[u] = Idle
    BY <1>5 DEF Die
  <2>. QED BY <2>1, SaveInvDown
<1>6. ASSUME UNCHANGED vars PROVE SaveInv'
  BY <1>6 DEF vars, SaveInv, Synced, BeingWritten, Running
<1>7. ASSUME NEW j \in Kinds, SaveRunning(t, j) PROVE SaveInv'
  <2>1. /\ up /\ up' = up /\ admin[t].pc = "idle"
        /\ admin' = [admin EXCEPT ![t] = [pc |-> "compare", kind |-> j, config |-> Running(j)]]
        /\ rules' = rules /\ actions' = actions /\ modified' = modified /\ file' = file
    BY <1>7 DEF SaveRunning, Ready
  <2>2. /\ admin' = [u \in Admins |-> admin'[u]] /\ admin'[t].pc = "compare"
        /\ admin'[t].kind = j /\ admin'[t].config = Running(j)
    BY <1>3, <2>1
  <2>3. /\ \A i \in Kinds : ~modified'[i] => Synced(i)'
        /\ Running(j)' = Running(j)
    BY <1>4, <2>1 DEF Synced, Running
  <2>. QED BY <1>1, <2>1, <2>2, <2>3, SaveInvByThread
<1>8. ASSUME NEW j \in Kinds, ReloadCall(t, j) PROVE SaveInv'
  <2>1. CASE file[j] = Torn
    BY <1>5, <1>8, <2>1 DEF ReloadCall
  <2>2. CASE file[j] # Torn
    <3>1. Reload(j) /\ admin' = admin /\ up /\ up' = up /\ admin[t].pc = "idle"
      BY <1>8, <2>2 DEF ReloadCall, Reload, Ready
    <3>2. \A i \in Kinds : ~modified'[i] => Synced(i)'
      BY <1>4, <2>2, <3>1, SyncedReload
    <3>3. admin'[t].pc = "idle" /\ admin'[t].kind = k /\ admin' = [u \in Admins |-> admin'[u]]
      BY <1>2, <1>3, <3>1
    <3>. QED BY <1>1, <3>1, <3>2, <3>3, SaveInvByThread
  <2>. QED BY <2>1, <2>2
<1>9. ASSUME NEW j \in Kinds, ReadFileConfig(t, j) PROVE SaveInv'
  BY <1>5, <1>6, <1>9 DEF ReadFileConfig
<1>10. ASSUME Compare(t) PROVE SaveInv'
  <2>1. up /\ admin[t].pc = "compare"
    BY <1>3, <1>10 DEF Compare
  <2>2. CASE /\ file[k] = admin[t].config
             /\ modified' = [modified EXCEPT ![k] = FALSE]
             /\ admin' = [admin EXCEPT ![t] = Idle]
             /\ UNCHANGED <<up, rules, actions, file>>
    <3>1. Synced(k)
      BY <1>4, <2>1, <2>2, SyncedEqual
    <3>2. \A i \in Kinds : ~modified'[i] => Synced(i)'
      BY <1>1, <1>4, <2>1, <2>2, <3>1 DEF Synced
    <3>3. admin'[t].pc = "idle" /\ admin'[t].kind = "rules" /\ admin' = [u \in Admins |-> admin'[u]]
      BY <1>3, <2>2 DEF Idle
    <3>. QED BY <1>1, <2>1, <2>2, <3>2, <3>3, SaveInvByThread
  <2>3. CASE admin' = Goes(t, "open") /\ UNCHANGED <<up, rules, actions, modified, file>>
    <3>1. /\ admin'[t].pc = "open" /\ admin'[t].kind = k /\ admin'[t].config = admin[t].config
          /\ admin' = [u \in Admins |-> admin'[u]]
      BY <1>1, <1>2, <1>3, <2>3 DEF Goes, AdminShape
    <3>2. Running(k)' = Running(k) /\ \A i \in Kinds : ~modified'[i] => Synced(i)'
      BY <1>4, <2>1, <2>3 DEF Running, Synced
    <3>. QED BY <1>1, <1>4, <2>1, <2>3, <3>1, <3>2, SaveInvByThread
  <2>. QED BY <1>2, <1>5, <1>10, <2>2, <2>3 DEF Compare
<1>11. ASSUME Open(t) PROVE SaveInv'
  <2>1. /\ up /\ up' = up /\ admin[t].pc = "open"
        /\ rules' = rules /\ actions' = actions /\ modified' = modified
    BY <1>3, <1>11 DEF Open
  <2>2. CASE file' = file /\ admin' = [admin EXCEPT ![t] = Idle]
    <3>1. admin'[t].pc = "idle" /\ admin'[t].kind = "rules" /\ admin' = [u \in Admins |-> admin'[u]]
      BY <1>3, <2>2 DEF Idle
    <3>2. \A i \in Kinds : ~modified'[i] => Synced(i)'
      BY <1>4, <2>1, <2>2 DEF Synced
    <3>. QED BY <1>1, <2>1, <3>1, <3>2, SaveInvByThread
  <2>3. CASE file' = [file EXCEPT ![k] = Torn] /\ admin' = Opened(t)
    <3>1. /\ admin'[t].pc = "write" /\ admin'[t].kind = k /\ admin'[t].config = admin[t].config
          /\ admin' = [u \in Admins |-> admin'[u]]
      BY <1>1, <1>2, <1>3, <2>3 DEF Opened, Goes, AdminShape
    <3>2. \A i \in Kinds : ~modified'[i] /\ i # k => Synced(i)'
      BY <1>3, <1>4, <2>1, <2>3 DEF Synced, Kinds
    <3>3. Running(k)' = Running(k)
      BY <2>1 DEF Running
    <3>. QED BY <1>1, <1>4, <2>1, <3>1, <3>2, <3>3, SaveInvByThread
  <2>. QED BY <1>2, <1>11, <2>2, <2>3 DEF Open
<1>12. ASSUME WriteAndClose(t) PROVE SaveInv'
  <2>1. /\ up /\ up' = up /\ admin[t].pc = "write"
        /\ file' = [file EXCEPT ![k] = admin[t].config]
        /\ rules' = rules /\ actions' = actions /\ modified' = modified
    BY <1>2, <1>3, <1>12 DEF WriteAndClose
  <2>2. /\ admin'[t].pc = "reload" /\ admin'[t].kind = k /\ admin'[t].config = admin[t].config
        /\ admin' = [u \in Admins |-> admin'[u]]
    BY <1>1, <1>2, <1>3, <1>12 DEF WriteAndClose, Goes, AdminShape
  <2>3. file'[k] = admin[t].config /\ \A i \in Kinds : i # k => file'[i] = file[i]
    BY <1>3, <2>1
  <2>4. Running(k)' = Running(k)
    BY <2>1 DEF Running
  <2>5. Synced(k)'
    BY <1>4, <2>1, <2>3, SyncedEqual
  <2>6. \A i \in Kinds : ~modified'[i] => Synced(i)'
    BY <1>4, <2>1, <2>3, <2>5 DEF Synced, Kinds
  <2>. QED BY <1>1, <1>4, <2>1, <2>2, <2>3, <2>4, <2>6, SaveInvByThread
<1>13. ASSUME ReloadWritten(t) PROVE SaveInv'
  <2>1. CASE file[k] = Torn
    BY <1>2, <1>5, <1>13, <2>1 DEF ReloadWritten
  <2>2. CASE file[k] # Torn
    <3>1. Reload(k) /\ admin' = Goes(t, "clear") /\ up /\ up' = up /\ admin[t].pc = "reload"
      BY <1>2, <1>3, <1>13, <2>2 DEF ReloadWritten, Reload
    <3>2. Synced(k)' /\ \A i \in Kinds : ~modified'[i] => Synced(i)'
      BY <1>4, <2>2, <3>1, SyncedReload
    <3>3. /\ admin'[t].pc = "clear" /\ admin'[t].kind = k
          /\ admin' = [u \in Admins |-> admin'[u]]
      BY <1>1, <1>2, <1>3, <3>1 DEF Goes, AdminShape
    <3>. QED BY <1>1, <3>1, <3>2, <3>3, SaveInvByThread
  <2>. QED BY <2>1, <2>2
<1>14. ASSUME ClearFlag(t) PROVE SaveInv'
  <2>1. /\ up /\ up' = up /\ admin[t].pc = "clear"
        /\ modified' = [modified EXCEPT ![k] = FALSE]
        /\ admin' = [admin EXCEPT ![t] = Idle]
        /\ rules' = rules /\ actions' = actions /\ file' = file
    BY <1>2, <1>3, <1>14 DEF ClearFlag
  <2>2. \A i \in Kinds : ~modified'[i] => Synced(i)'
    BY <1>1, <1>4, <2>1 DEF Synced
  <2>3. admin'[t].pc = "idle" /\ admin'[t].kind = "rules" /\ admin' = [u \in Admins |-> admin'[u]]
    BY <1>3, <2>1 DEF Idle
  <2>. QED BY <1>1, <2>1, <2>2, <2>3, SaveInvByThread
<1>15. WrittenRules = {} /\ WrittenActions = {}
  BY DEF OneCaller
<1>. QED BY <1>7, <1>8, <1>9, <1>10, <1>11, <1>12, <1>13, <1>14, <1>15 DEF Save

\* Every step keeps it.
LEMMA SaveInvStep == OneCaller /\ TypeOK /\ SaveInv /\ [Next]_vars => SaveInv'
<1>. SUFFICES ASSUME OneCaller, TypeOK, SaveInv, [Next]_vars PROVE SaveInv'
  OBVIOUS
<1>1. CASE UNCHANGED vars
  BY <1>1 DEF vars, SaveInv, Synced, BeingWritten, Running
<1>2. CASE Stop
  <2>1. up' = FALSE /\ \A t \in Admins : admin'[t] = Idle
    BY <1>2 DEF Stop, Die
  <2>. QED BY <2>1, SaveInvDown
<1>3. CASE Start
  <2>1. CASE UNCHANGED vars
    BY <1>1, <2>1
  <2>2. CASE /\ Torn \notin {file[k] : k \in Kinds}
             /\ up' = TRUE
             /\ actions' = file["actions"]
             /\ rules' = LoadRules(file["rules"], file["actions"])
             /\ UNCHANGED <<modified, file, admin>>
    <3>1. \A t \in Admins : admin'[t].pc = "idle"
      BY <1>3, <2>2, TypeParts DEF Start, DownOK, Idle
    <3>2. "rules" \in Kinds /\ file["rules"] # Torn
      BY <2>2 DEF Kinds
    <3>3. file["rules"] \in RuleLists
      BY <3>2, TypeParts DEF FileShape, Configs
    <3>4. IsSubSeq(rules', file["rules"])
      BY <2>2, <3>3, LoadIsSubSeq
    <3>5. \A k \in Kinds : Synced(k)'
      BY <2>2, <3>4 DEF Synced, Kinds
    <3>. QED BY <3>1, <3>5 DEF SaveInv
  <2>. QED BY <1>3, <2>1, <2>2 DEF Start
<1>4. ASSUME NEW t \in Admins, Edit(t) PROVE SaveInv'
  BY <1>4, SaveInvEdit
<1>5. ASSUME NEW t \in Admins, Save(t) PROVE SaveInv'
  BY <1>5, SaveInvSave
<1>. QED BY <1>1, <1>2, <1>3, <1>4, <1>5 DEF Next

\* With one RPC thread, what no flag marks survives a restart.
THEOREM UnflaggedSurvives ==
  ASSUME OneCaller
  PROVE  Spec => []UnflaggedSurvivesRestart
<1>1. Init => SaveInv
  BY DEF Init, SaveInv, Idle
<1>2. TypeOK /\ SaveInv /\ [Next]_vars => SaveInv'
  BY SaveInvStep
<1>3. TypeOK /\ TornOnlyWhileWriting /\ SaveInv => UnflaggedSurvivesRestart
  <2>. SUFFICES ASSUME TypeOK, TornOnlyWhileWriting, SaveInv, NothingFlagged
                PROVE  /\ file["actions"] = actions
                       /\ IsSubSeq(LoadRules(rules, actions), AfterRestart)
    BY DEF UnflaggedSurvivesRestart
  <2>1. up /\ \A k \in Kinds : ~modified[k] /\ file[k] # Torn /\ ~BeingWritten(k)
    BY DEF NothingFlagged, Ready, Kinds, BeingWritten, TornOnlyWhileWriting
  <2>2. "rules" \in Kinds /\ "actions" \in Kinds
    BY DEF Kinds
  <2>3. Synced("rules") /\ Synced("actions")
    BY <2>1, <2>2 DEF SaveInv
  <2>4. rules \in RuleLists /\ file["rules"] \in RuleLists
    BY <2>1, <2>2, TypeParts DEF MemoryOK, FileShape, Configs
  <2>. QED BY <2>3, <2>4, LoadMonotone DEF Synced, AfterRestart
<1>. QED BY <1>1, <1>2, <1>3, TypeCorrect, NoTornFileLeft, PTL DEF Spec
-----------------------------------------------------------------------------
(* Lists of inputs.                                                          *)

Distinct(s) == \A i, j \in DOMAIN s : i # j => s[i] # s[j]

\* A list without an id.
LEMMA ListWithout ==
  ASSUME NEW list \in Inputs!InputLists, NEW id
  PROVE  /\ Inputs!WithoutInput(list, id) \in Inputs!InputLists
         /\ Inputs!Range(Inputs!WithoutInput(list, id)) = Inputs!Range(list) \ {id}
         /\ Distinct(list) => Distinct(Inputs!WithoutInput(list, id))
<1>. DEFINE D == {i \in DOMAIN list : list[i] # id}
            c == Chosen(list, D)
            w == Inputs!WithoutInput(list, id)
<1>1. /\ list \in Seq(InputIds) /\ Len(list) \in Nat /\ Len(list) <= MaxInputs
      /\ DOMAIN list = 1..Len(list) /\ MaxInputs \in Nat
  BY InputsAssumption DEF Inputs!InputLists
<1>2. w = c
  BY DEF Inputs!WithoutInput, Inputs!Chosen, Inputs!Nth, Inputs!Rank, Chosen, Nth, Rank,
         Inputs!Cardinality, Cardinality, Inputs!IsFiniteSet, IsFiniteSet
<1>3. D \in SUBSET DOMAIN list /\ \A i \in DOMAIN list : i \in D <=> list[i] # id
  OBVIOUS
<1>. HIDE DEF D, w
<1>4. /\ c \in Seq(InputIds) /\ Len(c) = Cardinality(D) /\ Cardinality(D) \in 0..Len(list)
      /\ DOMAIN c = 1..Cardinality(D)
      /\ D \in SUBSET Nat /\ IsFiniteSet(D)
  BY <1>1, <1>3, ChosenType, PositionsFinite
<1>5. /\ \A k \in 1..Cardinality(D) : Nth(D, k) \in D
      /\ \A k, l \in 1..Cardinality(D) : k < l => Nth(D, k) < Nth(D, l)
      /\ \A i \in D : Nth(D, Rank(D, i)) = i /\ Rank(D, i) \in 1..Cardinality(D)
  BY <1>4, NthInOrder, RankGrows
<1>6. \A k \in 1..Cardinality(D) : c[k] = list[Nth(D, k)]
  BY DEF Chosen
<1>. HIDE DEF c
<1>7. c \in Inputs!InputLists
  <2>1. Len(c) <= MaxInputs
    BY <1>1, <1>4
  <2>. QED BY <1>4, <2>1 DEF Inputs!InputLists
<1>8. Inputs!Range(c) = Inputs!Range(list) \ {id}
  <2>1. ASSUME NEW k \in DOMAIN c PROVE c[k] \in Inputs!Range(list) \ {id}
    BY <1>3, <1>4, <1>5, <1>6, <2>1 DEF Inputs!Range
  <2>2. ASSUME NEW i \in DOMAIN list, list[i] # id PROVE list[i] \in Inputs!Range(c)
    <3>1. i \in D
      BY <1>3, <2>2
    <3>2. Rank(D, i) \in DOMAIN c /\ c[Rank(D, i)] = list[i]
      BY <1>4, <1>5, <1>6, <3>1
    <3>. QED BY <3>2 DEF Inputs!Range
  <2>. QED BY <2>1, <2>2 DEF Inputs!Range
<1>9. ASSUME Distinct(list) PROVE Distinct(c)
  <2>1. ASSUME NEW k \in 1..Cardinality(D), NEW l \in 1..Cardinality(D), k # l PROVE c[k] # c[l]
    <3>1. k < l \/ l < k
      BY <1>4, <2>1
    <3>2. Nth(D, k) \in Nat /\ Nth(D, l) \in Nat /\ (Nth(D, k) < Nth(D, l) \/ Nth(D, l) < Nth(D, k))
      BY <1>4, <1>5, <3>1
    <3>3. Nth(D, k) # Nth(D, l)
      BY <3>2
    <3>. QED BY <1>3, <1>5, <1>6, <1>9, <3>3 DEF Distinct
  <2>. QED BY <1>4, <2>1 DEF Distinct
<1>. QED BY <1>2, <1>7, <1>8, <1>9 DEF w

\* A list with an id in front.
LEMMA ListWith ==
  ASSUME NEW list \in Inputs!InputLists, NEW id \in InputIds, Len(list) < MaxInputs
  PROVE  /\ Inputs!WithInput(list, id) \in Inputs!InputLists
         /\ Inputs!Range(Inputs!WithInput(list, id)) = Inputs!Range(list) \cup {id}
         /\ Distinct(list) /\ id \notin Inputs!Range(list) =>
              Distinct(Inputs!WithInput(list, id))
<1>. DEFINE w == <<id>> \o list
            n == Len(list)
<1>1. /\ list \in Seq(InputIds) /\ n \in Nat /\ n < MaxInputs
      /\ DOMAIN list = 1..n /\ MaxInputs \in Nat
  BY InputsAssumption DEF Inputs!InputLists
<1>2. <<id>> \in Seq(InputIds) /\ Len(<<id>>) = 1 /\ <<id>>[1] = id
  OBVIOUS
<1>3. /\ w \in Seq(InputIds) /\ Len(w) = 1 + n
      /\ \A i \in 1..1 + n : w[i] = IF i <= 1 THEN <<id>>[i] ELSE list[i - 1]
  BY <1>1, <1>2, ConcatProperties
<1>. HIDE DEF w
<1>4. DOMAIN w = 1..1 + n /\ w[1] = id /\ \A i \in 2..1 + n : w[i] = list[i - 1]
  BY <1>1, <1>2, <1>3
<1>5. w \in Inputs!InputLists
  BY <1>1, <1>3 DEF Inputs!InputLists
<1>6. \A i \in 1..n : i + 1 \in 2..1 + n /\ w[i + 1] = list[i]
  <2>1. ASSUME NEW i \in 1..n PROVE i + 1 \in 2..1 + n /\ (i + 1) - 1 = i
    BY <1>1
  <2>. QED BY <1>4, <2>1
<1>7. \A i \in 1..1 + n : i = 1 \/ (i \in 2..1 + n /\ i - 1 \in 1..n)
  BY <1>1
<1>8. Inputs!Range(w) = Inputs!Range(list) \cup {id}
  <2>1. 1 \in 1..1 + n /\ \A i \in 2..1 + n : i \in 1..1 + n
    BY <1>1
  <2>2. ASSUME NEW i \in 1..1 + n PROVE w[i] \in Inputs!Range(list) \cup {id}
    BY <1>1, <1>4, <1>7 DEF Inputs!Range
  <2>3. ASSUME NEW i \in 1..n PROVE list[i] \in Inputs!Range(w)
    <3>1. i + 1 \in DOMAIN w /\ w[i + 1] = list[i]
      BY <1>4, <1>6, <2>1
    <3>. QED BY <3>1 DEF Inputs!Range
  <2>4. id \in Inputs!Range(w)
    BY <1>4, <2>1 DEF Inputs!Range
  <2>. QED BY <1>1, <1>4, <2>2, <2>3, <2>4 DEF Inputs!Range
<1>9. ASSUME Distinct(list), id \notin Inputs!Range(list) PROVE Distinct(w)
  <2>1. ASSUME NEW i \in 1..1 + n, NEW j \in 1..1 + n, i # j PROVE w[i] # w[j]
    <3>1. \A k \in 1..n : list[k] # id
      BY <1>1, <1>9 DEF Inputs!Range
    <3>2. i \in Int /\ j \in Int /\ i - 1 # j - 1
      BY <2>1
    <3>. QED BY <1>1, <1>4, <1>7, <1>9, <2>1, <3>1, <3>2 DEF Distinct
  <2>. QED BY <1>4, <2>1 DEF Distinct
<1>. QED BY <1>5, <1>8, <1>9 DEF Inputs!WithInput, w
-----------------------------------------------------------------------------
(* The type invariant of InputsConfig.                                       *)

\* The initial states have the type.
LEMMA InputsTypeInit == Inputs!Init => InputsTypeOK
<1>. SUFFICES ASSUME Inputs!Init PROVE InputsTypeOK
  OBVIOUS
<1>1. MaxInputs \in Nat \ {0}
  BY InputsAssumption
<1>2. <<>> \in Inputs!InputLists
  BY <1>1 DEF Inputs!InputLists
<1>3. ASSUME NEW id \in InputIds
      PROVE  <<id>> \in Inputs!InputLists /\ Inputs!Range(<<id>>) \subseteq InputIds
  BY <1>1 DEF Inputs!InputLists, Inputs!Range
<1>4. Inputs!NoCall \in Inputs!CallStates /\ Inputs!NoCall.pc = "idle"
  BY <1>2 DEF Inputs!CallStates, Inputs!NoCall
<1>5. inputsFile \in {Missing} \cup Inputs!InputLists
  BY <1>2, <1>3 DEF Inputs!Init
<1>6. acknowledged \subseteq InputIds
  <2>1. Inputs!Range(<<>>) = {}
    BY DEF Inputs!Range
  <2>. QED BY <1>3, <2>1 DEF Inputs!Init
<1>7. call \in [Admins -> Inputs!CallStates] /\ Inputs!InProgress = {}
  BY <1>4 DEF Inputs!Init, Inputs!InProgress
<1>. QED BY <1>2, <1>5, <1>6, <1>7 DEF InputsTypeOK, Inputs!TypeOK, Inputs!Init

\* The end of the daemon.
LEMMA InputsGoneType ==
  ASSUME InputsTypeOK, up' = FALSE, Inputs!Gone
  PROVE  InputsTypeOK'
<1>1. <<>> \in Inputs!InputLists
  BY InputsAssumption DEF Inputs!InputLists
<1>2. Inputs!NoCall \in Inputs!CallStates /\ Inputs!NoCall.pc = "idle"
  BY <1>1 DEF Inputs!CallStates, Inputs!NoCall
<1>3. call' \in [Admins -> Inputs!CallStates] /\ Inputs!InProgress' = {}
  BY <1>2 DEF Inputs!Gone, Inputs!InProgress
<1>. QED BY <1>1, <1>3 DEF InputsTypeOK, Inputs!TypeOK, Inputs!Gone

\* The shape after a step of the daemon that runs.
LEMMA InputsTypeUp ==
  ASSUME up' = TRUE, inputsModified' \in BOOLEAN, disturbed' \in BOOLEAN,
         inputsFile' \in {Torn} \cup Inputs!InputLists, tcpServers' \in Inputs!InputLists,
         acknowledged' \subseteq InputIds, call' \in [Admins -> Inputs!CallStates]
  PROVE  InputsTypeOK'
<1>1. Missing # Torn /\ Missing \notin Inputs!InputLists
  BY InputsAssumption DEF Inputs!InputLists
<1>. QED BY <1>1 DEF InputsTypeOK, Inputs!TypeOK

\* What a call's state may become.
LEMMA CallMoves ==
  ASSUME call \in [Admins -> Inputs!CallStates], NEW t \in Admins
  PROVE  /\ \A pc \in {"open", "write", "mark"} :
              Inputs!Goes(t, pc) \in [Admins -> Inputs!CallStates]
         /\ Inputs!Answer(t) \in [Admins -> Inputs!CallStates]
         /\ \A id \in InputIds, config \in Inputs!InputLists :
              [call EXCEPT ![t] = [pc |-> "compare", id |-> id, config |-> config]]
                \in [Admins -> Inputs!CallStates]
<1>1. <<>> \in Inputs!InputLists
  BY InputsAssumption DEF Inputs!InputLists
<1>. QED BY <1>1 DEF Inputs!Goes, Inputs!Answer, Inputs!NoCall, Inputs!CallStates

\* What InputsTypeOK says of a daemon that runs.
LEMMA InputsUp ==
  ASSUME InputsTypeOK, up
  PROVE  /\ inputsFile \in {Torn} \cup Inputs!InputLists /\ tcpServers \in Inputs!InputLists
         /\ inputsModified \in BOOLEAN /\ disturbed \in BOOLEAN
         /\ acknowledged \subseteq InputIds /\ call \in [Admins -> Inputs!CallStates]
BY DEF InputsTypeOK, Inputs!TypeOK

\* A thread in a call: the daemon runs, and its call has an id and a list.
LEMMA CallUnderWay ==
  ASSUME InputsTypeOK, NEW t \in Admins, call[t].pc # "idle"
  PROVE  up
BY DEF InputsTypeOK, Inputs!TypeOK, Inputs!InProgress

\* A call on the inputs.
LEMMA InputsTypeCall ==
  ASSUME InputsTypeOK, NEW t \in Admins, Inputs!InputsCall(t)
  PROVE  InputsTypeOK'
<1>1. ASSUME Inputs!Die PROVE InputsTypeOK'
  BY <1>1, InputsGoneType DEF Inputs!Die
<1>2. call[t].config \in Inputs!InputLists /\ (call[t].id \in InputIds \/ call[t].id = "none")
  BY DEF InputsTypeOK, Inputs!TypeOK, Inputs!CallStates
<1>3. \A i \in DOMAIN call[t].config : call[t].config[i] \in InputIds
  BY <1>2 DEF Inputs!InputLists
<1>4. ASSUME Inputs!Acknowledge(t), up PROVE acknowledged' \subseteq InputIds
  BY <1>3, <1>4, InputsUp DEF Inputs!Acknowledge, Inputs!Range
<1>5. ASSUME NEW id \in InputIds, NEW c \in Inputs!InputLists, up, Inputs!Begin(t, id, c)
      PROVE  InputsTypeOK'
  BY <1>5, InputsUp, InputsTypeUp, CallMoves DEF Inputs!Begin
<1>6. ASSUME NEW id \in InputIds, Inputs!AddInput(t, id) PROVE InputsTypeOK'
  <2>1. up /\ inputsFile \in Inputs!InputLists /\ Len(inputsFile) < MaxInputs
    BY <1>6, InputsUp DEF Inputs!AddInput, Inputs!Ready, Inputs!ListRead
  <2>2. Inputs!WithInput(inputsFile, id) \in Inputs!InputLists
    BY <2>1, ListWith
  <2>. QED BY <1>5, <1>6, <2>1, <2>2 DEF Inputs!AddInput, Inputs!ListRead
<1>7. ASSUME NEW id \in InputIds, Inputs!RemInput(t, id) PROVE InputsTypeOK'
  <2>1. up /\ inputsFile \in Inputs!InputLists
    BY <1>7, InputsUp DEF Inputs!RemInput, Inputs!Ready
  <2>2. Inputs!WithoutInput(inputsFile, id) \in Inputs!InputLists
    BY <2>1, ListWithout
  <2>. QED BY <1>5, <1>7, <2>1, <2>2 DEF Inputs!RemInput, Inputs!ListRead
<1>8. ASSUME Inputs!Unwritten(t) PROVE InputsTypeOK'
  <2>1. up
    BY <1>8, CallUnderWay DEF Inputs!Unwritten
  <2>. QED BY <1>4, <1>8, <2>1, InputsUp, InputsTypeUp, CallMoves DEF Inputs!Unwritten
<1>9. ASSUME Inputs!Differs(t) PROVE InputsTypeOK'
  <2>1. up
    BY <1>9, CallUnderWay DEF Inputs!Differs
  <2>. QED BY <1>9, <2>1, InputsUp, InputsTypeUp, CallMoves DEF Inputs!Differs
<1>10. ASSUME Inputs!Open(t) PROVE InputsTypeOK'
  <2>1. up
    BY <1>10, CallUnderWay DEF Inputs!Open
  <2>2. call' \in [Admins -> Inputs!CallStates] /\ inputsFile' \in {Torn} \cup Inputs!InputLists
    BY <1>10, <2>1, InputsUp, CallMoves DEF Inputs!Open, Inputs!Opened
  <2>. QED BY <1>10, <2>1, <2>2, InputsUp, InputsTypeUp DEF Inputs!Open
<1>11. ASSUME Inputs!WriteAndClose(t) PROVE InputsTypeOK'
  <2>1. up
    BY <1>11, CallUnderWay DEF Inputs!WriteAndClose
  <2>. QED BY <1>2, <1>11, <2>1, InputsUp, InputsTypeUp, CallMoves DEF Inputs!WriteAndClose
<1>12. ASSUME Inputs!MarkModified(t) PROVE InputsTypeOK'
  <2>1. up
    BY <1>12, CallUnderWay DEF Inputs!MarkModified
  <2>. QED BY <1>4, <1>12, <2>1, InputsUp, InputsTypeUp, CallMoves
           DEF Inputs!MarkModified, Inputs!MarkedBy
<1>. QED BY <1>1, <1>6, <1>7, <1>8, <1>9, <1>10, <1>11, <1>12
         DEF Inputs!InputsCall, Inputs!ReadTorn, Inputs!CompareTorn

\* A start.
LEMMA InputsTypeStart ==
  ASSUME InputsTypeOK, Inputs!Start
  PROVE  InputsTypeOK'
<1>1. <<>> \in Inputs!InputLists
  BY InputsAssumption DEF Inputs!InputLists
<1>2. ~up /\ tcpServers = <<>> /\ ~inputsModified /\ Inputs!InProgress = {}
  BY DEF Inputs!Start, InputsTypeOK, Inputs!TypeOK
<1>3. /\ inputsModified \in BOOLEAN /\ disturbed \in BOOLEAN /\ acknowledged \subseteq InputIds
      /\ call \in [Admins -> Inputs!CallStates]
      /\ inputsFile \in {Torn, Missing} \cup Inputs!InputLists
  BY DEF InputsTypeOK, Inputs!TypeOK
<1>4. CASE inputsFile \notin {Torn, Missing} /\ up' = TRUE /\ Inputs!Load
  BY <1>3, <1>4, InputsTypeUp DEF Inputs!Load
<1>5. CASE Inputs!CreateAndLoad /\ up' = TRUE
  BY <1>1, <1>3, <1>5, InputsTypeUp DEF Inputs!CreateAndLoad
<1>6. CASE Inputs!CreationCutShort /\ UNCHANGED up
  BY <1>1, <1>2, <1>3, <1>6 DEF Inputs!CreationCutShort, InputsTypeOK, Inputs!TypeOK, Inputs!InProgress
<1>. QED BY <1>4, <1>5, <1>6 DEF Inputs!Start

\* Every step keeps the type.
LEMMA InputsTypeStep == InputsTypeOK /\ [Inputs!Next]_<<up, inputVars>> => InputsTypeOK'
<1>. SUFFICES ASSUME InputsTypeOK, [Inputs!Next]_<<up, inputVars>> PROVE InputsTypeOK'
  OBVIOUS
<1>1. CASE UNCHANGED <<up, inputVars>>
  BY <1>1 DEF inputVars, InputsTypeOK, Inputs!TypeOK, Inputs!InProgress
<1>2. CASE Inputs!Stop
  BY <1>2, InputsGoneType DEF Inputs!Stop, Inputs!Die
<1>3. CASE Inputs!Start
  BY <1>3, InputsTypeStart
<1>4. ASSUME NEW t \in Admins, Inputs!InputsCall(t) PROVE InputsTypeOK'
  BY <1>4, InputsTypeCall
<1>. QED BY <1>1, <1>2, <1>3, <1>4 DEF Inputs!Next
-----------------------------------------------------------------------------
(* What the calls on inputs promise.                                         *)

\* No call has the file open, or has written it and not answered yet.
FileAtRest == \A t \in Admins : call[t].pc \notin {"write", "mark"}

LoadedInv == up /\ ~inputsModified /\ FileAtRest => tcpServers = inputsFile

\* What the file has is what callers were told.
InStep ==
  /\ inputsFile # Torn
  /\ IF inputsFile = Missing THEN acknowledged = {}
     ELSE Inputs!Range(inputsFile) = acknowledged /\ Distinct(inputsFile)

\* What callers will have been told once the call of t says true.
AfterAnswer(t) ==
  IF call[t].id \in Inputs!Range(call[t].config)
    THEN acknowledged \cup {call[t].id} ELSE acknowledged \ {call[t].id}

AnswerInv ==
  ~disturbed =>
    /\ \A t, u \in Inputs!InProgress : t = u
    /\ FileAtRest => InStep
    /\ \A t \in Inputs!InProgress :
         /\ Inputs!Range(call[t].config) = AfterAnswer(t) /\ Distinct(call[t].config)
         /\ call[t].pc = "mark" => inputsFile = call[t].config

\* How a call changes the state of its thread, and of no other.
LEMMA CallSteps ==
  ASSUME InputsTypeOK, NEW t \in Admins
  PROVE  /\ \A pc : call' = Inputs!Goes(t, pc) =>
              /\ call'[t].pc = pc /\ call'[t].id = call[t].id /\ call'[t].config = call[t].config
              /\ \A u \in Admins : u # t => call'[u] = call[u]
         /\ call' = Inputs!Answer(t) =>
              /\ call'[t].pc = "idle"
              /\ \A u \in Admins : u # t => call'[u] = call[u]
         /\ \A id, c : Inputs!Begin(t, id, c) =>
              /\ call'[t].pc = "compare" /\ call'[t].id = id /\ call'[t].config = c
              /\ \A u \in Admins : u # t => call'[u] = call[u]
BY DEF InputsTypeOK, Inputs!TypeOK, Inputs!CallStates, Inputs!Goes, Inputs!Answer,
       Inputs!NoCall, Inputs!Begin

\* A torn inputs.json has a thread that writes it.
LEMMA InputsTornStep ==
  InputsTypeOK /\ InputsTornOnlyWhileWriting /\ [Inputs!Next]_<<up, inputVars>>
    => InputsTornOnlyWhileWriting'
<1>. SUFFICES ASSUME InputsTypeOK, InputsTornOnlyWhileWriting, [Inputs!Next]_<<up, inputVars>>
              PROVE  InputsTornOnlyWhileWriting'
  OBVIOUS
<1>. USE DEF InputsTornOnlyWhileWriting, Inputs!TornOnlyWhileWriting
<1>1. CASE UNCHANGED <<up, inputVars>>
  BY <1>1 DEF inputVars
<1>2. CASE Inputs!Stop
  BY <1>2 DEF Inputs!Stop, Inputs!Die
<1>3. CASE Inputs!Start
  <2>1. Torn \notin Inputs!InputLists /\ <<>> \in Inputs!InputLists
    BY InputsAssumption DEF Inputs!InputLists
  <2>. QED BY <1>3, <2>1 DEF Inputs!Start, Inputs!Load, Inputs!CreateAndLoad
<1>4. ASSUME NEW t \in Admins, Inputs!InputsCall(t) PROVE InputsTornOnlyWhileWriting'
  <2>1. ASSUME up, inputsFile' = Torn => inputsFile = Torn, call[t].pc # "write",
               \A u \in Admins : u # t => call'[u] = call[u]
        PROVE  InputsTornOnlyWhileWriting'
    BY <2>1
  <2>2. ASSUME NEW id \in InputIds, Inputs!AddInput(t, id) \/ Inputs!RemInput(t, id)
        PROVE  InputsTornOnlyWhileWriting'
    <3>1. PICK c : Inputs!Begin(t, id, c)
      BY <2>2 DEF Inputs!AddInput, Inputs!RemInput
    <3>2. up /\ call[t].pc # "write"
      BY <2>2 DEF Inputs!AddInput, Inputs!RemInput, Inputs!Ready
    <3>3. inputsFile' = inputsFile
      BY <3>1 DEF Inputs!Begin
    <3>. QED BY <2>1, <3>1, <3>2, <3>3, CallSteps
  <2>3. ASSUME Inputs!Die PROVE InputsTornOnlyWhileWriting'
    BY <2>3 DEF Inputs!Die
  <2>4. ASSUME Inputs!Unwritten(t) \/ Inputs!Differs(t) \/ Inputs!MarkModified(t)
        PROVE  InputsTornOnlyWhileWriting'
    <3>1. /\ call[t].pc \in {"compare", "mark"} /\ inputsFile' = inputsFile
          /\ call' = Inputs!Answer(t) \/ call' = Inputs!Goes(t, "open")
      BY <2>4 DEF Inputs!Unwritten, Inputs!Differs, Inputs!MarkModified
    <3>. QED BY <2>1, <3>1, CallSteps, CallUnderWay
  <2>5. ASSUME Inputs!Open(t) PROVE InputsTornOnlyWhileWriting'
    <3>1. CASE call' = Inputs!Opened(t)
      <4>1. call'[t].pc = "write"
        BY <3>1, CallSteps DEF Inputs!Opened
      <4>. QED BY <4>1
    <3>2. CASE inputsFile' = inputsFile /\ call' = Inputs!Answer(t)
      BY <2>1, <2>5, <3>2, CallSteps, CallUnderWay DEF Inputs!Open
    <3>. QED BY <2>5, <3>1, <3>2 DEF Inputs!Open
  <2>6. ASSUME Inputs!WriteAndClose(t) PROVE InputsTornOnlyWhileWriting'
    <3>1. inputsFile' \in Inputs!InputLists
      BY <2>6 DEF Inputs!WriteAndClose, InputsTypeOK, Inputs!TypeOK, Inputs!CallStates
    <3>2. inputsFile' # Torn
      BY <3>1, InputsAssumption DEF Inputs!InputLists
    <3>. QED BY <3>2
  <2>. QED BY <1>4, <2>2, <2>3, <2>4, <2>5, <2>6
           DEF Inputs!InputsCall, Inputs!ReadTorn, Inputs!CompareTorn
<1>. QED BY <1>1, <1>2, <1>3, <1>4 DEF Inputs!Next

\* What runs is the file, until a call writes it and sets the flag.
LEMMA LoadedStep ==
  InputsTypeOK /\ LoadedInv /\ [Inputs!Next]_<<up, inputVars>> => LoadedInv'
<1>. SUFFICES ASSUME InputsTypeOK, LoadedInv, [Inputs!Next]_<<up, inputVars>> PROVE LoadedInv'
  OBVIOUS
<1>1. CASE UNCHANGED <<up, inputVars>>
  BY <1>1 DEF inputVars, LoadedInv, FileAtRest
<1>2. CASE Inputs!Stop
  BY <1>2 DEF Inputs!Stop, Inputs!Die, LoadedInv
<1>3. CASE Inputs!Start
  <2>1. up = FALSE
    BY <1>3 DEF Inputs!Start, InputsTypeOK, Inputs!TypeOK
  <2>2. up' = FALSE \/ tcpServers' = inputsFile'
    BY <1>3, <2>1 DEF Inputs!Start, Inputs!Load, Inputs!CreateAndLoad
  <2>. QED BY <2>2 DEF LoadedInv
<1>4. ASSUME NEW t \in Admins, Inputs!InputsCall(t) PROVE LoadedInv'
  <2>1. ASSUME up, inputsFile' = inputsFile, tcpServers' = tcpServers,
               inputsModified' = inputsModified, call[t].pc \notin {"write", "mark"},
               \A u \in Admins : u # t => call'[u] = call[u]
        PROVE  LoadedInv'
    BY <2>1 DEF LoadedInv, FileAtRest
  <2>2. ASSUME NEW id \in InputIds, Inputs!AddInput(t, id) \/ Inputs!RemInput(t, id)
        PROVE  LoadedInv'
    <3>1. PICK c : Inputs!Begin(t, id, c)
      BY <2>2 DEF Inputs!AddInput, Inputs!RemInput
    <3>2. up /\ call[t].pc \notin {"write", "mark"}
      BY <2>2 DEF Inputs!AddInput, Inputs!RemInput, Inputs!Ready
    <3>3. UNCHANGED <<inputsFile, tcpServers, inputsModified>>
      BY <3>1 DEF Inputs!Begin
    <3>. QED BY <2>1, <3>1, <3>2, <3>3, CallSteps
  <2>3. ASSUME Inputs!Die PROVE LoadedInv'
    BY <2>3 DEF Inputs!Die, LoadedInv
  <2>4. ASSUME Inputs!Unwritten(t) \/ Inputs!Differs(t) PROVE LoadedInv'
    <3>1. /\ call[t].pc = "compare" /\ UNCHANGED <<inputsFile, tcpServers, inputsModified>>
          /\ call' = Inputs!Answer(t) \/ call' = Inputs!Goes(t, "open")
      BY <2>4 DEF Inputs!Unwritten, Inputs!Differs
    <3>. QED BY <2>1, <3>1, CallSteps, CallUnderWay
  <2>5. ASSUME Inputs!Open(t) PROVE LoadedInv'
    <3>1. CASE call' = Inputs!Opened(t)
      <4>1. call'[t].pc = "write"
        BY <3>1, CallSteps DEF Inputs!Opened
      <4>. QED BY <4>1 DEF LoadedInv, FileAtRest
    <3>2. CASE inputsFile' = inputsFile /\ call' = Inputs!Answer(t)
      BY <2>1, <2>5, <3>2, CallSteps, CallUnderWay DEF Inputs!Open
    <3>. QED BY <2>5, <3>1, <3>2 DEF Inputs!Open
  <2>6. ASSUME Inputs!WriteAndClose(t) PROVE LoadedInv'
    <3>1. call'[t].pc = "mark"
      BY <2>6, CallSteps DEF Inputs!WriteAndClose
    <3>. QED BY <3>1 DEF LoadedInv, FileAtRest
  <2>7. ASSUME Inputs!MarkModified(t) PROVE LoadedInv'
    BY <2>7 DEF Inputs!MarkModified, Inputs!MarkedBy, LoadedInv
  <2>. QED BY <1>4, <2>2, <2>3, <2>4, <2>5, <2>6, <2>7
           DEF Inputs!InputsCall, Inputs!ReadTorn, Inputs!CompareTorn
<1>. QED BY <1>1, <1>2, <1>3, <1>4 DEF Inputs!Next

\* No call is in progress.
LEMMA AnswerInvAtRest ==
  ASSUME \A u \in Admins : call'[u].pc = "idle", ~disturbed' => InStep'
  PROVE  AnswerInv'
BY DEF AnswerInv, Inputs!InProgress

\* One call is in progress.
LEMMA AnswerInvOne ==
  ASSUME NEW t \in Admins, \A u \in Admins : u # t => call'[u].pc = "idle",
         call'[t].pc \notin {"write", "mark"} => InStep',
         Inputs!Range(call'[t].config) = AfterAnswer(t)', Distinct(call'[t].config),
         call'[t].pc = "mark" => inputsFile' = call'[t].config
  PROVE  AnswerInv'
BY DEF AnswerInv, Inputs!InProgress, FileAtRest

\* A file that is the list of a call, once its answer is counted.
LEMMA InStepWithList ==
  ASSUME NEW c \in Inputs!InputLists, inputsFile' = c, Distinct(c),
         Inputs!Range(c) = acknowledged'
  PROVE  InStep'
<1>1. c # Torn /\ c # Missing
  BY InputsAssumption DEF Inputs!InputLists
<1>. QED BY <1>1 DEF InStep

\* The only call, when nothing was disturbed.
LEMMA AnswerInvCall ==
  ASSUME InputsTypeOK, AnswerInv, NEW t \in Admins, Inputs!InputsCall(t)
  PROVE  AnswerInv'
<1>1. ASSUME Inputs!Die PROVE AnswerInv'
  <2>1. \A u \in Admins : call'[u].pc = "idle"
    BY <1>1 DEF Inputs!Die, Inputs!Gone, Inputs!NoCall
  <2>2. ~disturbed' => InStep'
    BY <1>1 DEF Inputs!Die, Inputs!Gone, AnswerInv, FileAtRest, InStep
  <2>. QED BY <2>1, <2>2, AnswerInvAtRest
<1>2. SUFFICES ASSUME ~disturbed', ~Inputs!Die PROVE AnswerInv'
  BY <1>1 DEF AnswerInv
<1>3. /\ call[t].config \in Inputs!InputLists
      /\ up => inputsFile \in {Torn} \cup Inputs!InputLists
  BY InputsUp DEF InputsTypeOK, Inputs!TypeOK, Inputs!CallStates
<1>4. ASSUME ~disturbed, call[t].pc # "idle"
      PROVE  /\ up
             /\ \A u \in Admins : u # t => call[u].pc = "idle"
             /\ call[t].pc \notin {"write", "mark"} => InStep
             /\ Inputs!Range(call[t].config) = AfterAnswer(t) /\ Distinct(call[t].config)
             /\ call[t].pc = "mark" => inputsFile = call[t].config
  <2>1. t \in Inputs!InProgress /\ \A u \in Admins : u # t => call[u].pc = "idle"
    BY <1>4 DEF Inputs!InProgress, AnswerInv
  <2>2. call[t].pc \notin {"write", "mark"} => FileAtRest
    BY <2>1 DEF FileAtRest
  <2>. QED BY <1>4, <2>1, <2>2, CallUnderWay DEF AnswerInv
<1>5. ASSUME NEW id, NEW c \in Inputs!InputLists, Inputs!Begin(t, id, c), Distinct(c),
             Inputs!Range(c) = IF id \in Inputs!Range(c)
                                 THEN acknowledged \cup {id} ELSE acknowledged \ {id},
             ~disturbed => InStep
      PROVE  AnswerInv'
  <2>1. ~disturbed /\ \A u \in Admins : call[u].pc = "idle"
    BY <1>2, <1>5 DEF Inputs!Begin, Inputs!InProgress
  <2>2. /\ call'[t].pc = "compare" /\ call'[t].id = id /\ call'[t].config = c
        /\ \A u \in Admins : u # t => call'[u].pc = "idle"
    BY <1>5, <2>1, CallSteps
  <2>3. inputsFile' = inputsFile /\ acknowledged' = acknowledged
    BY <1>5 DEF Inputs!Begin
  <2>4. InStep'
    BY <1>5, <2>1, <2>3 DEF InStep
  <2>5. Inputs!Range(call'[t].config) = AfterAnswer(t)'
    BY <1>5, <2>2, <2>3 DEF AfterAnswer
  <2>. QED BY <1>5, <2>2, <2>4, <2>5, AnswerInvOne
<1>6. ASSUME Inputs!Ready(t), inputsFile # Torn, ~disturbed, Inputs!InProgress = {}
      PROVE  /\ inputsFile \in Inputs!InputLists /\ InStep
             /\ Inputs!Range(inputsFile) = acknowledged /\ Distinct(inputsFile)
  <2>1. up /\ inputsFile \in Inputs!InputLists /\ inputsFile # Missing
    BY <1>3, <1>6, InputsAssumption DEF Inputs!Ready, Inputs!InputLists
  <2>2. FileAtRest
    BY <1>6 DEF FileAtRest, Inputs!InProgress
  <2>. QED BY <1>6, <2>1, <2>2 DEF AnswerInv, InStep
<1>7. ASSUME NEW id \in InputIds, Inputs!AddInput(t, id) PROVE AnswerInv'
  <2>1. /\ Inputs!Ready(t) /\ inputsFile # Torn /\ Inputs!Fresh(id)
        /\ Len(inputsFile) < MaxInputs /\ Inputs!Begin(t, id, Inputs!WithInput(inputsFile, id))
    BY <1>7 DEF Inputs!AddInput, Inputs!ListRead
  <2>2. ~disturbed /\ Inputs!InProgress = {}
    BY <1>2, <2>1 DEF Inputs!Begin
  <2>3. /\ inputsFile \in Inputs!InputLists /\ InStep
        /\ Inputs!Range(inputsFile) = acknowledged /\ Distinct(inputsFile)
    BY <1>6, <2>1, <2>2
  <2>4. id \notin Inputs!Range(inputsFile)
    BY <2>1 DEF Inputs!Fresh
  <2>5. /\ Inputs!WithInput(inputsFile, id) \in Inputs!InputLists
        /\ Inputs!Range(Inputs!WithInput(inputsFile, id)) = acknowledged \cup {id}
        /\ Distinct(Inputs!WithInput(inputsFile, id))
    BY <2>1, <2>3, <2>4, ListWith
  <2>. QED BY <1>5, <2>1, <2>3, <2>5
<1>8. ASSUME NEW id \in InputIds, Inputs!RemInput(t, id) PROVE AnswerInv'
  <2>1. /\ Inputs!Ready(t) /\ inputsFile # Torn
        /\ Inputs!Begin(t, id, Inputs!WithoutInput(inputsFile, id))
    BY <1>8 DEF Inputs!RemInput, Inputs!ListRead
  <2>2. ~disturbed /\ Inputs!InProgress = {}
    BY <1>2, <2>1 DEF Inputs!Begin
  <2>3. /\ inputsFile \in Inputs!InputLists /\ InStep
        /\ Inputs!Range(inputsFile) = acknowledged /\ Distinct(inputsFile)
    BY <1>6, <2>1, <2>2
  <2>4. /\ Inputs!WithoutInput(inputsFile, id) \in Inputs!InputLists
        /\ Inputs!Range(Inputs!WithoutInput(inputsFile, id)) = acknowledged \ {id}
        /\ Distinct(Inputs!WithoutInput(inputsFile, id))
    BY <2>3, ListWithout
  <2>. QED BY <1>5, <2>1, <2>3, <2>4
<1>9. ASSUME Inputs!Unwritten(t) PROVE AnswerInv'
  <2>1. /\ ~disturbed /\ call[t].pc = "compare" /\ inputsFile = call[t].config
        /\ inputsFile' = inputsFile /\ call' = Inputs!Answer(t)
    BY <1>2, <1>9 DEF Inputs!Unwritten
  <2>2. acknowledged' = AfterAnswer(t)
    BY <1>9 DEF Inputs!Unwritten, Inputs!Acknowledge, AfterAnswer
  <2>3. InStep'
    BY <1>3, <1>4, <2>1, <2>2, InStepWithList
  <2>. QED BY <1>4, <2>1, <2>3, CallSteps, AnswerInvAtRest
<1>10. ASSUME Inputs!Differs(t) PROVE AnswerInv'
  <2>1. /\ ~disturbed /\ call[t].pc = "compare" /\ call' = Inputs!Goes(t, "open")
        /\ inputsFile' = inputsFile /\ acknowledged' = acknowledged
    BY <1>2, <1>10 DEF Inputs!Differs
  <2>2. InStep' /\ AfterAnswer(t)' = AfterAnswer(t) /\ call'[t].pc = "open"
    BY <1>4, <2>1, CallSteps DEF InStep, AfterAnswer
  <2>. QED BY <1>4, <2>1, <2>2, CallSteps, AnswerInvOne
<1>11. ASSUME Inputs!Open(t) PROVE AnswerInv'
  <2>1. ~disturbed /\ call[t].pc = "open" /\ acknowledged' = acknowledged
    BY <1>2, <1>11 DEF Inputs!Open
  <2>2. CASE call' = Inputs!Opened(t)
    <3>1. call'[t].pc = "write" /\ AfterAnswer(t)' = AfterAnswer(t)
      BY <2>1, <2>2, CallSteps DEF Inputs!Opened, AfterAnswer
    <3>. QED BY <1>4, <2>1, <2>2, <3>1, CallSteps, AnswerInvOne DEF Inputs!Opened
  <2>3. CASE inputsFile' = inputsFile /\ call' = Inputs!Answer(t)
    <3>1. InStep'
      BY <1>4, <2>1, <2>3 DEF InStep
    <3>. QED BY <1>4, <2>1, <2>3, <3>1, CallSteps, AnswerInvAtRest
  <2>. QED BY <1>11, <2>2, <2>3 DEF Inputs!Open
<1>12. ASSUME Inputs!WriteAndClose(t) PROVE AnswerInv'
  <2>1. /\ ~disturbed /\ call[t].pc = "write" /\ acknowledged' = acknowledged
        /\ inputsFile' = call[t].config /\ call' = Inputs!Goes(t, "mark")
    BY <1>2, <1>12 DEF Inputs!WriteAndClose
  <2>2. call'[t].pc = "mark" /\ AfterAnswer(t)' = AfterAnswer(t)
    BY <2>1, CallSteps DEF AfterAnswer
  <2>. QED BY <1>4, <2>1, <2>2, CallSteps, AnswerInvOne
<1>13. ASSUME Inputs!MarkModified(t) PROVE AnswerInv'
  <2>1. /\ ~disturbed /\ call[t].pc = "mark"
        /\ inputsFile' = inputsFile /\ call' = Inputs!Answer(t)
    BY <1>2, <1>13 DEF Inputs!MarkModified
  <2>2. acknowledged' = AfterAnswer(t)
    BY <1>13 DEF Inputs!MarkModified, Inputs!Acknowledge, AfterAnswer
  <2>3. InStep'
    BY <1>3, <1>4, <2>1, <2>2, InStepWithList
  <2>. QED BY <1>4, <2>1, <2>3, CallSteps, AnswerInvAtRest
<1>. QED BY <1>2, <1>7, <1>8, <1>9, <1>10, <1>11, <1>12, <1>13
         DEF Inputs!InputsCall, Inputs!ReadTorn, Inputs!CompareTorn

\* Every step keeps it.
LEMMA AnswerStep ==
  InputsTypeOK /\ AnswerInv /\ [Inputs!Next]_<<up, inputVars>> => AnswerInv'
<1>. SUFFICES ASSUME InputsTypeOK, AnswerInv, [Inputs!Next]_<<up, inputVars>> PROVE AnswerInv'
  OBVIOUS
<1>1. CASE UNCHANGED <<up, inputVars>>
  BY <1>1 DEF inputVars, AnswerInv, FileAtRest, Inputs!InProgress, AfterAnswer, InStep
<1>2. CASE Inputs!Stop
  <2>1. \A u \in Admins : call'[u].pc = "idle"
    BY <1>2 DEF Inputs!Stop, Inputs!Die, Inputs!Gone, Inputs!NoCall
  <2>2. ~disturbed' => InStep'
    BY <1>2 DEF Inputs!Stop, Inputs!Die, Inputs!Gone, AnswerInv, FileAtRest, InStep
  <2>. QED BY <2>1, <2>2, AnswerInvAtRest
<1>3. CASE Inputs!Start
  <2>1. \A u \in Admins : call[u].pc = "idle" /\ call'[u].pc = "idle"
    BY <1>3 DEF Inputs!Start, Inputs!Load, Inputs!CreateAndLoad, Inputs!CreationCutShort,
                InputsTypeOK, Inputs!TypeOK, Inputs!InProgress
  <2>2. ~disturbed => InStep
    BY <2>1 DEF AnswerInv, FileAtRest
  <2>3. CASE Inputs!Load
    BY <2>1, <2>2, <2>3, AnswerInvAtRest DEF Inputs!Load, InStep
  <2>4. CASE Inputs!CreateAndLoad
    <3>1. <<>> \in Inputs!InputLists /\ Inputs!Range(<<>>) = {} /\ Distinct(<<>>)
      BY InputsAssumption DEF Inputs!InputLists, Inputs!Range, Distinct
    <3>2. ~disturbed => acknowledged = {}
      BY <2>2, <2>4 DEF Inputs!CreateAndLoad, InStep
    <3>. QED BY <2>1, <2>4, <3>1, <3>2, InStepWithList, AnswerInvAtRest DEF Inputs!CreateAndLoad
  <2>5. CASE Inputs!CreationCutShort
    BY <2>5 DEF Inputs!CreationCutShort, AnswerInv
  <2>. QED BY <1>3, <2>3, <2>4, <2>5 DEF Inputs!Start
<1>4. ASSUME NEW t \in Admins, Inputs!InputsCall(t) PROVE AnswerInv'
  BY <1>4, AnswerInvCall
<1>. QED BY <1>1, <1>2, <1>3, <1>4 DEF Inputs!Next
-----------------------------------------------------------------------------
(* The daemon.                                                               *)

\* A step of the daemon is a step of each of its parts, or leaves it alone: a
\* call belongs to one of them, and a start or an end to both.
LEMMA BothParts ==
  TypeOK /\ InputsTypeOK /\ [DaemonNext]_daemonVars
    => [Next]_vars /\ [Inputs!Next]_<<up, inputVars>>
<1>. SUFFICES ASSUME TypeOK, InputsTypeOK, [DaemonNext]_daemonVars
              PROVE  [Next]_vars /\ [Inputs!Next]_<<up, inputVars>>
  OBVIOUS
<1>1. up \in BOOLEAN
  BY TypeParts DEF MemoryOK
<1>2. ASSUME UNCHANGED vars PROVE UNCHANGED up
  BY <1>2 DEF vars
<1>3. CASE UNCHANGED daemonVars
  BY <1>3 DEF daemonVars, vars
<1>4. CASE StopDaemon
  <2>1. Stop /\ Inputs!Stop
    BY <1>4 DEF StopDaemon, Stop, Die, Inputs!Stop, Inputs!Die
  <2>. QED BY <2>1 DEF Next, Inputs!Next
<1>5. CASE StartDaemon
  <2>1. CASE UNCHANGED daemonVars
    BY <1>3, <2>1
  <2>2. CASE Start /\ inputsFile # Torn /\ (IF up' THEN LoadInputs ELSE UNCHANGED inputVars)
    <3>1. [Next]_vars
      BY <2>2 DEF Next
    <3>2. CASE up' = TRUE
      <4>1. ~up /\ LoadInputs
        BY <2>2, <3>2 DEF Start
      <4>2. Inputs!Start
        BY <2>2, <3>2, <4>1 DEF LoadInputs, Inputs!Start
      <4>. QED BY <3>1, <4>2 DEF Inputs!Next
    <3>3. CASE up' # TRUE
      <4>1. UNCHANGED vars
        BY <2>2, <3>3 DEF Start
      <4>2. up' = up /\ up = FALSE
        BY <1>1, <1>2, <3>3, <4>1
      <4>. QED BY <2>2, <3>1, <4>2
    <3>. QED BY <3>2, <3>3
  <2>3. CASE ~up /\ Inputs!CreationCutShort /\ UNCHANGED <<up, configVars>>
    <3>1. UNCHANGED vars /\ Inputs!Start
      BY <2>3 DEF configVars, vars, Inputs!Start
    <3>. QED BY <3>1 DEF Inputs!Next
  <2>. QED BY <1>5, <2>1, <2>2, <2>3 DEF StartDaemon
<1>6. ASSUME NEW t \in Admins, ConfigCall(t)
      PROVE  [Next]_vars /\ [Inputs!Next]_<<up, inputVars>>
  <2>1. Next /\ [Next]_vars
    BY <1>6 DEF ConfigCall, Next
  <2>2. up
    <3>1. CASE Edit(t)
      BY <3>1 DEF Edit, AddRule, EditRule, RemoveRule, RuleUp, RuleDown, EditRules,
                  AddAction, EditAction, RemoveAction, EditActions, Ready
    <3>2. CASE Save(t)
      <4>1. ~up => admin[t].pc = "idle"
        BY TypeParts DEF DownOK, Idle
      <4>2. ASSUME NEW k, NEW c, \/ SaveRunning(t, k) \/ ReloadCall(t, k)
                                \/ ReadFileConfig(t, k) \/ WriteFileConfig(t, k, c)
            PROVE  up
        BY <4>2 DEF SaveRunning, ReloadCall, ReadFileConfig, WriteFileConfig, Ready
      <4>3. ASSUME \/ Compare(t) \/ Open(t) \/ WriteAndClose(t)
                   \/ ReloadWritten(t) \/ ClearFlag(t)
            PROVE  admin[t].pc # "idle"
        BY <4>3 DEF Compare, Open, WriteAndClose, ReloadWritten, ClearFlag
      <4>. QED BY <3>2, <4>1, <4>2, <4>3 DEF Save
    <3>. QED BY <1>6, <3>1, <3>2 DEF ConfigCall
  <2>3. up' \in BOOLEAN
    <3>1. TypeOK'
      BY <2>1, TypeStep
    <3>. QED BY <3>1 DEF TypeOK
  <2>4. CASE up' = TRUE
    BY <1>1, <1>6, <2>1, <2>2, <2>4 DEF ConfigCall, InputsFollow
  <2>5. CASE up' = FALSE
    <3>1. Inputs!Stop
      BY <1>6, <2>2, <2>5 DEF ConfigCall, InputsFollow, Inputs!Stop, Inputs!Die
    <3>. QED BY <2>1, <3>1 DEF Inputs!Next
  <2>. QED BY <2>3, <2>4, <2>5
<1>7. ASSUME NEW t \in Admins, InputsCall(t)
      PROVE  [Next]_vars /\ [Inputs!Next]_<<up, inputVars>>
  <2>1. Inputs!Next /\ Inputs!InputsCall(t)
    BY <1>7 DEF InputsCall, Inputs!Next
  <2>2. up /\ (up' = up \/ up' = FALSE)
    <3>1. ~up => call[t].pc = "idle"
      BY CallUnderWay
    <3>. QED BY <2>1, <3>1 DEF Inputs!InputsCall, Inputs!AddInput, Inputs!RemInput, Inputs!Begin,
               Inputs!ReadTorn, Inputs!Ready, Inputs!Unwritten, Inputs!Differs, Inputs!CompareTorn,
               Inputs!Open, Inputs!WriteAndClose, Inputs!MarkModified, Inputs!Die
  <2>3. CASE up' = FALSE
    <3>1. Stop
      BY <1>7, <2>2, <2>3 DEF InputsCall, ConfigFollows, Stop
    <3>. QED BY <2>1, <3>1 DEF Next
  <2>4. CASE up' = up
    <3>1. UNCHANGED vars
      BY <1>7, <2>2, <2>4 DEF InputsCall, ConfigFollows, configVars, vars
    <3>. QED BY <2>1, <3>1
  <2>. QED BY <2>2, <2>3, <2>4
<1>. QED BY <1>3, <1>4, <1>5, <1>6, <1>7 DEF DaemonNext

\* The daemon keeps rules, actions and inputs as AlertConfig and InputsConfig
\* say that each part does alone.
THEOREM DaemonImplementsParts ==
  DaemonSpec => Spec /\ Inputs!Spec /\ []InputsTypeOK
<1>1. DaemonInit => Init /\ Inputs!Init /\ TypeOK /\ InputsTypeOK
  BY TypeInit, InputsTypeInit DEF DaemonInit
<1>2. TypeOK /\ InputsTypeOK /\ [DaemonNext]_daemonVars => TypeOK' /\ InputsTypeOK'
  BY BothParts, TypeStep, InputsTypeStep
<1>3. DaemonSpec => [](TypeOK /\ InputsTypeOK)
  BY <1>1, <1>2, PTL DEF DaemonSpec
<1>4. inputVars = Inputs!inputVars
  BY DEF inputVars, Inputs!inputVars
<1>5. TypeOK /\ InputsTypeOK /\ [DaemonNext]_daemonVars
        => [Next]_vars /\ [Inputs!Next]_<<up, Inputs!inputVars>>
  BY <1>4, BothParts DEF inputVars, Inputs!inputVars
<1>. QED BY <1>1, <1>3, <1>5, PTL DEF DaemonSpec, Spec, Inputs!Spec

\* inputs.json, the servers and the lists of the calls have their type, whatever
\* the calls on rules and actions do.
THEOREM InputsTypeCorrect == DaemonSpec => []InputsTypeOK
BY DaemonImplementsParts, PTL

\* Neither rules.json nor actions.json is ever left torn, calls on inputs included.
THEOREM DaemonLeavesNoTornFile == DaemonSpec => []TornOnlyWhileWriting
BY DaemonImplementsParts, NoTornFileLeft, PTL

\* Nor is inputs.json.
THEOREM InputsLeaveNoTornFile == DaemonSpec => []InputsTornOnlyWhileWriting
<1>1. DaemonInit => InputsTornOnlyWhileWriting
  BY DEF DaemonInit, Inputs!Init, InputsTornOnlyWhileWriting, Inputs!TornOnlyWhileWriting
<1>2. TypeOK /\ InputsTypeOK /\ InputsTornOnlyWhileWriting /\ [DaemonNext]_daemonVars
        => InputsTornOnlyWhileWriting'
  BY BothParts, InputsTornStep
<1>3. DaemonSpec => []TypeOK
  BY DaemonImplementsParts, TypeCorrect, PTL
<1>. QED BY <1>1, <1>2, <1>3, InputsTypeCorrect, PTL DEF DaemonSpec

\* What the flag does not mark runs: whatever calls overlapped, once they are
\* done the servers are those of the file, unless the page asks for a reload.
THEOREM UnflaggedRun == DaemonSpec => []UnflaggedInputsRun
<1>1. DaemonInit => LoadedInv
  BY DEF DaemonInit, Inputs!Init, LoadedInv
<1>2. TypeOK /\ InputsTypeOK /\ LoadedInv /\ [DaemonNext]_daemonVars => LoadedInv'
  BY BothParts, LoadedStep
<1>3. LoadedInv => UnflaggedInputsRun
  BY DEF LoadedInv, FileAtRest, UnflaggedInputsRun, Inputs!UnflaggedInputsRun, Inputs!InProgress
<1>4. DaemonSpec => []TypeOK
  BY DaemonImplementsParts, TypeCorrect, PTL
<1>. QED BY <1>1, <1>2, <1>3, <1>4, InputsTypeCorrect, PTL DEF DaemonSpec

\* The answers of calls that do not overlap hold, through restarts and failed
\* writes.
THEOREM AnswersAreKept == DaemonSpec => []AnswersHold
<1>1. DaemonInit => AnswerInv
  <2>. SUFFICES ASSUME Inputs!Init PROVE AnswerInv
    BY DEF DaemonInit
  <2>1. \A u \in Admins : call[u].pc = "idle"
    BY DEF Inputs!Init, Inputs!NoCall
  <2>2. Distinct(<<>>) /\ \A id \in InputIds : Distinct(<<id>>)
    BY DEF Distinct
  <2>3. inputsFile # Torn /\ (inputsFile # Missing => Distinct(inputsFile))
    <3>1. <<>> \in Seq(InputIds) /\ \A id \in InputIds : <<id>> \in Seq(InputIds)
      OBVIOUS
    <3>. QED BY <2>2, <3>1, InputsAssumption DEF Inputs!Init
  <2>4. InStep
    BY <2>3 DEF Inputs!Init, InStep
  <2>. QED BY <2>1, <2>4 DEF AnswerInv, Inputs!InProgress
<1>2. TypeOK /\ InputsTypeOK /\ AnswerInv /\ [DaemonNext]_daemonVars => AnswerInv'
  BY BothParts, AnswerStep
<1>3. AnswerInv => AnswersHold
  BY DEF AnswerInv, FileAtRest, InStep, Distinct, AnswersHold, Inputs!AnswersHold, Inputs!InProgress
<1>4. DaemonSpec => []TypeOK
  BY DaemonImplementsParts, TypeCorrect, PTL
<1>. QED BY <1>1, <1>2, <1>3, <1>4, InputsTypeCorrect, PTL DEF DaemonSpec
=============================================================================
