----------------------------- MODULE NameProofs -----------------------------
(***************************************************************************)
(* Proofs about what a name stands for: a database in the registry of the  *)
(* process, a table in the catalog.  Of the registry, for any number of    *)
(* handlers, consumers and names: the invariant RegistryInv, and from it   *)
(* that an in-process consumer reaches the database that serves.  Of the   *)
(* catalog, for any names, schema, writers and bounds: memory follows the  *)
(* log and so does the mirror, and Open fails only for a cause.            *)
(***************************************************************************)
EXTENDS Registry, Catalog, FoldFacts, SequenceTheorems

----------------------------------------------------------------------------
(* The registry.                                                           *)

\* The inductive part of RegistryInv; the other two parts follow from it.
RegCore ==
    /\ RegTypeOK
    /\ OneSlotPerName
    /\ LifeCycle
    /\ OneAtWork
    /\ CellsFollowHandlers

\* The two parts of RegistryInv that are not inductive follow from the others.
LEMMA CoreIsEnough == RegCore => RegistryInv
<1> SUFFICES ASSUME RegCore PROVE SlotHoldsOpenDB /\ OpenIsOwned
  BY DEF RegCore, RegistryInv
<1> USE RegistryShape DEF RegCore, RegTypeOK, Processes
<1>1. SlotHoldsOpenDB
  BY DEF SlotHoldsOpenDB, CellsFollowHandlers, LifeCycle
<1>2. OpenIsOwned
  <2> SUFFICES ASSUME AtRest
               PROVE  /\ open = {serving} \ {Nobody} /\ hdb = open
                      /\ \A p \in Processes : cell[p] \in {NoDB, serving}
    BY DEF OpenIsOwned
  <2>1. \A h \in Handlers : h \in open <=> h = serving
    BY DEF AtRest, Resting, LifeCycle
  <2>2. \A h \in Handlers : h \in hdb <=> h \in open
    BY DEF AtRest, Resting, LifeCycle
  <2>3. \A p \in Processes : cell[p] \in {NoDB, serving}
    BY DEF AtRest, Resting, LifeCycle, CellsFollowHandlers
  <2> QED BY <2>1, <2>2, <2>3
<1> QED BY <1>1, <1>2

\* The empty registry.
LEMMA CoreInit == RegInit => RegCore
<1> SUFFICES ASSUME RegInit PROVE RegCore
  OBVIOUS
<1> USE RegistryShape DEF RegInit, Processes
<1>1. RegTypeOK
  BY DEF RegTypeOK, PCs
<1>2. OneSlotPerName
  BY DEF OneSlotPerName
<1>3. LifeCycle
  BY DEF LifeCycle
<1>4. OneAtWork
  BY DEF OneAtWork, Busy
<1>5. CellsFollowHandlers
  BY DEF CellsFollowHandlers
<1> QED BY <1>1, <1>2, <1>3, <1>4, <1>5 DEF RegCore

\* dbSlotForName, the look under the read lock: a handler in Cleanup finds the slot it had.
LEMMA FindSlotStep ==
    ASSUME RegCore, NEW p \in Processes, FindSlot(p)
    PROVE  RegCore'
<1> USE RegistryShape DEF RegCore, RegTypeOK, FindSlot, Goto, Onward, Processes, PCs, caddyVars
<1>0. PICK s : s = dbRegistrySlots[NameOf[p]]
  OBVIOUS
<1>1. RegTypeOK'
  BY <1>0
<1>2. OneSlotPerName'
  BY <1>0, <1>1 DEF OneSlotPerName
<1>3. LifeCycle'
  BY <1>0, <1>1 DEF LifeCycle, OneAtWork, Busy
<1>4. OneAtWork'
  BY <1>0, <1>1 DEF LifeCycle, OneAtWork, Busy
<1>5. CellsFollowHandlers'
  <2>1. \A h \in Handlers : slot[h] # NoSlot => slot'[h] = slot[h]
    BY <1>0, <1>1 DEF OneSlotPerName
  <2>2. (\A n \in Names : dbRegistrySlots[n] # NoSlot => NameOf[dbRegistrySlots[n]] = n)'
    BY <1>0, <1>1 DEF CellsFollowHandlers
  <2>3. ASSUME NEW q \in Processes, cell'[q] # NoDB
        PROVE  slot'[cell'[q]] = q /\ pc'[cell'[q]] \in {"up", "find", "create", "cas"}
    <3>1. cell'[q] \in Handlers /\ slot[cell[q]] = q /\ pc[cell[q]] \in {"up", "find", "create", "cas"}
      BY <2>3 DEF CellsFollowHandlers
    <3>2. slot[cell[q]] # NoSlot
      BY <3>1
    <3>3. pc[cell[q]] = "find" \/ pc[cell[q]] = "create" => loading # cell[q]
      BY <3>1, <3>2 DEF LifeCycle
    <3> QED BY <1>0, <1>1, <2>1, <3>1, <3>2, <3>3
  <2>4. (loading # Nobody /\ pc[loading] = "up" => cell[slot[loading]] = loading)'
    BY <1>0, <1>1, <2>1 DEF LifeCycle, CellsFollowHandlers
  <2>5. (serving # Nobody /\ NameOf[serving] \notin rolledBack => cell[slot[serving]] # NoDB)'
    BY <1>0, <1>1, <2>1 DEF LifeCycle, CellsFollowHandlers
  <2> QED BY <2>2, <2>3, <2>4, <2>5 DEF CellsFollowHandlers
<1> QED BY <1>1, <1>2, <1>3, <1>4, <1>5

\* dbSlotForName under the write lock: only a name without a slot gets one.
LEMMA CreateSlotStep ==
    ASSUME RegCore, NEW p \in Processes, CreateSlot(p)
    PROVE  RegCore'
<1> USE RegistryShape DEF RegCore, RegTypeOK, CreateSlot, Goto, Onward, Processes, PCs, caddyVars
<1>0. PICK s : s = dbRegistrySlots[NameOf[p]]
  OBVIOUS
<1>1. RegTypeOK'
  BY <1>0
<1>2. OneSlotPerName'
  BY <1>0, <1>1 DEF OneSlotPerName
<1>3. LifeCycle'
  BY <1>0, <1>1 DEF LifeCycle, OneAtWork, Busy
<1>4. OneAtWork'
  BY <1>0, <1>1 DEF LifeCycle, OneAtWork, Busy
<1>5. CellsFollowHandlers'
  <2>1. \A h \in Handlers : slot[h] # NoSlot => slot'[h] = slot[h]
    BY <1>0, <1>1 DEF OneSlotPerName
  <2>2. (\A n \in Names : dbRegistrySlots[n] # NoSlot => NameOf[dbRegistrySlots[n]] = n)'
    BY <1>0, <1>1 DEF CellsFollowHandlers
  <2>3. ASSUME NEW q \in Processes, cell'[q] # NoDB
        PROVE  slot'[cell'[q]] = q /\ pc'[cell'[q]] \in {"up", "find", "create", "cas"}
    <3>1. cell'[q] \in Handlers /\ slot[cell[q]] = q /\ pc[cell[q]] \in {"up", "find", "create", "cas"}
      BY <2>3 DEF CellsFollowHandlers
    <3>2. slot[cell[q]] # NoSlot
      BY <3>1
    <3>3. pc[cell[q]] = "find" \/ pc[cell[q]] = "create" => loading # cell[q]
      BY <3>1, <3>2 DEF LifeCycle
    <3> QED BY <1>0, <1>1, <2>1, <3>1, <3>2, <3>3
  <2>4. (loading # Nobody /\ pc[loading] = "up" => cell[slot[loading]] = loading)'
    BY <1>0, <1>1, <2>1 DEF LifeCycle, CellsFollowHandlers
  <2>5. (serving # Nobody /\ NameOf[serving] \notin rolledBack => cell[slot[serving]] # NoDB)'
    BY <1>0, <1>1, <2>1 DEF LifeCycle, CellsFollowHandlers
  <2> QED BY <2>2, <2>3, <2>4, <2>5 DEF CellsFollowHandlers
<1> QED BY <1>1, <1>2, <1>3, <1>4, <1>5

\* Provision up to Open.
LEMMA OpenStep ==
    ASSUME RegCore, NEW h \in Handlers, OpenDB(h)
    PROVE  RegCore'
<1> USE RegistryShape DEF RegCore, RegTypeOK, OpenDB, Goto, Processes, PCs, caddyVars
<1>1. RegTypeOK'
  BY DEF LifeCycle
<1>2. OneSlotPerName'
  BY DEF OneSlotPerName
<1>3. LifeCycle'
  BY <1>1 DEF LifeCycle, OneAtWork, Busy
<1>4. OneAtWork'
  BY <1>1 DEF LifeCycle, OneAtWork, Busy
<1>5. CellsFollowHandlers'
  BY <1>1 DEF LifeCycle, CellsFollowHandlers, OneSlotPerName
<1> QED BY <1>1, <1>2, <1>3, <1>4, <1>5

\* Provision: the init script.
LEMMA RunInitSQLStep ==
    ASSUME RegCore, NEW h \in Handlers, RunInitSQL(h)
    PROVE  RegCore'
<1> USE RegistryShape DEF RegCore, RegTypeOK, RunInitSQL, Goto, Processes, PCs, caddyVars
<1>1. RegTypeOK'
  BY DEF LifeCycle
<1>2. OneSlotPerName'
  BY DEF OneSlotPerName
<1>3. LifeCycle'
  BY <1>1 DEF LifeCycle, OneAtWork, Busy
<1>4. OneAtWork'
  BY <1>1 DEF LifeCycle, OneAtWork, Busy
<1>5. CellsFollowHandlers'
  BY <1>1 DEF LifeCycle, CellsFollowHandlers, OneSlotPerName
<1> QED BY <1>1, <1>2, <1>3, <1>4, <1>5

\* RegisterDB: the slot's content is replaced.
LEMMA RegisterDBStep ==
    ASSUME RegCore, NEW h \in Handlers, RegisterDB(h)
    PROVE  RegCore'
<1> USE RegistryShape DEF RegCore, RegTypeOK, RegisterDB, Goto, Processes, PCs, caddyVars
<1>1. RegTypeOK'
  BY DEF LifeCycle
<1>2. OneSlotPerName'
  BY DEF OneSlotPerName
<1>3. LifeCycle'
  BY <1>1 DEF LifeCycle, OneAtWork, Busy
<1>4. OneAtWork'
  BY <1>1 DEF LifeCycle, OneAtWork, Busy
<1>5. CellsFollowHandlers'
  BY <1>1 DEF LifeCycle, CellsFollowHandlers, OneSlotPerName
<1> QED BY <1>1, <1>2, <1>3, <1>4, <1>5

\* DeregisterDBIf: the slot loses no other handler's database.
LEMMA DeregisterStep ==
    ASSUME RegCore, NEW h \in Handlers, DeregisterDBIf(h)
    PROVE  RegCore'
<1> USE RegistryShape DEF RegCore, RegTypeOK, DeregisterDBIf, Goto, Processes, PCs, caddyVars, Takes
<1>1. RegTypeOK'
  BY DEF LifeCycle
<1>2. OneSlotPerName'
  BY DEF OneSlotPerName
<1>3. LifeCycle'
  BY <1>1 DEF LifeCycle, OneAtWork, Busy
<1>4. OneAtWork'
  BY <1>1 DEF LifeCycle, OneAtWork, Busy
<1>5. CellsFollowHandlers'
  BY <1>1 DEF LifeCycle, CellsFollowHandlers, OneSlotPerName
<1> QED BY <1>1, <1>2, <1>3, <1>4, <1>5

\* Cleanup closes a database that no slot holds any more.
LEMMA CloseDBStep ==
    ASSUME RegCore, NEW h \in Handlers, CloseDB(h)
    PROVE  RegCore'
<1> USE RegistryShape DEF RegCore, RegTypeOK, CloseDB, Goto, Processes, PCs, caddyVars
<1>1. RegTypeOK'
  BY DEF LifeCycle
<1>2. OneSlotPerName'
  BY DEF OneSlotPerName
<1>3. LifeCycle'
  BY <1>1 DEF LifeCycle, OneAtWork, Busy
<1>4. OneAtWork'
  BY <1>1 DEF LifeCycle, OneAtWork, Busy
<1>5. CellsFollowHandlers'
  BY <1>1 DEF LifeCycle, CellsFollowHandlers, OneSlotPerName
<1> QED BY <1>1, <1>2, <1>3, <1>4, <1>5

\* Cleanup resets the db field.
LEMMA ClearDBStep ==
    ASSUME RegCore, NEW h \in Handlers, ClearDB(h)
    PROVE  RegCore'
<1> USE RegistryShape DEF RegCore, RegTypeOK, ClearDB, Goto, Processes, PCs, caddyVars
<1>1. RegTypeOK'
  BY DEF LifeCycle
<1>2. OneSlotPerName'
  BY DEF OneSlotPerName
<1>3. LifeCycle'
  BY <1>1 DEF LifeCycle, OneAtWork, Busy
<1>4. OneAtWork'
  BY <1>1 DEF LifeCycle, OneAtWork, Busy
<1>5. CellsFollowHandlers'
  BY <1>1 DEF LifeCycle, CellsFollowHandlers, OneSlotPerName
<1> QED BY <1>1, <1>2, <1>3, <1>4, <1>5

\* Caddy starts a load.
LEMMA LoadStep ==
    ASSUME RegCore, NEW h \in Handlers, Load(h)
    PROVE  RegCore'
<1> USE RegistryShape DEF RegCore, RegTypeOK, Load, Goto, Processes, PCs, caddyVars, Resting
<1>1. RegTypeOK'
  BY DEF LifeCycle
<1>2. OneSlotPerName'
  BY DEF OneSlotPerName
<1>3. LifeCycle'
  BY <1>1 DEF LifeCycle, OneAtWork, Busy
<1>4. OneAtWork'
  BY <1>1 DEF LifeCycle, OneAtWork, Busy
<1>5. CellsFollowHandlers'
  BY <1>1 DEF LifeCycle, CellsFollowHandlers, OneSlotPerName
<1> QED BY <1>1, <1>2, <1>3, <1>4, <1>5

\* Caddy puts the new handler in place.
LEMMA SwapStep ==
    ASSUME RegCore, NEW h \in Handlers, Swap(h)
    PROVE  RegCore'
<1> USE RegistryShape DEF RegCore, RegTypeOK, Swap, Goto, Processes, PCs, caddyVars, CleanupFrom
<1>1. RegTypeOK'
  BY DEF LifeCycle
<1>2. OneSlotPerName'
  BY DEF OneSlotPerName
<1>3. LifeCycle'
  BY <1>1 DEF LifeCycle, OneAtWork, Busy
<1>4. OneAtWork'
  BY <1>1 DEF LifeCycle, OneAtWork, Busy
<1>5. CellsFollowHandlers'
  BY <1>1 DEF LifeCycle, CellsFollowHandlers, OneSlotPerName
<1> QED BY <1>1, <1>2, <1>3, <1>4, <1>5

\* Caddy gives a load up.
LEMMA RollBackStep ==
    ASSUME RegCore, NEW h \in Handlers, RollBack(h)
    PROVE  RegCore'
<1> USE RegistryShape DEF RegCore, RegTypeOK, RollBack, Goto, Processes, PCs, caddyVars, CleanupFrom
<1>1. RegTypeOK'
  BY DEF LifeCycle
<1>2. OneSlotPerName'
  BY DEF OneSlotPerName
<1>3. LifeCycle'
  BY <1>1 DEF LifeCycle, OneAtWork, Busy
<1>4. OneAtWork'
  BY <1>1 DEF LifeCycle, OneAtWork, Busy
<1>5. CellsFollowHandlers'
  BY <1>1 DEF LifeCycle, CellsFollowHandlers, OneSlotPerName
<1> QED BY <1>1, <1>2, <1>3, <1>4, <1>5

\* Caddy stops.
LEMMA StopStep ==
    ASSUME RegCore, NEW h \in Handlers, Stop(h)
    PROVE  RegCore'
<1> USE RegistryShape DEF RegCore, RegTypeOK, Stop, Goto, Processes, PCs, caddyVars, CleanupFrom, Resting
<1>1. RegTypeOK'
  BY DEF LifeCycle
<1>2. OneSlotPerName'
  BY DEF OneSlotPerName
<1>3. LifeCycle'
  BY <1>1 DEF LifeCycle, OneAtWork, Busy
<1>4. OneAtWork'
  BY <1>1 DEF LifeCycle, OneAtWork, Busy
<1>5. CellsFollowHandlers'
  BY <1>1 DEF LifeCycle, CellsFollowHandlers, OneSlotPerName
<1> QED BY <1>1, <1>2, <1>3, <1>4, <1>5

\* Every step of a caller, a handler or Caddy preserves the inductive part.
LEMMA CoreStep == RegCore /\ [RegNext]_regVars => RegCore'
<1> SUFFICES ASSUME RegCore, [RegNext]_regVars PROVE RegCore'
  OBVIOUS
<1>1. ASSUME NEW p \in Processes, FindSlot(p) \/ CreateSlot(p)
      PROVE  RegCore'
  BY <1>1, FindSlotStep, CreateSlotStep
<1>2. ASSUME NEW h \in Handlers, OpenDB(h) \/ RunInitSQL(h) \/ RegisterDB(h)
      PROVE  RegCore'
  BY <1>2, OpenStep, RunInitSQLStep, RegisterDBStep
<1>3. ASSUME NEW h \in Handlers, DeregisterDBIf(h) \/ CloseDB(h) \/ ClearDB(h)
      PROVE  RegCore'
  BY <1>3, DeregisterStep, CloseDBStep, ClearDBStep
<1>4. ASSUME NEW h \in Handlers, Load(h) \/ Swap(h) \/ RollBack(h) \/ Stop(h)
      PROVE  RegCore'
  BY <1>4, LoadStep, SwapStep, RollBackStep, StopStep
<1>5. CASE UNCHANGED regVars
  BY <1>5 DEF regVars, RegCore, RegTypeOK, OneSlotPerName, LifeCycle, OneAtWork, Busy, CellsFollowHandlers
<1> QED BY <1>1, <1>2, <1>3, <1>4, <1>5 DEF RegNext

\* SameInstance follows: the slot a consumer kept is the slot of the handler that
\* serves, and that slot holds an open database.
LEMMA CoreGivesSameInstance == RegCore => SameInstance
<1> SUFFICES ASSUME RegCore, NEW c \in Consumers, slot[c] # NoSlot, serving # Nobody,
                    NameOf[c] = NameOf[serving], NameOf[c] \notin rolledBack
             PROVE  /\ cell[slot[c]] \in open
                    /\ AtRest => cell[slot[c]] = serving
  BY DEF SameInstance
<1> USE RegistryShape DEF RegCore, RegTypeOK, Processes
<1>1. serving \in Handlers /\ slot[serving] # NoSlot
  BY DEF LifeCycle
<1>2. slot[c] = slot[serving] /\ slot[c] \in Processes
  BY <1>1 DEF OneSlotPerName
<1>3. cell[slot[c]] # NoDB
  BY <1>2 DEF CellsFollowHandlers
<1>4. SlotHoldsOpenDB /\ OpenIsOwned
  BY CoreIsEnough DEF RegistryInv
<1> QED BY <1>2, <1>3, <1>4 DEF SlotHoldsOpenDB, OpenIsOwned

\* The registry's invariant, in every reachable state: names keep their slots, a slot
\* never holds a closed database (db_registry.go, DeregisterDBIf before Close in
\* module.go), and nothing but the serving database is open between two loads.
THEOREM RegistryIsSound == RegSpec => []RegistryInv
<1>1. RegSpec => []RegCore
  BY CoreInit, CoreStep, PTL DEF RegSpec
<1> QED BY <1>1, CoreIsEnough, PTL

\* A consumer reaches the database that serves (LookupDBSlot), through any sequence
\* of reloads, failed starts and stops.
THEOREM ConsumersReachServing == RegSpec => []SameInstance
<1>1. RegSpec => []RegCore
  BY CoreInit, CoreStep, PTL DEF RegSpec
<1> QED BY <1>1, CoreGivesSameInstance, PTL

----------------------------------------------------------------------------
(* The catalog: types and folds.                                           *)

\* What a number, and what a name, can stand for in SQLite.
Slots == Name \cup {None}
RowSets == {Missing} \cup SUBSET Lsn

\* SQLite as Effect sees it.
Mirrors == [reg : [Id -> Slots], rows : [Name -> RowSets], ok : BOOLEAN]
\* A SQLite transaction, and a replay.
Runs == [sq : Lites, tables : [Id -> Slots], ok : BOOLEAN]
Replays == [cat : Catalogs, ok : BOOLEAN]

\* The folds of the model: draining as the log says it, draining as the code
\* does it, seeding and replaying.
EffectFold == INSTANCE LeftFold WITH op <- Effect, V <- Mirrors, E <- Record
RunFold == INSTANCE LeftFold WITH op <- MirrorStep, V <- SUBSET Runs, E <- Record
SeedFold == INSTANCE LeftFold WITH op <- SeedOne, V <- Lites, E <- 1..Len(Boot)
ReplayFold == INSTANCE LeftFold WITH op <- ReplayApply, V <- Replays, E <- Record

\* A record of the log is one of three.
LEMMA RecordIs ==
    ASSUME NEW rec \in Record
    PROVE  /\ rec.op \in {"create", "drop", "mut"}
           /\ rec.op = "create" => rec.id \in Id /\ rec.name \in Name
           /\ rec.op = "drop" => rec.name \in Name
           /\ rec.op = "mut" => rec.id \in Id /\ rec.lsn \in Lsn
BY DEF Record

\* A finite set of numbers has a greatest one.
LEMMA MaxOf ==
    ASSUME NEW n \in Nat, NEW T \in SUBSET (0..n), T # {}
    PROVE  Max(T) \in T /\ \A y \in T : y <= Max(T)
<1> DEFINE R == {m \in Nat : \A y \in T : y <= m}
<1>1. R # {} /\ R \subseteq Nat
  BY n \in R
<1>2. PICK m \in R : \A k \in R : m <= k
  BY <1>1, NatMin
<1>3. m \in T
  <2> SUFFICES ASSUME m \notin T PROVE FALSE
    OBVIOUS
  <2>1. m \in Nat /\ \A y \in T : y \in Nat /\ y < m
    OBVIOUS
  <2>2. m # 0
    <3>1. PICK y \in T : TRUE
      OBVIOUS
    <3> QED BY <2>1, <3>1
  <2>3. m - 1 \in Nat /\ \A y \in T : y <= m - 1
    BY <2>1, <2>2
  <2> QED BY <1>2, <2>1, <2>3
<1>4. \E x \in T : \A y \in T : x >= y
  BY <1>3
<1> QED BY <1>4 DEF Max

----------------------------------------------------------------------------
(* Catalogs.                                                               *)

\* The length of a list of n once it has number i.
Longer(i, n) == IF n < i THEN i ELSE n

\* Table i named x comes into c.
Added(c, d, i, x) ==
    /\ d \in Catalogs
    /\ Len(d.byID) = Longer(i, Len(c.byID))
    /\ \A j \in 1..Len(d.byID) :
          d.byID[j] = IF j = i THEN x ELSE IF j <= Len(c.byID) THEN c.byID[j] ELSE None
    /\ d.byName = [c.byName EXCEPT ![x] = i]
    /\ d.rows = [c.rows EXCEPT ![i] = {}]

\* withTable adds an empty table.
LEMMA WithTableAdds ==
    ASSUME NEW c \in Catalogs, NEW i \in Id, NEW x \in Name
    PROVE  Added(c, WithTable(c, i, x), i, x)
<1> DEFINE n == Len(c.byID)
           m == Max({i, n})
           l == [j \in 1..m |-> IF j = i THEN x ELSE IF j <= n THEN c.byID[j] ELSE None]
<1>1. MaxId \in Nat /\ i \in 1..MaxId /\ n \in 0..MaxId
  BY CatalogBounds DEF Id, Catalogs
<1>2. m = Longer(i, n)
  <2>1. {i, n} \in SUBSET (0..MaxId) /\ {i, n} # {}
    BY <1>1
  <2>2. m \in {i, n} /\ i <= m /\ n <= m
    BY <1>1, <2>1, MaxOf
  <2> QED BY <1>1, <2>2 DEF Longer
<1>3. m \in 0..MaxId /\ i <= m
  BY <1>1, <1>2 DEF Longer
<1>4. /\ c.byID \in Seq(Slots) /\ c.byName \in [Name -> 0..MaxId] /\ c.rows \in [Id -> SUBSET Lsn]
  BY DEF Catalogs, Slots
<1>5. l \in Seq(Slots) /\ Len(l) = m
  <2>1. \A j \in 1..m : l[j] \in Slots
    BY <1>1, <1>4 DEF Slots
  <2> HIDE DEF m
  <2>2. l = [j \in 1..m |-> l[j]]
    OBVIOUS
  <2> HIDE DEF l
  <2> QED BY <1>3, <2>1, <2>2
<1>6. [c.byName EXCEPT ![x] = i] \in [Name -> 0..MaxId] /\ [c.rows EXCEPT ![i] = {}] \in [Id -> SUBSET Lsn]
  BY <1>1, <1>4
<1>7. WithTable(c, i, x) = [byID |-> l, byName |-> [c.byName EXCEPT ![x] = i], rows |-> [c.rows EXCEPT ![i] = {}]]
  BY DEF WithTable
<1>8. \A j \in 1..m : l[j] = IF j = i THEN x ELSE IF j <= n THEN c.byID[j] ELSE None
  OBVIOUS
<1> HIDE DEF m, l
<1>9. Len(l) <= MaxId
  BY <1>3, <1>5
<1>10. WithTable(c, i, x) \in Catalogs
  BY <1>5, <1>6, <1>7, <1>9 DEF Catalogs, Slots
<1> QED BY <1>2, <1>5, <1>7, <1>8, <1>10 DEF Added

\* Table x goes from c.
Removed(c, d, x) ==
    /\ d \in Catalogs
    /\ Len(d.byID) = Len(c.byID)
    /\ \A j \in 1..Len(c.byID) : d.byID[j] = IF j = c.byName[x] THEN None ELSE c.byID[j]
    /\ d.byName = [c.byName EXCEPT ![x] = 0]
    /\ d.rows = c.rows

\* withoutTable removes a table.
LEMMA WithoutTableRemoves ==
    ASSUME NEW c \in Catalogs, NEW x \in Name
    PROVE  Removed(c, WithoutTable(c, x), x)
<1> DEFINE n == Len(c.byID)
           f == [c.byName EXCEPT ![x] = 0]
           l == [j \in 1..n |-> IF j = c.byName[x] THEN None ELSE c.byID[j]]
<1>1. /\ c.byID \in Seq(Slots) /\ c.byName \in [Name -> 0..MaxId] /\ c.rows \in [Id -> SUBSET Lsn]
      /\ n <= MaxId /\ n \in Nat /\ MaxId \in Nat
      /\ c \in [byID : Seq(Slots), byName : [Name -> 0..MaxId], rows : [Id -> SUBSET Lsn]]
  BY CatalogBounds DEF Catalogs, Slots
<1>2. l \in Seq(Slots) /\ Len(l) = n /\ \A j \in 1..n : l[j] = IF j = c.byName[x] THEN None ELSE c.byID[j]
  BY <1>1 DEF Slots
<1>3. f \in [Name -> 0..MaxId]
  BY <1>1
<1>4. WithoutTable(c, x) = [byID |-> l, byName |-> f, rows |-> c.rows]
  <2>1. WithoutTable(c, x) = [c EXCEPT !.byName = f, !.byID = l]
    BY Zenon DEF WithoutTable
  <2> HIDE DEF l, f
  <2> QED BY <1>1, <2>1
<1> HIDE DEF l, f
<1>5. WithoutTable(c, x) \in Catalogs
  BY <1>1, <1>2, <1>3, <1>4 DEF Catalogs, Slots
<1> QED BY <1>2, <1>4, <1>5 DEF Removed, f

\* A row of table i.
Written(c, i, n) == [c EXCEPT !.rows[i] = @ \cup {n}]

\* A mutation changes the rows of its table.
LEMMA WrittenIs ==
    ASSUME NEW c \in Catalogs, NEW i \in Id, NEW n \in Lsn
    PROVE  /\ Written(c, i, n) \in Catalogs
           /\ Written(c, i, n).byID = c.byID /\ Written(c, i, n).byName = c.byName
           /\ Written(c, i, n).rows = [c.rows EXCEPT ![i] = @ \cup {n}]
<1>1. c.rows \in [Id -> SUBSET Lsn] /\ c \in [byID : Seq(Slots), byName : [Name -> 0..MaxId], rows : [Id -> SUBSET Lsn]]
  BY DEF Catalogs, Slots
<1>2. [c.rows EXCEPT ![i] = @ \cup {n}] \in [Id -> SUBSET Lsn]
  BY <1>1
<1>3. Written(c, i, n) = [byID |-> c.byID, byName |-> c.byName, rows |-> [c.rows EXCEPT ![i] = @ \cup {n}]]
  <2> DEFINE g == [c.rows EXCEPT ![i] = @ \cup {n}]
  <2>1. Written(c, i, n) = [c EXCEPT !.rows = g]
    BY Zenon DEF Written
  <2> HIDE DEF g
  <2>2. Written(c, i, n) = [byID |-> c.byID, byName |-> c.byName, rows |-> g]
    BY <1>1, <2>1
  <2> QED BY <2>2 DEF g
<1> QED BY <1>2, <1>3 DEF Catalogs

----------------------------------------------------------------------------
(* What a record does to SQLite.                                           *)

\* CREATE of table i named x.
Made(s, t, i, x) ==
    /\ t \in Mirrors
    /\ t.reg = [s.reg EXCEPT ![i] = x]
    /\ t.rows = [s.rows EXCEPT ![x] = {}]
    /\ t.ok = (s.ok /\ s.reg[i] = None /\ s.rows[x] = Missing /\ i > Len(Boot))

\* DROP of table x.
Unmade(s, t, x) ==
    /\ t \in Mirrors
    /\ t.reg = [i \in Id |-> IF s.reg[i] = x THEN None ELSE s.reg[i]]
    /\ t.rows = [s.rows EXCEPT ![x] = Missing]
    /\ t.ok = (s.ok /\ s.rows[x] # Missing)

\* Row n of table i; ok is lost if there is no such table.
Filled(s, t, i, n) ==
    /\ t \in Mirrors
    /\ t.reg = s.reg
    /\ IF s.reg[i] \in Name /\ s.rows[s.reg[i]] # Missing
         THEN t.rows = [s.rows EXCEPT ![s.reg[i]] = @ \cup {n}] /\ t.ok = s.ok
         ELSE t.rows = s.rows /\ ~t.ok

\* The effect of a CREATE.
LEMMA EffectCreate ==
    ASSUME NEW s \in Mirrors, NEW rec \in Record, rec.op = "create"
    PROVE  Made(s, Effect(s, rec), rec.id, rec.name)
<1>1. rec.id \in Id /\ rec.name \in Name
  BY RecordIs
<1>2. s.reg \in [Id -> Slots] /\ s.rows \in [Name -> RowSets] /\ s.ok \in BOOLEAN
  BY DEF Mirrors
<1> DEFINE f == [s.reg EXCEPT ![rec.id] = rec.name]
           g == [s.rows EXCEPT ![rec.name] = {}]
           b == s.ok /\ s.reg[rec.id] = None /\ s.rows[rec.name] = Missing /\ rec.id > Len(Boot)
<1>3. f \in [Id -> Slots] /\ g \in [Name -> RowSets] /\ b \in BOOLEAN
  BY <1>1, <1>2 DEF Slots, RowSets
<1>4. Effect(s, rec) = [reg |-> f, rows |-> g, ok |-> b]
  BY DEF Effect
<1> HIDE DEF f, g, b
<1>5. Effect(s, rec) \in Mirrors
  BY <1>3, <1>4 DEF Mirrors
<1> QED BY <1>4, <1>5 DEF Made, f, g, b

\* The effect of a DROP.
LEMMA EffectDrop ==
    ASSUME NEW s \in Mirrors, NEW rec \in Record, rec.op = "drop"
    PROVE  Unmade(s, Effect(s, rec), rec.name)
<1>1. rec.name \in Name
  BY RecordIs
<1>2. s.reg \in [Id -> Slots] /\ s.rows \in [Name -> RowSets] /\ s.ok \in BOOLEAN
  BY DEF Mirrors
<1> DEFINE f == [i \in Id |-> IF s.reg[i] = rec.name THEN None ELSE s.reg[i]]
           g == [s.rows EXCEPT ![rec.name] = Missing]
           b == s.ok /\ s.rows[rec.name] # Missing
<1>3. f \in [Id -> Slots] /\ g \in [Name -> RowSets] /\ b \in BOOLEAN
  BY <1>1, <1>2 DEF Slots, RowSets
<1>4. Effect(s, rec) = [reg |-> f, rows |-> g, ok |-> b]
  BY DEF Effect
<1> HIDE DEF f, g, b
<1>5. Effect(s, rec) \in Mirrors
  BY <1>3, <1>4 DEF Mirrors
<1> QED BY <1>4, <1>5 DEF Unmade, f, g, b

\* The effect of a mutation.
LEMMA EffectMut ==
    ASSUME NEW s \in Mirrors, NEW rec \in Record, rec.op = "mut"
    PROVE  Filled(s, Effect(s, rec), rec.id, rec.lsn)
<1>1. rec.id \in Id /\ rec.lsn \in Lsn
  BY RecordIs
<1>2. s.reg \in [Id -> Slots] /\ s.rows \in [Name -> RowSets] /\ s.ok \in BOOLEAN
  BY DEF Mirrors
<1> DEFINE x == s.reg[rec.id]
           g == [s.rows EXCEPT ![x] = @ \cup {rec.lsn}]
<1>3. CASE x \in Name /\ s.rows[x] # Missing
  <2>1. s.rows[x] \in SUBSET Lsn
    BY <1>2, <1>3 DEF RowSets
  <2>2. g \in [Name -> RowSets]
    BY <1>1, <1>2, <1>3, <2>1 DEF RowSets
  <2>3. Effect(s, rec) = [s EXCEPT !.rows[x] = @ \cup {rec.lsn}]
    BY <1>3 DEF Effect
  <2>4. Effect(s, rec) = [s EXCEPT !.rows = g]
    BY <2>3, Zenon
  <2> HIDE DEF g
  <2>5. Effect(s, rec) = [reg |-> s.reg, rows |-> g, ok |-> s.ok]
    BY <2>4 DEF Mirrors
  <2>6. Effect(s, rec) \in Mirrors
    BY <1>2, <2>2, <2>5 DEF Mirrors
  <2> QED BY <1>3, <2>5, <2>6 DEF Filled, g
<1>4. CASE ~(x \in Name /\ s.rows[x] # Missing)
  <2>1. Effect(s, rec) = [s EXCEPT !.ok = FALSE]
    BY <1>4 DEF Effect
  <2>2. Effect(s, rec) = [reg |-> s.reg, rows |-> s.rows, ok |-> FALSE]
    BY <2>1 DEF Mirrors
  <2>3. Effect(s, rec) \in Mirrors
    BY <1>2, <2>2 DEF Mirrors
  <2>4. Effect(s, rec).reg = s.reg /\ Effect(s, rec).rows = s.rows /\ ~Effect(s, rec).ok
    BY <2>2
  <2> QED BY <1>4, <2>3, <2>4 DEF Filled
<1> QED BY <1>3, <1>4

\* A record leads from a state of SQLite to one, and what went wrong stays wrong.
LEMMA EffectIs ==
    ASSUME NEW s \in Mirrors, NEW rec \in Record
    PROVE  Effect(s, rec) \in Mirrors /\ (Effect(s, rec).ok => s.ok)
<1>1. rec.op \in {"create", "drop", "mut"}
  BY RecordIs
<1>2. CASE rec.op = "create"
  BY <1>2, EffectCreate DEF Made
<1>3. CASE rec.op = "drop"
  BY <1>3, EffectDrop DEF Unmade
<1>4. CASE rec.op = "mut"
  BY <1>4, EffectMut DEF Filled
<1> QED BY <1>1, <1>2, <1>3, <1>4

\* Consistency passes from record to record while no ok is lost.
LEMMA EffectKeeps ==
    ASSUME NEW s \in Mirrors, Consistent(s), NEW rec \in Record, Effect(s, rec).ok
    PROVE  Consistent(Effect(s, rec))
<1> DEFINE t == Effect(s, rec)
<1>1. rec.op \in {"create", "drop", "mut"}
  BY RecordIs
<1>2. /\ s.reg \in [Id -> Slots] /\ s.rows \in [Name -> RowSets] /\ t.ok
      /\ Len(Boot) <= MaxId /\ Len(Boot) \in Nat /\ MaxId \in Nat /\ Boot \in Seq(Name)
  BY SchemaNames, CatalogBounds DEF Mirrors
<1>3. CASE rec.op = "create"
  <2> DEFINE i == rec.id
             x == rec.name
  <2>1. Made(s, t, i, x) /\ i \in Id /\ x \in Name
    BY <1>3, EffectCreate, RecordIs
  <2> HIDE DEF t, i, x
  <2>2. /\ s.reg[i] = None /\ i > Len(Boot) /\ \A j \in Id : s.reg[j] # x
    BY <1>2, <2>1 DEF Made, Consistent
  <2>3. \A j \in Id : t.reg[j] = IF j = i THEN x ELSE s.reg[j]
    BY <1>2, <2>1 DEF Made
  <2>4. \A y \in Name : t.rows[y] = IF y = x THEN {} ELSE s.rows[y]
    BY <1>2, <2>1 DEF Made
  <2>5. {} # Missing /\ None # x /\ None \notin Name
    BY <2>1, MissingIsNoRows, NoneIsNoName
  <2>6. \A j, k \in Id : t.reg[j] = t.reg[k] /\ t.reg[j] # None => j = k
    BY <2>2, <2>3 DEF Consistent
  <2>7. \A y \in Name : t.rows[y] = Missing <=> \A j \in Id : t.reg[j] # y
    BY <2>1, <2>2, <2>3, <2>4, <2>5 DEF Consistent
  <2>8. \A j \in 1..Len(Boot) : t.reg[j] \in {None, Boot[j]}
    BY <1>2, <2>1, <2>2, <2>3 DEF Consistent, Id
  <2> QED BY <1>2, <2>6, <2>7, <2>8 DEF Consistent, t
<1>4. CASE rec.op = "drop"
  <2> DEFINE x == rec.name
  <2>1. Unmade(s, t, x) /\ x \in Name
    BY <1>4, EffectDrop, RecordIs
  <2> HIDE DEF t, x
  <2>2. \A j \in Id : t.reg[j] = IF s.reg[j] = x THEN None ELSE s.reg[j]
    BY <1>2, <2>1 DEF Unmade
  <2>3. \A y \in Name : t.rows[y] = IF y = x THEN Missing ELSE s.rows[y]
    BY <1>2, <2>1 DEF Unmade
  <2>4. \A y \in Name : None # y
    BY NoneIsNoName
  <2>5. \A j, k \in Id : t.reg[j] = t.reg[k] /\ t.reg[j] # None => j = k
    BY <2>2 DEF Consistent
  <2>6. \A y \in Name : t.rows[y] = Missing <=> \A j \in Id : t.reg[j] # y
    BY <2>1, <2>2, <2>3, <2>4 DEF Consistent
  <2>7. \A j \in 1..Len(Boot) : t.reg[j] \in {None, Boot[j]}
    BY <1>2, <2>1, <2>2 DEF Consistent, Id
  <2> QED BY <1>2, <2>5, <2>6, <2>7 DEF Consistent, t
<1>5. CASE rec.op = "mut"
  <2>1. Filled(s, t, rec.id, rec.lsn) /\ rec.lsn \in Lsn
    BY <1>5, EffectMut, RecordIs
  <2> HIDE DEF t
  <2> DEFINE x == s.reg[rec.id]
  <2>2. /\ t.reg = s.reg /\ x \in Name /\ s.rows[x] # Missing
        /\ t.rows = [s.rows EXCEPT ![x] = @ \cup {rec.lsn}]
    BY <1>2, <2>1 DEF Filled
  <2>3. s.rows[x] \in SUBSET Lsn
    BY <1>2, <2>2 DEF RowSets
  <2>4. s.rows[x] \cup {rec.lsn} # Missing
    BY <2>1, <2>3, MissingIsNoRows
  <2> HIDE DEF x
  <2>5. \A y \in Name : t.rows[y] = Missing <=> s.rows[y] = Missing
    BY <1>2, <2>2, <2>4
  <2> QED BY <1>2, <2>2, <2>5 DEF Consistent, t
<1> QED BY <1>1, <1>3, <1>4, <1>5

----------------------------------------------------------------------------
(* What the whole log does to SQLite.                                      *)

\* Where the records l lead from s.
Ahead(s, l) == EffectFold!Run(s, l)

\* Induction up to n.
LEMMA CountUp ==
    ASSUME NEW n \in Nat, NEW X, 0 \in X, \A k \in 1..n : k - 1 \in X => k \in X
    PROVE  0..n \subseteq X
<1> DEFINE Y == {k \in Nat : k <= n => k \in X}
<1>1. 0 \in Y
  OBVIOUS
<1>2. \A k \in Nat : k \in Y => k + 1 \in Y
  <2>0. \A k \in Nat : k + 1 \in Nat
    OBVIOUS
  <2> SUFFICES ASSUME NEW k \in Nat, k \in Y, k + 1 <= n PROVE k + 1 \in X
    BY <2>0, Zenon
  <2>1. k + 1 \in 1..n /\ (k + 1) - 1 = k /\ k <= n
    OBVIOUS
  <2> QED BY <2>1
<1>3. Nat \subseteq Y
  <2> HIDE DEF Y
  <2> QED BY <1>1, <1>2, NatSetInduction
<1>4. ASSUME NEW k \in 0..n PROVE k \in X
  <2>1. k \in Nat /\ k <= n
    OBVIOUS
  <2>2. k \in Y
    BY <1>3, <2>1
  <2> QED BY <2>1, <2>2
<1> QED BY <1>4

\* A record leads from a state to a state.
LEMMA EffectCloses == EffectFold!Closed
BY EffectIs DEF EffectFold!Closed

\* Nothing makes good what went wrong.
LEMMA WrongStays ==
    ASSUME NEW s \in Mirrors, ~s.ok, NEW l \in Seq(Record)
    PROVE  ~Ahead(s, l).ok
<1> DEFINE n == Len(l)
           X == {k \in Nat : ~Ahead(s, SubSeq(l, 1, k)).ok}
<1>1. n \in Nat /\ SubSeq(l, 1, n) = l /\ SubSeq(l, 1, 0) = <<>>
  OBVIOUS
<1>2. 0 \in X
  BY <1>1, EffectCloses, EffectFold!RunEmpty DEF Ahead
<1>3. \A k \in 1..n : k - 1 \in X => k \in X
  <2> SUFFICES ASSUME NEW k \in 1..n, k - 1 \in X PROVE k \in X
    OBVIOUS
  <2> DEFINE t == Ahead(s, SubSeq(l, 1, k - 1))
  <2>1. t \in Mirrors /\ Ahead(s, SubSeq(l, 1, k)) = Effect(t, l[k]) /\ l[k] \in Record
    BY EffectCloses, EffectFold!RunPrefix DEF Ahead
  <2>2. ~t.ok
    OBVIOUS
  <2> HIDE DEF t
  <2>3. ~Effect(t, l[k]).ok
    BY <2>1, <2>2, EffectIs
  <2> QED BY <2>1, <2>3
<1>4. n \in X
  <2> HIDE DEF X, n
  <2>1. 0..n \subseteq X
    BY <1>1, <1>2, <1>3, CountUp
  <2> QED BY <1>1, <2>1
<1> QED BY <1>1, <1>4

\* A log in two parts.
LEMMA AheadInParts ==
    ASSUME NEW s \in Mirrors, NEW l \in Seq(Record), NEW k \in 0..Len(l)
    PROVE  /\ SubSeq(l, 1, k) \in Seq(Record) /\ SubSeq(l, k + 1, Len(l)) \in Seq(Record)
           /\ Ahead(s, SubSeq(l, 1, k)) \in Mirrors
           /\ Ahead(s, l) = Ahead(Ahead(s, SubSeq(l, 1, k)), SubSeq(l, k + 1, Len(l)))
<1> DEFINE a == SubSeq(l, 1, k)
           b == SubSeq(l, k + 1, Len(l))
<1>1. a \in Seq(Record) /\ b \in Seq(Record)
  OBVIOUS
<1>2. l = a \o b
  <2>1. Len(l) \in Nat /\ 1 \in 1..(Len(l) + 1) /\ k \in (1 - 1)..Len(l) /\ Len(l) \in k..Len(l)
    OBVIOUS
  <2>2. SubSeq(l, 1, k) \o SubSeq(l, k + 1, Len(l)) = SubSeq(l, 1, Len(l))
    BY <2>1, ConcatAdjacentSubSeq
  <2> QED BY <2>2, SubSeqFull
<1> HIDE DEF a, b
<1>3. Ahead(s, a) \in Mirrors /\ Ahead(s, a \o b) = Ahead(Ahead(s, a), b)
  BY <1>1, EffectCloses, EffectFold!RunConcat, EffectFold!RunType DEF Ahead
<1> QED BY <1>1, <1>2, <1>3 DEF a, b

\* A log that ends well is well at every point.
LEMMA PrefixesFine ==
    ASSUME NEW s \in Mirrors, Consistent(s), NEW l \in Seq(Record), Ahead(s, l).ok
    PROVE  \A k \in 0..Len(l) : Ahead(s, SubSeq(l, 1, k)) \in Mirrors /\ Consistent(Ahead(s, SubSeq(l, 1, k)))
<1> DEFINE n == Len(l)
           X == {k \in Nat : Consistent(Ahead(s, SubSeq(l, 1, k)))}
<1>1. n \in Nat /\ SubSeq(l, 1, 0) = <<>>
  OBVIOUS
<1>2. 0 \in X
  BY <1>1, EffectCloses, EffectFold!RunEmpty DEF Ahead
<1>3. \A k \in 0..n : Ahead(s, SubSeq(l, 1, k)) \in Mirrors /\ Ahead(s, SubSeq(l, 1, k)).ok
  BY AheadInParts, WrongStays
<1>4. \A k \in 1..n : k - 1 \in X => k \in X
  <2> SUFFICES ASSUME NEW k \in 1..n, k - 1 \in X PROVE k \in X
    OBVIOUS
  <2> DEFINE t == Ahead(s, SubSeq(l, 1, k - 1))
  <2>1. t \in Mirrors /\ Ahead(s, SubSeq(l, 1, k)) = Effect(t, l[k]) /\ l[k] \in Record
    BY EffectCloses, EffectFold!RunPrefix DEF Ahead
  <2>2. Consistent(t)
    OBVIOUS
  <2> HIDE DEF t
  <2>3. k \in 0..n /\ k \in Nat
    BY <1>1
  <2>4. Effect(t, l[k]).ok
    BY <1>3, <2>1, <2>3
  <2>5. Consistent(Effect(t, l[k]))
    BY <2>1, <2>2, <2>4, EffectKeeps
  <2> QED BY <2>1, <2>3, <2>5
<1>5. 0..n \subseteq X
  <2> HIDE DEF X
  <2> QED BY <1>1, <1>2, <1>4, CountUp
<1> QED BY <1>3, <1>5

\* The log with one more record.
LEMMA AheadAppends ==
    ASSUME NEW s \in Mirrors, NEW l \in Seq(Record), NEW rec \in Record
    PROVE  Ahead(s, l) \in Mirrors /\ Ahead(s, Append(l, rec)) = Effect(Ahead(s, l), rec)
BY EffectCloses, EffectFold!RunAppend DEF Ahead

\* Drained is such a fold.
LEMMA DrainedIs == sq \in Lites => Undrained \in Mirrors /\ Drained = Ahead(Undrained, log)
<1>1. Drained = Ahead(Undrained, log)
  BY DEF Drained, Ahead, EffectFold!Run, FoldLeft, EffectFold!FoldLeft, MapThenFoldSet, EffectFold!MapThenFoldSet,
         Max, EffectFold!Max
<1>2. sq \in Lites => Undrained \in Mirrors
  BY DEF Undrained, Mirrors, Lites, Slots, RowSets
<1> QED BY <1>1, <1>2

----------------------------------------------------------------------------
(* A record does the same to a catalog and to SQLite.                      *)

\* The live numbers are the registered ones.
LEMMA LiveIsRegistered ==
    ASSUME NEW c \in Catalogs, NEW s \in Mirrors, Matches(c, s), NEW i \in Id
    PROVE  (Live(c, i) <=> s.reg[i] # None) /\ (Live(c, i) => c.byID[i] = s.reg[i])
<1>1. Len(c.byID) \in Nat /\ i \in Nat /\ i >= 1
  BY DEF Catalogs, Id
<1>2. s.reg[i] = IF i <= Len(c.byID) THEN c.byID[i] ELSE None
  BY DEF Matches
<1> QED BY <1>1, <1>2 DEF Live

\* CREATE.
LEMMA CreateMatches ==
    ASSUME NEW c \in Catalogs, NEW s \in Mirrors, Consistent(s), Matches(c, s),
           NEW i \in Id, NEW x \in Name, NEW d, Added(c, d, i, x), NEW t, Made(s, t, i, x), t.ok
    PROVE  Matches(d, t)
<1>1. /\ s.reg \in [Id -> Slots] /\ s.rows \in [Name -> RowSets]
      /\ c.byName \in [Name -> 0..MaxId] /\ c.rows \in [Id -> SUBSET Lsn]
      /\ Len(c.byID) \in Nat /\ i \in Nat /\ i >= 1
  BY DEF Mirrors, Catalogs, Id
<1>2. s.reg[i] = None /\ s.rows[x] = Missing /\ \A j \in Id : s.reg[j] # x
  BY DEF Made, Consistent
<1>3. /\ \A j \in Id : t.reg[j] = IF j = i THEN x ELSE s.reg[j]
      /\ \A y \in Name : t.rows[y] = IF y = x THEN {} ELSE s.rows[y]
  BY <1>1 DEF Made
<1>4. /\ \A y \in Name : d.byName[y] = IF y = x THEN i ELSE c.byName[y]
      /\ \A j \in Id : d.rows[j] = IF j = i THEN {} ELSE c.rows[j]
      /\ Len(d.byID) = Longer(i, Len(c.byID))
  BY <1>1 DEF Added
<1>5. \A j \in Id : j \in Nat /\ j >= 1
  BY DEF Id
<1>6. Len(d.byID) \in Nat /\ Len(c.byID) <= Len(d.byID) /\ i <= Len(d.byID)
  BY <1>1, <1>4 DEF Longer
<1>7. Len(Boot) <= Len(d.byID)
  BY <1>1, <1>6, SchemaNames DEF Matches
<1>8. ASSUME NEW j \in Id PROVE t.reg[j] = IF j <= Len(d.byID) THEN d.byID[j] ELSE None
  <2>1. s.reg[j] = IF j <= Len(c.byID) THEN c.byID[j] ELSE None
    BY DEF Matches
  <2>2. CASE j <= Len(d.byID)
    <3>1. d.byID[j] = IF j = i THEN x ELSE IF j <= Len(c.byID) THEN c.byID[j] ELSE None
      BY <1>5, <1>6, <2>2 DEF Added
    <3> QED BY <1>3, <2>1, <2>2, <3>1
  <2>3. CASE ~(j <= Len(d.byID))
    <3>1. j # i /\ ~(j <= Len(c.byID))
      BY <1>1, <1>5, <1>6, <2>3
    <3> QED BY <1>3, <2>1, <2>3, <3>1
  <2> QED BY <2>2, <2>3
<1>9. \A y \in Name, j \in Id : d.byName[y] = j <=> t.reg[j] = y
  <2> SUFFICES ASSUME NEW y \in Name, NEW j \in Id PROVE d.byName[y] = j <=> t.reg[j] = y
    OBVIOUS
  <2>1. c.byName[y] = j <=> s.reg[j] = y
    BY DEF Matches
  <2>2. None # y
    BY NoneIsNoName
  <2> QED BY <1>2, <1>3, <1>4, <2>1, <2>2
<1>10. ASSUME NEW j \in Id, t.reg[j] # None PROVE d.rows[j] = t.rows[t.reg[j]]
  <2>1. CASE j = i
    BY <1>3, <1>4, <2>1
  <2>2. CASE j # i
    <3>1. t.reg[j] = s.reg[j] /\ s.reg[j] \in Name /\ s.reg[j] # x
      BY <1>1, <1>2, <1>3, <1>10, <2>2 DEF Slots
    <3>2. c.rows[j] = s.rows[s.reg[j]]
      BY <1>10, <3>1 DEF Matches
    <3> QED BY <1>3, <1>4, <2>2, <3>1, <3>2
  <2> QED BY <2>1, <2>2
<1> QED BY <1>7, <1>8, <1>9, <1>10 DEF Matches

\* DROP.
LEMMA DropMatches ==
    ASSUME NEW c \in Catalogs, NEW s \in Mirrors, Consistent(s), Matches(c, s),
           NEW x \in Name, NEW d, Removed(c, d, x), NEW t, Unmade(s, t, x), t.ok
    PROVE  Matches(d, t)
<1>1. /\ s.reg \in [Id -> Slots] /\ s.rows \in [Name -> RowSets]
      /\ c.byName \in [Name -> 0..MaxId] /\ c.rows \in [Id -> SUBSET Lsn]
      /\ Len(c.byID) \in Nat
  BY DEF Mirrors, Catalogs
<1>2. s.rows[x] # Missing /\ \E k \in Id : s.reg[k] = x
  BY DEF Unmade, Consistent
<1>3. PICK k \in Id : s.reg[k] = x
  BY <1>2
<1>4. c.byName[x] = k /\ \A j \in Id : s.reg[j] = x <=> j = k
  BY <1>3, NoneIsNoName DEF Matches, Consistent
<1>5. /\ \A j \in Id : t.reg[j] = IF j = k THEN None ELSE s.reg[j]
      /\ \A y \in Name : t.rows[y] = IF y = x THEN Missing ELSE s.rows[y]
  BY <1>1, <1>4 DEF Unmade
<1>6. /\ \A y \in Name : d.byName[y] = IF y = x THEN 0 ELSE c.byName[y]
      /\ d.rows = c.rows
      /\ Len(d.byID) = Len(c.byID)
      /\ \A j \in 1..Len(c.byID) : d.byID[j] = IF j = k THEN None ELSE c.byID[j]
  BY <1>1, <1>4 DEF Removed
<1>7. \A j \in Id : j \in Nat /\ j >= 1
  BY DEF Id
<1>8. ASSUME NEW j \in Id PROVE t.reg[j] = IF j <= Len(d.byID) THEN d.byID[j] ELSE None
  <2>1. s.reg[j] = IF j <= Len(c.byID) THEN c.byID[j] ELSE None
    BY DEF Matches
  <2> QED BY <1>1, <1>5, <1>6, <1>7, <2>1
<1>9. \A y \in Name, j \in Id : d.byName[y] = j <=> t.reg[j] = y
  <2> SUFFICES ASSUME NEW y \in Name, NEW j \in Id PROVE d.byName[y] = j <=> t.reg[j] = y
    OBVIOUS
  <2>1. c.byName[y] = j <=> s.reg[j] = y
    BY DEF Matches
  <2>2. None # y /\ j # 0
    BY <1>7, NoneIsNoName
  <2> QED BY <1>3, <1>4, <1>5, <1>6, <2>1, <2>2
<1>10. ASSUME NEW j \in Id, t.reg[j] # None PROVE d.rows[j] = t.rows[t.reg[j]]
  <2>1. t.reg[j] = s.reg[j] /\ s.reg[j] \in Name /\ s.reg[j] # x
    BY <1>1, <1>4, <1>5, <1>10 DEF Slots
  <2>2. c.rows[j] = s.rows[s.reg[j]]
    BY <1>10, <2>1 DEF Matches
  <2> QED BY <1>5, <1>6, <2>1, <2>2
<1> QED BY <1>6, <1>8, <1>9, <1>10 DEF Matches

\* A mutation.
LEMMA MutMatches ==
    ASSUME NEW c \in Catalogs, NEW s \in Mirrors, Consistent(s), Matches(c, s),
           NEW i \in Id, NEW n \in Lsn, NEW t, Filled(s, t, i, n), t.ok
    PROVE  Matches(Written(c, i, n), t)
<1> DEFINE d == Written(c, i, n)
           x == s.reg[i]
<1>1. /\ s.reg \in [Id -> Slots] /\ s.rows \in [Name -> RowSets] /\ c.rows \in [Id -> SUBSET Lsn]
  BY DEF Mirrors, Catalogs
<1>2. d.byID = c.byID /\ d.byName = c.byName /\ d.rows = [c.rows EXCEPT ![i] = @ \cup {n}]
  BY WrittenIs
<1>3. t.reg = s.reg /\ x \in Name /\ t.rows = [s.rows EXCEPT ![x] = @ \cup {n}]
  BY DEF Filled
<1> HIDE DEF d
<1>4. ASSUME NEW j \in Id, t.reg[j] # None PROVE d.rows[j] = t.rows[t.reg[j]]
  <2>1. s.reg[j] \in Name /\ c.rows[j] = s.rows[s.reg[j]] /\ t.reg[j] = s.reg[j]
    BY <1>1, <1>3, <1>4 DEF Matches, Slots
  <2>2. s.reg[j] = x <=> j = i
    BY <1>3, NoneIsNoName DEF Consistent
  <2> HIDE DEF x
  <2>3. d.rows[j] = IF j = i THEN c.rows[j] \cup {n} ELSE c.rows[j]
    BY <1>1, <1>2
  <2>4. t.rows[s.reg[j]] = IF s.reg[j] = x THEN s.rows[s.reg[j]] \cup {n} ELSE s.rows[s.reg[j]]
    BY <1>1, <1>3, <2>1
  <2> QED BY <2>1, <2>2, <2>3, <2>4
<1>5. Matches(d, t)
  <2>1. /\ Len(Boot) <= Len(d.byID)
        /\ \A j \in Id : t.reg[j] = IF j <= Len(d.byID) THEN d.byID[j] ELSE None
        /\ \A y \in Name, j \in Id : d.byName[y] = j <=> t.reg[j] = y
    <3> HIDE DEF x
    <3>1. d.byID = c.byID /\ d.byName = c.byName /\ t.reg = s.reg
      BY <1>2, <1>3
    <3> QED BY <3>1 DEF Matches
  <2> QED BY <1>4, <2>1 DEF Matches
<1> QED BY <1>5 DEF d

----------------------------------------------------------------------------
(* The replay.                                                             *)

\* What each record does to a replay that is well.
LEMMA ReplayRecord ==
    ASSUME NEW r \in Replays, NEW rec \in Record, r.ok
    PROVE  /\ rec.op = "create" => ReplayApply(r, rec) = [cat |-> WithTable(r.cat, rec.id, rec.name), ok |-> TRUE]
           /\ rec.op = "drop" => ReplayApply(r, rec) = [cat |-> WithoutTable(r.cat, rec.name), ok |-> TRUE]
           /\ rec.op = "mut" /\ Live(r.cat, rec.id) =>
                 ReplayApply(r, rec) = [cat |-> Written(r.cat, rec.id, rec.lsn), ok |-> TRUE]
           /\ rec.op = "mut" /\ ~Live(r.cat, rec.id) => ReplayApply(r, rec) = [cat |-> r.cat, ok |-> FALSE]
<1>1. r \in [cat : Catalogs, ok : BOOLEAN] /\ r = [cat |-> r.cat, ok |-> TRUE]
  BY DEF Replays
<1>2. ASSUME rec.op = "create" PROVE ReplayApply(r, rec) = [cat |-> WithTable(r.cat, rec.id, rec.name), ok |-> TRUE]
  <2> DEFINE d == WithTable(r.cat, rec.id, rec.name)
  <2>1. ReplayApply(r, rec) = [r EXCEPT !.cat = d]
    BY <1>2 DEF ReplayApply
  <2> HIDE DEF d
  <2>2. ReplayApply(r, rec) = [cat |-> d, ok |-> TRUE]
    BY <1>1, <2>1
  <2> QED BY <2>2 DEF d
<1>3. ASSUME rec.op = "drop" PROVE ReplayApply(r, rec) = [cat |-> WithoutTable(r.cat, rec.name), ok |-> TRUE]
  <2> DEFINE d == WithoutTable(r.cat, rec.name)
  <2>1. ReplayApply(r, rec) = [r EXCEPT !.cat = d]
    BY <1>3 DEF ReplayApply
  <2> HIDE DEF d
  <2>2. ReplayApply(r, rec) = [cat |-> d, ok |-> TRUE]
    BY <1>1, <2>1
  <2> QED BY <2>2 DEF d
<1>4. ASSUME rec.op = "mut", Live(r.cat, rec.id)
      PROVE  ReplayApply(r, rec) = [cat |-> Written(r.cat, rec.id, rec.lsn), ok |-> TRUE]
  <2> DEFINE d == Written(r.cat, rec.id, rec.lsn)
  <2>1. ReplayApply(r, rec) = [r EXCEPT !.cat.rows[rec.id] = @ \cup {rec.lsn}]
    BY <1>4 DEF ReplayApply
  <2>2. ReplayApply(r, rec) = [r EXCEPT !.cat = d]
    BY <2>1, Zenon DEF Written
  <2> HIDE DEF d
  <2>3. ReplayApply(r, rec) = [cat |-> d, ok |-> TRUE]
    BY <1>1, <2>2
  <2> QED BY <2>3 DEF d
<1>5. ASSUME rec.op = "mut", ~Live(r.cat, rec.id) PROVE ReplayApply(r, rec) = [cat |-> r.cat, ok |-> FALSE]
  <2>1. ReplayApply(r, rec) = [r EXCEPT !.ok = FALSE]
    BY <1>5 DEF ReplayApply
  <2> QED BY <1>1, <2>1
<1> QED BY <1>2, <1>3, <1>4, <1>5

\* A replay leads from a catalog to a catalog.
LEMMA ReplayCloses == ReplayFold!Closed
<1> SUFFICES ASSUME NEW r \in Replays, NEW rec \in Record PROVE ReplayApply(r, rec) \in Replays
  BY DEF ReplayFold!Closed
<1>0. \A d \in Catalogs, b \in BOOLEAN : [cat |-> d, ok |-> b] \in Replays
  BY DEF Replays
<1>1. CASE ~r.ok
  BY <1>1 DEF ReplayApply
<1>2. CASE r.ok
  <2>1. r.cat \in Catalogs
    BY DEF Replays
  <2>2. CASE rec.op = "create"
    <3>1. WithTable(r.cat, rec.id, rec.name) \in Catalogs
      BY <2>1, <2>2, RecordIs, WithTableAdds DEF Added
    <3> QED BY <1>0, <1>2, <2>2, <3>1, ReplayRecord
  <2>3. CASE rec.op = "drop"
    <3>1. WithoutTable(r.cat, rec.name) \in Catalogs
      BY <2>1, <2>3, RecordIs, WithoutTableRemoves DEF Removed
    <3> QED BY <1>0, <1>2, <2>3, <3>1, ReplayRecord
  <2>4. CASE rec.op = "mut"
    <3>1. Written(r.cat, rec.id, rec.lsn) \in Catalogs
      BY <2>1, <2>4, RecordIs, WrittenIs
    <3>2. CASE Live(r.cat, rec.id)
      BY <1>0, <1>2, <2>4, <3>1, <3>2, ReplayRecord
    <3>3. CASE ~Live(r.cat, rec.id)
      BY <1>0, <1>2, <2>1, <2>4, <3>3, ReplayRecord
    <3> QED BY <3>2, <3>3
  <2> QED BY <2>2, <2>3, <2>4, RecordIs
<1> QED BY <1>1, <1>2

\* Memory follows SQLite over a record.
LEMMA ReplayMatches ==
    ASSUME NEW r \in Replays, NEW s \in Mirrors, r.ok, Matches(r.cat, s), Consistent(s),
           NEW rec \in Record, Effect(s, rec).ok
    PROVE  ReplayApply(r, rec).ok /\ Matches(ReplayApply(r, rec).cat, Effect(s, rec))
<1>1. r.cat \in Catalogs
  BY DEF Replays
<1>2. CASE rec.op = "create"
  <2>1. rec.id \in Id /\ rec.name \in Name
    BY <1>2, RecordIs
  <2>2. Matches(WithTable(r.cat, rec.id, rec.name), Effect(s, rec))
    BY <1>1, <1>2, <2>1, WithTableAdds, EffectCreate, CreateMatches
  <2> QED BY <1>2, <2>2, ReplayRecord
<1>3. CASE rec.op = "drop"
  <2>1. rec.name \in Name
    BY <1>3, RecordIs
  <2>2. Matches(WithoutTable(r.cat, rec.name), Effect(s, rec))
    BY <1>1, <1>3, <2>1, WithoutTableRemoves, EffectDrop, DropMatches
  <2> QED BY <1>3, <2>2, ReplayRecord
<1>4. CASE rec.op = "mut"
  <2>1. rec.id \in Id /\ rec.lsn \in Lsn /\ Filled(s, Effect(s, rec), rec.id, rec.lsn)
    BY <1>4, RecordIs, EffectMut
  <2>2. Live(r.cat, rec.id)
    <3>1. s.reg[rec.id] # None
      BY <2>1, NoneIsNoName DEF Filled
    <3> QED BY <1>1, <2>1, <3>1, LiveIsRegistered
  <2>3. Matches(Written(r.cat, rec.id, rec.lsn), Effect(s, rec))
    BY <1>1, <2>1, MutMatches
  <2> QED BY <1>4, <2>2, <2>3, ReplayRecord
<1> QED BY <1>2, <1>3, <1>4, RecordIs

\* Memory follows SQLite over the log.
LEMMA ReplayFollows ==
    ASSUME NEW c \in Catalogs, NEW s \in Mirrors, Matches(c, s), Consistent(s),
           NEW l \in Seq(Record), Ahead(s, l).ok
    PROVE  /\ ReplayFold!Run([cat |-> c, ok |-> TRUE], l).ok
           /\ Matches(ReplayFold!Run([cat |-> c, ok |-> TRUE], l).cat, Ahead(s, l))
<1> DEFINE n == Len(l)
           v == [cat |-> c, ok |-> TRUE]
           R(k) == ReplayFold!Run(v, SubSeq(l, 1, k))
           S(k) == Ahead(s, SubSeq(l, 1, k))
           X == {k \in Nat : R(k).ok /\ Matches(R(k).cat, S(k))}
<1>1. n \in Nat /\ SubSeq(l, 1, 0) = <<>> /\ SubSeq(l, 1, n) = l
  OBVIOUS
<1>2. v \in Replays /\ v.cat = c /\ v.ok
  BY DEF Replays
<1>3. \A k \in 0..n : S(k) \in Mirrors /\ Consistent(S(k))
  BY PrefixesFine
<1> HIDE DEF v
<1>4. 0 \in X
  <2>1. R(0) = v /\ S(0) = s
    BY <1>1, <1>2, ReplayCloses, ReplayFold!RunEmpty, EffectCloses, EffectFold!RunEmpty DEF Ahead
  <2> QED BY <1>2, <2>1
<1>5. \A k \in 1..n : k - 1 \in X => k \in X
  <2> SUFFICES ASSUME NEW k \in 1..n, k - 1 \in X PROVE k \in X
    OBVIOUS
  <2>1. k - 1 \in 0..n /\ k \in 0..n /\ k \in Nat
    BY <1>1
  <2>2. R(k - 1) \in Replays /\ R(k) = ReplayApply(R(k - 1), l[k])
    BY <1>2, ReplayCloses, ReplayFold!RunPrefix
  <2>3. S(k) = Effect(S(k - 1), l[k]) /\ l[k] \in Record
    BY EffectCloses, EffectFold!RunPrefix DEF Ahead
  <2>4. R(k - 1).ok /\ Matches(R(k - 1).cat, S(k - 1))
    OBVIOUS
  <2>5. /\ S(k - 1) \in Mirrors /\ Consistent(S(k - 1))
        /\ Consistent(S(k))
    BY <1>3, <2>1
  <2> DEFINE a == R(k - 1)
             b == R(k)
             t == S(k - 1)
             u == S(k)
  <2>6. b.ok /\ Matches(b.cat, u)
    <3> HIDE DEF a, b, t, u, R, S
    <3>1. a \in Replays /\ b = ReplayApply(a, l[k]) /\ u = Effect(t, l[k]) /\ l[k] \in Record
      BY <2>2, <2>3 DEF a, b, t, u
    <3>2. a.ok /\ Matches(a.cat, t) /\ t \in Mirrors /\ Consistent(t) /\ u.ok
      BY <2>4, <2>5 DEF a, t, u, Consistent
    <3> QED BY <3>1, <3>2, ReplayMatches
  <2> HIDE DEF R, S
  <2> QED BY <2>1, <2>6
<1>6. n \in X
  <2> HIDE DEF n, X
  <2>1. 0..n \subseteq X
    BY <1>1, <1>4, <1>5, CountUp
  <2> QED BY <1>1, <2>1
<1> QED BY <1>1, <1>6 DEF v

----------------------------------------------------------------------------
(* The drain.                                                              *)

\* A SQLite transaction by its parts.
Tx(f, g, h, b) == [sq |-> [reg |-> f, rows |-> g], tables |-> h, ok |-> b]

\* A transaction is made of the two registries and the tables.
LEMMA TxIs ==
    /\ \A f \in [Id -> Slots], g \in [Name -> RowSets], h \in [Id -> Slots], b \in BOOLEAN : Tx(f, g, h, b) \in Runs
    /\ \A m \in Runs : /\ m.sq.reg \in [Id -> Slots] /\ m.sq.rows \in [Name -> RowSets] /\ m.tables \in [Id -> Slots]
                       /\ m.ok \in BOOLEAN
                       /\ m = Tx(m.sq.reg, m.sq.rows, m.tables, m.ok)
<1>1. \A f \in [Id -> Slots], g \in [Name -> RowSets], h \in [Id -> Slots], b \in BOOLEAN : Tx(f, g, h, b) \in Runs
  BY DEF Tx, Runs, Lites, Slots, RowSets
<1>2. ASSUME NEW m \in Runs
      PROVE  /\ m.sq.reg \in [Id -> Slots] /\ m.sq.rows \in [Name -> RowSets] /\ m.tables \in [Id -> Slots]
             /\ m.ok \in BOOLEAN
             /\ m = Tx(m.sq.reg, m.sq.rows, m.tables, m.ok)
  <2>1. m.sq \in [reg : [Id -> Slots], rows : [Name -> RowSets]] /\ m.tables \in [Id -> Slots] /\ m.ok \in BOOLEAN
    BY DEF Runs, Lites, Slots, RowSets
  <2>2. m.sq = [reg |-> m.sq.reg, rows |-> m.sq.rows]
    BY <2>1
  <2>3. m = [sq |-> m.sq, tables |-> m.tables, ok |-> m.ok]
    BY DEF Runs
  <2> QED BY <2>1, <2>2, <2>3 DEF Tx
<1> QED BY <1>1, <1>2

\* Fields of a transaction change one by one.
LEMMA TxUpdate ==
    ASSUME NEW m \in Runs, NEW u \in Lites, NEW v \in [Id -> Slots]
    PROVE  /\ [m EXCEPT !.sq = u] = [sq |-> u, tables |-> m.tables, ok |-> m.ok]
           /\ [m EXCEPT !.sq = u, !.tables = v] = [sq |-> u, tables |-> v, ok |-> m.ok]
<1>1. m.ok \in BOOLEAN /\ m.tables \in [Id -> Slots] /\ m \in [sq : Lites, tables : [Id -> Slots], ok : BOOLEAN]
  BY DEF Runs
<1>2. [m EXCEPT !.sq = u] = [sq |-> u, tables |-> m.tables, ok |-> m.ok]
  BY <1>1
<1> DEFINE d == [m EXCEPT !.sq = u, !.tables = v]
<1>3. d \in Runs /\ d.sq = u /\ d.tables = v /\ (d.ok <=> m.ok)
  BY <1>1 DEF Runs
<1>4. \A r \in Runs : r = [sq |-> r.sq, tables |-> r.tables, ok |-> r.ok]
  BY DEF Runs
<1>5. d.ok = m.ok
  BY <1>1, <1>3 DEF Runs
<1> HIDE DEF d
<1>6. d = [sq |-> u, tables |-> v, ok |-> m.ok]
  BY <1>3, <1>4, <1>5, Zenon
<1> QED BY <1>2, <1>6 DEF d

\* What the three records make of the fields of a transaction.
Creates(f, g, h, i, x) ==
    Tx([f EXCEPT ![i] = x], [g EXCEPT ![x] = IF g[x] = Missing THEN {} ELSE g[x]], [h EXCEPT ![i] = x], TRUE)
Drops(f, g, h, x) ==
    IF {i \in Id : h[i] = x} = {} THEN {Tx(f, [g EXCEPT ![x] = Missing], h, TRUE)}
    ELSE {Tx([f EXCEPT ![i] = None], [g EXCEPT ![x] = Missing], [h EXCEPT ![i] = None], TRUE) : i \in {i \in Id : h[i] = x}}
Mutates(f, g, h, i, n) ==
    IF h[i] # None /\ g[h[i]] # Missing THEN Tx(f, [g EXCEPT ![h[i]] = @ \cup {n}], h, TRUE) ELSE Tx(f, g, h, FALSE)

\* CREATE.
LEMMA TxCreate ==
    ASSUME NEW f \in [Id -> Slots], NEW g \in [Name -> RowSets], NEW h \in [Id -> Slots], NEW i \in Id, NEW x \in Name
    PROVE  MirrorCreate(Tx(f, g, h, TRUE), i, x) = Creates(f, g, h, i, x)
<1> DEFINE m == Tx(f, g, h, TRUE)
           u == Register(m.sq, i, x)
           k == [h EXCEPT ![i] = x]
<1>1. /\ m.sq = [reg |-> f, rows |-> g] /\ m.tables = h /\ m.sq.reg = f /\ m.sq.rows = g
      /\ m.ok = TRUE /\ m \in [sq : Lites, tables : [Id -> Slots], ok : BOOLEAN]
  <2>1. m \in Runs
    BY TxIs
  <2> QED BY <2>1 DEF Tx, Runs
<1>2. u = [reg |-> [f EXCEPT ![i] = x], rows |-> [g EXCEPT ![x] = IF g[x] = Missing THEN {} ELSE g[x]]]
  <2> HIDE DEF m
  <2> QED BY <1>1 DEF Register
<1>3. MirrorCreate(m, i, x) = [m EXCEPT !.sq = u, !.tables = k]
  <2> HIDE DEF m
  <2>1. k = [m.tables EXCEPT ![i] = x]
    BY <1>1
  <2> HIDE DEF k
  <2> QED BY <2>1, Zenon DEF MirrorCreate
<1> HIDE DEF u, k, m
<1>4. MirrorCreate(m, i, x) = [sq |-> u, tables |-> k, ok |-> TRUE]
  BY <1>1, <1>3
<1> QED BY <1>2, <1>4 DEF Tx, k, m, Creates

\* DROP, with every number the drain may meet first.
LEMMA TxDrop ==
    ASSUME NEW f \in [Id -> Slots], NEW g \in [Name -> RowSets], NEW h \in [Id -> Slots], NEW x \in Name
    PROVE  MirrorDrop(Tx(f, g, h, TRUE), x) = Drops(f, g, h, x)
<1> DEFINE m == Tx(f, g, h, TRUE)
           ids == {i \in Id : h[i] = x}
           w == [g EXCEPT ![x] = Missing]
           gone == Tx(f, w, h, TRUE)
           left(i) == Tx([f EXCEPT ![i] = None], w, [h EXCEPT ![i] = None], TRUE)
<1>1. /\ m.sq = [reg |-> f, rows |-> g] /\ m.tables = h /\ m.sq.reg = f /\ m.sq.rows = g
      /\ m.ok = TRUE /\ m \in [sq : Lites, tables : [Id -> Slots], ok : BOOLEAN]
  <2>1. m \in Runs
    BY TxIs
  <2> QED BY <2>1 DEF Tx, Runs
<1>2. [m EXCEPT !.sq.rows[x] = Missing] = gone
  <2> DEFINE u == [m.sq EXCEPT !.rows = w]
  <2>1. [m EXCEPT !.sq.rows[x] = Missing] = [m EXCEPT !.sq = u]
    <3>1. w = [m.sq.rows EXCEPT ![x] = Missing]
      BY <1>1
    <3> HIDE DEF m, w
    <3> QED BY <3>1, Zenon
  <2>2. u = [reg |-> f, rows |-> w]
    <3> HIDE DEF m, w
    <3>1. m.sq = [reg |-> f, rows |-> g]
      BY <1>1
    <3>2. [[reg |-> f, rows |-> g] EXCEPT !.rows = w] = [reg |-> f, rows |-> w]
      OBVIOUS
    <3> QED BY <3>1, <3>2, Zenon
  <2> HIDE DEF u, m, w
  <2>3. [m EXCEPT !.sq = u] = [sq |-> u, tables |-> h, ok |-> TRUE]
    <3>1. m \in Runs /\ u \in Lites
      <4>1. w \in [Name -> RowSets]
        BY DEF w, RowSets
      <4> QED BY <1>1, <2>2, <4>1 DEF Lites, Slots, RowSets, Runs
    <3> QED BY <1>1, <3>1, TxUpdate
  <2> QED BY <2>1, <2>2, <2>3 DEF Tx
<1>3. ASSUME NEW i \in Id PROVE [gone EXCEPT !.sq.reg[i] = None, !.tables[i] = None] = left(i)
  <2> DEFINE a == [f EXCEPT ![i] = None]
             b == [h EXCEPT ![i] = None]
             u == [gone.sq EXCEPT !.reg = a]
  <2>1. /\ gone.sq = [reg |-> f, rows |-> w] /\ gone.tables = h /\ gone.sq.reg = f /\ gone.sq.rows = w
        /\ gone.ok = TRUE /\ gone \in [sq : Lites, tables : [Id -> Slots], ok : BOOLEAN]
    <3>1. gone \in Runs
      <4>1. w \in [Name -> RowSets]
        BY DEF RowSets
      <4> HIDE DEF w
      <4> QED BY <4>1, TxIs
    <3> QED BY <3>1 DEF Tx, Runs
  <2>2. [gone EXCEPT !.sq.reg[i] = None, !.tables[i] = None] = [gone EXCEPT !.sq = u, !.tables = b]
    <3>1. a = [gone.sq.reg EXCEPT ![i] = None] /\ b = [gone.tables EXCEPT ![i] = None]
      BY <2>1
    <3> HIDE DEF gone, a, b
    <3> QED BY <3>1, Zenon
  <2>3. u = [reg |-> a, rows |-> w]
    <3> HIDE DEF gone, a, w
    <3>1. gone.sq = [reg |-> f, rows |-> w]
      BY <2>1
    <3>2. [[reg |-> f, rows |-> w] EXCEPT !.reg = a] = [reg |-> a, rows |-> w]
      OBVIOUS
    <3> QED BY <3>1, <3>2, Zenon
  <2> HIDE DEF u, gone, a, b, w
  <2>4. [gone EXCEPT !.sq = u, !.tables = b] = [sq |-> u, tables |-> b, ok |-> TRUE]
    <3>1. w \in [Name -> RowSets] /\ a \in [Id -> Slots] /\ b \in [Id -> Slots]
      BY DEF w, a, b, RowSets, Slots
    <3>2. gone \in Runs /\ u \in Lites
      BY <2>1, <2>3, <3>1 DEF Lites, Slots, RowSets, Runs
    <3>3. [gone EXCEPT !.sq = u, !.tables = b] = [sq |-> u, tables |-> b, ok |-> gone.ok]
      BY <3>1, <3>2, TxUpdate, Zenon
    <3>4. gone.ok = TRUE
      BY <2>1
    <3> QED BY <3>3, <3>4, Zenon
  <2> QED BY <2>2, <2>3, <2>4 DEF Tx, a, b
<1>4. ids = {i \in Id : m.tables[i] = x}
  BY <1>1
<1> HIDE DEF m, w, gone
<1>5. MirrorDrop(m, x) = IF ids = {} THEN {gone} ELSE {[gone EXCEPT !.sq.reg[i] = None, !.tables[i] = None] : i \in ids}
  BY <1>2, <1>4, Zenon DEF MirrorDrop
<1>6. \A i \in ids : [gone EXCEPT !.sq.reg[i] = None, !.tables[i] = None] = left(i)
  BY <1>3
<1>7. {[gone EXCEPT !.sq.reg[i] = None, !.tables[i] = None] : i \in ids} = {left(i) : i \in ids}
  BY <1>6
<1> QED BY <1>5, <1>7 DEF m, w, gone, Drops

\* A mutation.
LEMMA TxMut ==
    ASSUME NEW f \in [Id -> Slots], NEW g \in [Name -> RowSets], NEW h \in [Id -> Slots], NEW i \in Id, NEW n \in Lsn
    PROVE  MirrorMutate(Tx(f, g, h, TRUE), i, n) = Mutates(f, g, h, i, n)
<1> DEFINE m == Tx(f, g, h, TRUE)
           x == h[i]
           w == [g EXCEPT ![x] = @ \cup {n}]
<1>1. /\ m.sq = [reg |-> f, rows |-> g] /\ m.tables = h /\ m.sq.reg = f /\ m.sq.rows = g /\ m.ok = TRUE /\ m \in Runs
  BY TxIs DEF Tx
<1>2. CASE x # None /\ g[x] # Missing
  <2> DEFINE u == [m.sq EXCEPT !.rows = w]
  <2>1. x \in Name /\ g[x] \in SUBSET Lsn
    BY <1>2 DEF Slots, RowSets
  <2>2. w \in [Name -> RowSets]
    BY <2>1 DEF RowSets
  <2>3. [m EXCEPT !.sq.rows[x] = @ \cup {n}] = [m EXCEPT !.sq = u]
    <3>1. w = [m.sq.rows EXCEPT ![x] = @ \cup {n}]
      BY <1>1
    <3> HIDE DEF m, w, x
    <3> QED BY <3>1, Zenon
  <2>4. u = [reg |-> f, rows |-> w]
    <3> HIDE DEF m, w
    <3>1. m.sq = [reg |-> f, rows |-> g]
      BY <1>1
    <3>2. [[reg |-> f, rows |-> g] EXCEPT !.rows = w] = [reg |-> f, rows |-> w]
      OBVIOUS
    <3> QED BY <3>1, <3>2, Zenon
  <2> HIDE DEF u, m, w, x
  <2>5. [m EXCEPT !.sq = u] = [sq |-> u, tables |-> h, ok |-> TRUE]
    <3>1. u \in Lites
      BY <2>2, <2>4 DEF Lites, Slots, RowSets
    <3>2. [m EXCEPT !.sq = u] = [sq |-> u, tables |-> m.tables, ok |-> m.ok]
      BY <1>1, <3>1, TxUpdate
    <3>3. m.tables = h /\ m.ok = TRUE
      BY <1>1
    <3> QED BY <3>2, <3>3, Zenon
  <2>6. MirrorMutate(m, i, n) = [m EXCEPT !.sq.rows[x] = @ \cup {n}]
    <3>1. m.tables[i] = x /\ x # None /\ m.sq.rows[x] # Missing
      BY <1>1, <1>2 DEF x
    <3> QED BY <3>1, Zenon DEF MirrorMutate
  <2>7. MirrorMutate(m, i, n) = Tx(f, w, h, TRUE)
    BY <2>3, <2>4, <2>5, <2>6 DEF Tx
  <2> QED BY <1>2, <2>7 DEF m, w, x, Mutates
<1>3. CASE ~(x # None /\ g[x] # Missing)
  <2>1. MirrorMutate(m, i, n) = [m EXCEPT !.ok = FALSE]
    <3>1. ~(m.tables[i] # None /\ m.sq.rows[m.tables[i]] # Missing)
      BY <1>1, <1>3
    <3> HIDE DEF m, w, x
    <3> QED BY <3>1, Zenon DEF MirrorMutate
  <2> HIDE DEF m
  <2> DEFINE d == [m EXCEPT !.ok = FALSE]
  <2>2. d \in Runs /\ d.sq = m.sq /\ d.tables = m.tables /\ d.ok = FALSE
    BY <1>1 DEF Runs
  <2>3. d = Tx(d.sq.reg, d.sq.rows, d.tables, d.ok)
    BY <2>2, TxIs
  <2> HIDE DEF d
  <2>4. d = Tx(f, g, h, FALSE)
    BY <1>1, <2>2, <2>3
  <2> QED BY <1>3, <2>1, <2>4 DEF d, m, x, Mutates
<1> QED BY <1>2, <1>3

\* A record leads from a transaction to transactions.
LEMMA MirrorTypes ==
    ASSUME NEW m \in Runs, NEW rec \in Record
    PROVE  MirrorApply(m, rec) \in SUBSET Runs
<1>1. CASE ~m.ok
  BY <1>1 DEF MirrorApply
<1>2. CASE m.ok
  <2> DEFINE f == m.sq.reg
             g == m.sq.rows
             h == m.tables
  <2>1. f \in [Id -> Slots] /\ g \in [Name -> RowSets] /\ h \in [Id -> Slots] /\ m = Tx(f, g, h, TRUE)
    BY <1>2, TxIs
  <2> HIDE DEF f, g, h
  <2>2. CASE rec.op = "create"
    <3>1. rec.id \in Id /\ rec.name \in Name
      BY <2>2, RecordIs
    <3>2. /\ [f EXCEPT ![rec.id] = rec.name] \in [Id -> Slots]
          /\ [h EXCEPT ![rec.id] = rec.name] \in [Id -> Slots]
          /\ [g EXCEPT ![rec.name] = IF g[rec.name] = Missing THEN {} ELSE g[rec.name]] \in [Name -> RowSets]
      BY <2>1, <3>1 DEF Slots, RowSets
    <3>3. MirrorCreate(m, rec.id, rec.name) \in Runs
      <4>1. MirrorCreate(m, rec.id, rec.name) = Creates(f, g, h, rec.id, rec.name)
        BY <2>1, <3>1, TxCreate
      <4>2. Creates(f, g, h, rec.id, rec.name) \in Runs
        BY <3>2, TxIs DEF Creates
      <4> QED BY <4>1, <4>2
    <3>4. MirrorApply(m, rec) = {MirrorCreate(m, rec.id, rec.name)}
      BY <1>2, <2>2 DEF MirrorApply
    <3> QED BY <3>3, <3>4
  <2>3. CASE rec.op = "drop"
    <3>1. rec.name \in Name
      BY <2>3, RecordIs
    <3>2. [g EXCEPT ![rec.name] = Missing] \in [Name -> RowSets]
      BY <2>1 DEF RowSets
    <3>3. \A i \in Id : [f EXCEPT ![i] = None] \in [Id -> Slots] /\ [h EXCEPT ![i] = None] \in [Id -> Slots]
      BY <2>1 DEF Slots
    <3>4. Tx(f, [g EXCEPT ![rec.name] = Missing], h, TRUE) \in Runs
      BY <2>1, <3>2, TxIs
    <3>5. \A i \in Id : Tx([f EXCEPT ![i] = None], [g EXCEPT ![rec.name] = Missing], [h EXCEPT ![i] = None], TRUE) \in Runs
      BY <3>2, <3>3, TxIs
    <3>6. MirrorDrop(m, rec.name) \in SUBSET Runs
      <4>1. MirrorDrop(m, rec.name) = Drops(f, g, h, rec.name)
        BY <2>1, <3>1, TxDrop
      <4>2. Drops(f, g, h, rec.name) \in SUBSET Runs
        BY <3>4, <3>5 DEF Drops
      <4> QED BY <4>1, <4>2
    <3>7. MirrorApply(m, rec) = MirrorDrop(m, rec.name)
      BY <1>2, <2>3 DEF MirrorApply
    <3> QED BY <3>6, <3>7
  <2>4. CASE rec.op = "mut"
    <3>1. rec.id \in Id /\ rec.lsn \in Lsn
      BY <2>4, RecordIs
    <3>2. MirrorMutate(m, rec.id, rec.lsn) \in Runs
      <4>1. MirrorMutate(m, rec.id, rec.lsn) = Mutates(f, g, h, rec.id, rec.lsn)
        BY <2>1, <3>1, TxMut
      <4>2. CASE h[rec.id] # None /\ g[h[rec.id]] # Missing
        <5>1. h[rec.id] \in Name /\ g[h[rec.id]] \in SUBSET Lsn
          BY <2>1, <3>1, <4>2 DEF Slots, RowSets
        <5> DEFINE w == [g EXCEPT ![h[rec.id]] = @ \cup {rec.lsn}]
        <5>2. w \in [Name -> RowSets]
          BY <2>1, <3>1, <5>1 DEF RowSets
        <5>3. Mutates(f, g, h, rec.id, rec.lsn) = Tx(f, w, h, TRUE)
          BY <4>2 DEF Mutates
        <5> HIDE DEF w
        <5>4. Tx(f, w, h, TRUE) \in Runs
          BY <2>1, <5>2, TxIs
        <5> QED BY <4>1, <5>3, <5>4
      <4>3. CASE ~(h[rec.id] # None /\ g[h[rec.id]] # Missing)
        <5>1. Mutates(f, g, h, rec.id, rec.lsn) = Tx(f, g, h, FALSE)
          BY <4>3 DEF Mutates
        <5>2. Tx(f, g, h, FALSE) \in Runs
          BY <2>1, TxIs
        <5> QED BY <4>1, <5>1, <5>2
      <4> QED BY <4>2, <4>3
    <3>3. MirrorApply(m, rec) = {MirrorMutate(m, rec.id, rec.lsn)}
      BY <1>2, <2>4 DEF MirrorApply
    <3> QED BY <3>2, <3>3
  <2> QED BY <2>2, <2>3, <2>4, RecordIs
<1> QED BY <1>1, <1>2

\* A step of the drain leads from transactions to transactions.
LEMMA MirrorCloses == RunFold!Closed
<1> SUFFICES ASSUME NEW S \in SUBSET Runs, NEW rec \in Record PROVE MirrorStep(S, rec) \in SUBSET Runs
  BY DEF RunFold!Closed
<1>1. \A m \in S : MirrorApply(m, rec) \in SUBSET Runs
  BY MirrorTypes
<1> QED BY <1>1 DEF MirrorStep

\* A transaction in which nothing went wrong.
Fine(s) == Tx(s.reg, s.rows, s.reg, TRUE)

\* The drain does to SQLite what Effect says, and has no choice.
LEMMA MirrorExact ==
    ASSUME NEW s \in Mirrors, Consistent(s), NEW rec \in Record, Effect(s, rec).ok
    PROVE  MirrorStep({Fine(s)}, rec) = {Fine(Effect(s, rec))}
<1> DEFINE t == Effect(s, rec)
           m == Fine(s)
<1>1. s.reg \in [Id -> Slots] /\ s.rows \in [Name -> RowSets]
  BY DEF Mirrors
<1>2. m.ok = TRUE
  BY DEF Fine, Tx
<1>3. MirrorStep({m}, rec) = MirrorApply(m, rec)
  <2> HIDE DEF m
  <2> QED BY DEF MirrorStep
<1>4. CASE rec.op = "create"
  <2> DEFINE i == rec.id
             x == rec.name
  <2>1. i \in Id /\ x \in Name /\ Made(s, t, i, x)
    BY <1>4, RecordIs, EffectCreate
  <2>2. MirrorApply(m, rec) = {MirrorCreate(m, i, x)}
    <3> HIDE DEF m
    <3> QED BY <1>2, <1>4 DEF MirrorApply
  <2> HIDE DEF t, i, x
  <2>3. t.reg = [s.reg EXCEPT ![i] = x] /\ t.rows = [s.rows EXCEPT ![x] = {}] /\ s.rows[x] = Missing
    BY <2>1 DEF Made, t
  <2>4. MirrorCreate(m, i, x) = Creates(s.reg, s.rows, s.reg, i, x)
    BY <1>1, <2>1, TxCreate DEF Fine
  <2>5. MirrorCreate(m, i, x) = Fine(t)
    BY <2>3, <2>4 DEF Fine, Creates
  <2> HIDE DEF m
  <2>6. MirrorStep({m}, rec) = {Fine(t)}
    BY <1>3, <2>2, <2>5
  <2> QED BY <2>6 DEF m, t
<1>5. CASE rec.op = "drop"
  <2> DEFINE x == rec.name
             ids == {i \in Id : s.reg[i] = x}
  <2>1. x \in Name /\ Unmade(s, t, x)
    BY <1>5, RecordIs, EffectDrop
  <2>2. MirrorApply(m, rec) = MirrorDrop(m, x)
    <3> HIDE DEF m
    <3> QED BY <1>2, <1>5 DEF MirrorApply
  <2>3. \E k \in Id : s.reg[k] = x
    <3>1. s.rows[x] # Missing
      BY <2>1 DEF Unmade
    <3> HIDE DEF t, x
    <3> QED BY <2>1, <3>1 DEF Consistent
  <2>4. PICK k \in Id : s.reg[k] = x
    BY <2>3
  <2>5. \A i \in Id : s.reg[i] = x => i = k
    BY <2>1, <2>4, NoneIsNoName DEF Consistent
  <2>6. ids = {k}
    BY <2>4, <2>5
  <2> HIDE DEF t, x
  <2>7. t.reg = [i \in Id |-> IF s.reg[i] = x THEN None ELSE s.reg[i]] /\ t.rows = [s.rows EXCEPT ![x] = Missing]
    BY <2>1 DEF Unmade
  <2>8. t.reg = [s.reg EXCEPT ![k] = None]
    BY <1>1, <2>4, <2>5, <2>7
  <2>9. MirrorDrop(m, x) = Drops(s.reg, s.rows, s.reg, x)
    BY <1>1, <2>1, TxDrop DEF Fine
  <2>10. Drops(s.reg, s.rows, s.reg, x) =
            {Tx([s.reg EXCEPT ![k] = None], [s.rows EXCEPT ![x] = Missing], [s.reg EXCEPT ![k] = None], TRUE)}
    BY <2>6 DEF Drops
  <2>11. MirrorDrop(m, x) = {Fine(t)}
    BY <2>7, <2>8, <2>9, <2>10 DEF Fine
  <2> HIDE DEF m
  <2>12. MirrorStep({m}, rec) = {Fine(t)}
    BY <1>3, <2>2, <2>11
  <2> QED BY <2>12 DEF m, t
<1>6. CASE rec.op = "mut"
  <2> DEFINE i == rec.id
             x == s.reg[i]
             n == rec.lsn
  <2>1. i \in Id /\ n \in Lsn /\ Filled(s, t, i, n)
    BY <1>6, RecordIs, EffectMut
  <2>2. MirrorApply(m, rec) = {MirrorMutate(m, i, n)}
    <3> HIDE DEF m
    <3> QED BY <1>2, <1>6 DEF MirrorApply
  <2> HIDE DEF t, i, n
  <2>3. t.reg = s.reg /\ x \in Name /\ s.rows[x] # Missing /\ t.rows = [s.rows EXCEPT ![x] = @ \cup {n}]
    BY <2>1 DEF Filled, t
  <2>4. x # None
    BY <2>3, NoneIsNoName
  <2>5. MirrorMutate(m, i, n) = Mutates(s.reg, s.rows, s.reg, i, n)
    BY <1>1, <2>1, TxMut DEF Fine
  <2>6. MirrorMutate(m, i, n) = Fine(t)
    BY <2>3, <2>4, <2>5 DEF Fine, Mutates
  <2> HIDE DEF m
  <2>7. MirrorStep({m}, rec) = {Fine(t)}
    BY <1>3, <2>2, <2>6
  <2> QED BY <2>7 DEF m, t
<1> QED BY <1>4, <1>5, <1>6, RecordIs

\* Over a segment, too, the drain has no choice.
LEMMA RunsExact ==
    ASSUME NEW s \in Mirrors, Consistent(s), NEW l \in Seq(Record), Ahead(s, l).ok
    PROVE  RunFold!Run({Fine(s)}, l) = {Fine(Ahead(s, l))}
<1> DEFINE n == Len(l)
           v == {Fine(s)}
           R(k) == RunFold!Run(v, SubSeq(l, 1, k))
           S(k) == Ahead(s, SubSeq(l, 1, k))
           X == {k \in Nat : R(k) = {Fine(S(k))}}
<1>1. n \in Nat /\ SubSeq(l, 1, 0) = <<>> /\ SubSeq(l, 1, n) = l
  OBVIOUS
<1>2. v \in SUBSET Runs
  <2>1. s.reg \in [Id -> Slots] /\ s.rows \in [Name -> RowSets]
    BY DEF Mirrors
  <2>2. Fine(s) \in Runs
    BY <2>1, TxIs DEF Fine
  <2> QED BY <2>2
<1>3. \A k \in 0..n : S(k) \in Mirrors /\ Consistent(S(k))
  BY PrefixesFine
<1>4. 0 \in X
  <2>1. R(0) = v /\ S(0) = s
    BY <1>1, <1>2, MirrorCloses, RunFold!RunEmpty, EffectCloses, EffectFold!RunEmpty DEF Ahead
  <2> QED BY <2>1
<1>5. \A k \in 1..n : k - 1 \in X => k \in X
  <2> SUFFICES ASSUME NEW k \in 1..n, k - 1 \in X PROVE k \in X
    OBVIOUS
  <2>1. k - 1 \in 0..n /\ k \in 0..n /\ k \in Nat
    BY <1>1
  <2>2. R(k) = MirrorStep(R(k - 1), l[k])
    <3> HIDE DEF v
    <3> QED BY <1>2, MirrorCloses, RunFold!RunPrefix
  <2>3. S(k) = Effect(S(k - 1), l[k]) /\ l[k] \in Record
    BY EffectCloses, EffectFold!RunPrefix DEF Ahead
  <2>4. R(k - 1) = {Fine(S(k - 1))}
    OBVIOUS
  <2>5. S(k - 1) \in Mirrors /\ Consistent(S(k - 1)) /\ Consistent(S(k))
    BY <1>3, <2>1
  <2> DEFINE a == R(k - 1)
             b == R(k)
             t == S(k - 1)
             u == S(k)
  <2>6. b = {Fine(u)}
    <3> HIDE DEF a, b, t, u, R, S
    <3>1. b = MirrorStep(a, l[k]) /\ u = Effect(t, l[k]) /\ l[k] \in Record
      BY <2>2, <2>3 DEF a, b, t, u
    <3>2. a = {Fine(t)} /\ t \in Mirrors /\ Consistent(t) /\ u.ok
      BY <2>4, <2>5 DEF a, t, u, Consistent
    <3> QED BY <3>1, <3>2, MirrorExact
  <2> HIDE DEF R, S
  <2> QED BY <2>1, <2>6
<1>6. n \in X
  <2> HIDE DEF n, X
  <2>1. 0..n \subseteq X
    BY <1>1, <1>4, <1>5, CountUp
  <2> QED BY <1>1, <2>1
<1> QED BY <1>1, <1>6

\* MirrorRuns is such a fold.
LEMMA MirrorRunsIs ==
    ASSUME NEW l
    PROVE  MirrorRuns(l) = RunFold!Run({[sq |-> sq, tables |-> tables, ok |-> TRUE]}, l)
BY DEF MirrorRuns, RunFold!Run, FoldLeft, RunFold!FoldLeft, MapThenFoldSet, RunFold!MapThenFoldSet, Max, RunFold!Max

----------------------------------------------------------------------------
(* The bootstrap tables.                                                   *)

\* The tables of the numbers B are planted in s.
PlantedReg(s, B) == [i \in Id |-> IF i \in B THEN Boot[i] ELSE s.reg[i]]
PlantedRows(s, B) == [x \in Name |-> IF s.rows[x] = Missing /\ \E i \in B : Boot[i] = x THEN {} ELSE s.rows[x]]
Planted(s, B) == [reg |-> PlantedReg(s, B), rows |-> PlantedRows(s, B), ok |-> TRUE]

\* The bootstrap numbers up to k without a table.
Bare(s, k) == {i \in 1..k : s.reg[i] = None}

\* A bootstrap number is a number, and its name a name.
LEMMA BootIs ==
    /\ Len(Boot) \in Nat /\ MaxId \in Nat /\ \A i \in 1..Len(Boot) : i \in Id /\ Boot[i] \in Name
    /\ \A i, j \in 1..Len(Boot) : Boot[i] = Boot[j] => i = j
BY SchemaNames, CatalogBounds DEF Id

\* Seeding leads from a SQLite to a SQLite.
LEMMA SeedCloses == SeedFold!Closed
<1> SUFFICES ASSUME NEW s \in Lites, NEW i \in 1..Len(Boot) PROVE SeedOne(s, i) \in Lites
  BY DEF SeedFold!Closed
<1>1. i \in Id /\ Boot[i] \in Name
  BY BootIs
<1>2. s.reg \in [Id -> Slots] /\ s.rows \in [Name -> RowSets]
  BY DEF Lites, Slots, RowSets
<1> DEFINE x == Boot[i]
           f == [s.reg EXCEPT ![i] = x]
           g == [s.rows EXCEPT ![x] = IF @ = Missing THEN {} ELSE @]
<1>3. f \in [Id -> Slots] /\ g \in [Name -> RowSets]
  BY <1>1, <1>2 DEF Slots, RowSets
<1>4. Register(s, i, x) = [reg |-> f, rows |-> g]
  BY DEF Register
<1> HIDE DEF x, f, g
<1>5. Register(s, i, x) \in Lites
  BY <1>3, <1>4 DEF Lites, Slots, RowSets
<1> QED BY <1>5 DEF SeedOne, x

\* Seeding plants what is missing.
LEMMA SeedingPlants ==
    sq \in Lites =>
        /\ Seeded \in Lites
        /\ Seeded = [reg |-> PlantedReg(sq, Bare(sq, Len(Boot))), rows |-> PlantedRows(sq, Bare(sq, Len(Boot)))]
<1> SUFFICES ASSUME sq \in Lites
             PROVE  /\ Seeded \in Lites
                    /\ Seeded = [reg |-> PlantedReg(sq, Bare(sq, Len(Boot))), rows |-> PlantedRows(sq, Bare(sq, Len(Boot)))]
  OBVIOUS
<1> DEFINE n == Len(Boot)
           l == [i \in 1..n |-> i]
           R(k) == SeedFold!Run(sq, SubSeq(l, 1, k))
           G(k) == [reg |-> PlantedReg(sq, Bare(sq, k)), rows |-> PlantedRows(sq, Bare(sq, k))]
           X == {k \in Nat : R(k) = G(k)}
<1>0. n \in Nat
  BY BootIs
<1>1. l \in Seq(1..n) /\ Len(l) = n /\ (\A k \in 1..n : l[k] = k) /\ SubSeq(l, 1, 0) = <<>> /\ SubSeq(l, 1, n) = l
  BY <1>0
<1>2. Seeded = SeedFold!Run(sq, l)
  BY DEF Seeded, SeedFold!Run, FoldLeft, SeedFold!FoldLeft, MapThenFoldSet, SeedFold!MapThenFoldSet, Max, SeedFold!Max
<1> HIDE DEF l
<1>3. 0 \in X
  <2>1. R(0) = sq
    BY <1>1, SeedCloses, SeedFold!RunEmpty
  <2>2. Bare(sq, 0) = {}
    BY DEF Bare
  <2>3. PlantedReg(sq, {}) = sq.reg /\ PlantedRows(sq, {}) = sq.rows
    BY DEF Lites, PlantedReg, PlantedRows
  <2>4. sq = [reg |-> sq.reg, rows |-> sq.rows]
    BY DEF Lites
  <2> HIDE DEF R
  <2> QED BY <2>1, <2>2, <2>3, <2>4
<1>4. \A k \in 1..n : k - 1 \in X => k \in X
  <2> SUFFICES ASSUME NEW k \in 1..n, k - 1 \in X PROVE k \in X
    OBVIOUS
  <2> DEFINE A == Bare(sq, k - 1)
             B == Bare(sq, k)
  <2>1. R(k) = SeedOne(R(k - 1), k)
    BY <1>1, SeedCloses, SeedFold!RunPrefix
  <2>2. R(k - 1) = G(k - 1)
    OBVIOUS
  <2>3. k \in Id /\ Boot[k] \in Name /\ k \in Nat
    BY BootIs
  <2>4. k \notin A /\ B = IF sq.reg[k] = None THEN A \cup {k} ELSE A
    BY <1>0 DEF Bare
  <2>5. G(k - 1).reg = PlantedReg(sq, A) /\ G(k - 1).rows = PlantedRows(sq, A)
    OBVIOUS
  <2>6. G(k - 1).reg[k] = sq.reg[k]
    BY <2>3, <2>4, <2>5 DEF PlantedReg
  <2> HIDE DEF A, B, R
  <2>7. CASE sq.reg[k] = None
    <3>1. R(k) = [reg |-> [PlantedReg(sq, A) EXCEPT ![k] = Boot[k]],
                  rows |-> [PlantedRows(sq, A) EXCEPT ![Boot[k]] = IF @ = Missing THEN {} ELSE @]]
      BY <2>1, <2>2, <2>5, <2>6, <2>7 DEF SeedOne, Register
    <3>2. [PlantedReg(sq, A) EXCEPT ![k] = Boot[k]] = PlantedReg(sq, B)
      BY <2>3, <2>4, <2>7 DEF PlantedReg
    <3>3. [PlantedRows(sq, A) EXCEPT ![Boot[k]] = IF @ = Missing THEN {} ELSE @] = PlantedRows(sq, B)
      BY <2>3, <2>4, <2>7, MissingIsNoRows DEF PlantedRows
    <3> QED BY <2>3, <3>1, <3>2, <3>3 DEF B
  <2>8. CASE sq.reg[k] # None
    <3>1. R(k) = R(k - 1)
      BY <2>1, <2>2, <2>6, <2>8 DEF SeedOne
    <3>2. A = B
      BY <2>4, <2>8
    <3> QED BY <2>2, <2>3, <3>1, <3>2 DEF A, B
  <2> QED BY <2>7, <2>8
<1>5. n \in X
  <2> HIDE DEF n, X
  <2>1. 0..n \subseteq X
    BY <1>0, <1>3, <1>4, CountUp
  <2> QED BY <1>0, <2>1
<1>6. Seeded \in Lites
  BY <1>1, <1>2, SeedCloses, SeedFold!RunType
<1> QED BY <1>1, <1>2, <1>5, <1>6

\* The numbers B have no table yet, and no table has the name of one of them.
Free(s, B) ==
    /\ B \subseteq 1..Len(Boot)
    /\ \A i \in B : s.reg[i] = None /\ \A j \in Id : s.reg[j] # Boot[i]

\* Planting keeps SQLite consistent.
LEMMA PlantingKeeps ==
    ASSUME NEW s \in Mirrors, Consistent(s), NEW B, Free(s, B)
    PROVE  Planted(s, B) \in Mirrors /\ Consistent(Planted(s, B))
<1> DEFINE p == Planted(s, B)
<1>1. s.reg \in [Id -> Slots] /\ s.rows \in [Name -> RowSets] /\ (\A x \in Name : x # None) /\ {} # Missing
  BY NoneIsNoName, MissingIsNoRows DEF Mirrors
<1>2. \A i \in B : i \in Id /\ Boot[i] \in Name /\ \A j \in B : Boot[i] = Boot[j] => i = j
  BY BootIs DEF Free
<1>3. PlantedReg(s, B) \in [Id -> Slots] /\ PlantedRows(s, B) \in [Name -> RowSets]
  BY <1>1, <1>2 DEF PlantedReg, PlantedRows, Slots, RowSets
<1>4. p \in Mirrors /\ p.reg = PlantedReg(s, B) /\ p.rows = PlantedRows(s, B) /\ p.ok
  BY <1>3 DEF Mirrors, Planted
<1> HIDE DEF p
<1>5. /\ \A i \in Id : p.reg[i] = IF i \in B THEN Boot[i] ELSE s.reg[i]
      /\ \A x \in Name : p.rows[x] = IF s.rows[x] = Missing /\ \E i \in B : Boot[i] = x THEN {} ELSE s.rows[x]
  BY <1>4 DEF PlantedReg, PlantedRows
<1>6. \A i, j \in Id : p.reg[i] = p.reg[j] /\ p.reg[i] # None => i = j
  <2> SUFFICES ASSUME NEW i \in Id, NEW j \in Id, p.reg[i] = p.reg[j], p.reg[i] # None PROVE i = j
    OBVIOUS
  <2>1. CASE i \in B /\ j \in B
    BY <1>2, <1>5, <2>1
  <2>2. CASE i \in B /\ j \notin B
    BY <1>5, <2>2 DEF Free
  <2>3. CASE i \notin B /\ j \in B
    BY <1>5, <2>3 DEF Free
  <2>4. CASE i \notin B /\ j \notin B
    BY <1>5, <2>4 DEF Consistent
  <2> QED BY <2>1, <2>2, <2>3, <2>4
<1>7. \A x \in Name : p.rows[x] = Missing <=> \A i \in Id : p.reg[i] # x
  <2> SUFFICES ASSUME NEW x \in Name PROVE p.rows[x] = Missing <=> \A i \in Id : p.reg[i] # x
    OBVIOUS
  <2>1. s.rows[x] = Missing <=> \A i \in Id : s.reg[i] # x
    BY DEF Consistent
  <2>2. CASE \E i \in B : Boot[i] = x
    BY <1>1, <1>2, <1>5, <2>2
  <2>3. CASE ~\E i \in B : Boot[i] = x
    <3>1. p.rows[x] = s.rows[x]
      BY <1>5, <2>3
    <3>2. \A i \in Id : p.reg[i] = x <=> s.reg[i] = x
      BY <1>1, <1>5, <2>3 DEF Free
    <3> QED BY <2>1, <3>1, <3>2
  <2> QED BY <2>2, <2>3
<1>8. \A i \in 1..Len(Boot) : p.reg[i] \in {None, Boot[i]}
  BY <1>5, BootIs DEF Consistent
<1>9. Consistent(p)
  BY <1>4, <1>6, <1>7, <1>8 DEF Consistent
<1> QED BY <1>4, <1>9 DEF p

\* A record that does not name a planted table is none the wiser.
LEMMA PlantingCommutes ==
    ASSUME NEW s \in Mirrors, Consistent(s), NEW B, Free(s, B), NEW rec \in Record, Effect(s, rec).ok,
           rec.op # "mut" => \A i \in B : Boot[i] # rec.name
    PROVE  Free(Effect(s, rec), B) /\ Effect(Planted(s, B), rec) = Planted(Effect(s, rec), B)
<1> DEFINE t == Effect(s, rec)
           p == Planted(s, B)
           q == Effect(p, rec)
<1>1. /\ s.reg \in [Id -> Slots] /\ s.rows \in [Name -> RowSets] /\ (\A x \in Name : x # None)
      /\ {} # Missing /\ \A r \in SUBSET Lsn : r # Missing
  BY NoneIsNoName, MissingIsNoRows DEF Mirrors
<1>2. /\ \A i \in B : i \in Id /\ Boot[i] \in Name /\ i <= Len(Boot)
      /\ \A i \in Id : i \in Nat
  BY BootIs DEF Free, Id
<1>3. p \in Mirrors /\ p.ok
  BY PlantingKeeps DEF Planted
<1>4. t \in Mirrors /\ t.ok /\ s.ok
  BY EffectIs
<1>5. q \in Mirrors
  BY <1>3, EffectIs
<1>6. /\ \A i \in Id : p.reg[i] = IF i \in B THEN Boot[i] ELSE s.reg[i]
      /\ \A x \in Name : p.rows[x] = IF s.rows[x] = Missing /\ \E i \in B : Boot[i] = x THEN {} ELSE s.rows[x]
      /\ p.reg \in [Id -> Slots] /\ p.rows \in [Name -> RowSets]
  <2>1. p.reg = PlantedReg(s, B) /\ p.rows = PlantedRows(s, B)
    BY DEF Planted
  <2> HIDE DEF p
  <2>2. p.reg \in [Id -> Slots] /\ p.rows \in [Name -> RowSets]
    BY <1>3 DEF Mirrors
  <2> QED BY <2>1, <2>2 DEF PlantedReg, PlantedRows
\* q is t with the tables planted, if it is so number by number and name by name
<1>7. ASSUME q.ok, Free(t, B),
             \A i \in Id : q.reg[i] = IF i \in B THEN Boot[i] ELSE t.reg[i],
             \A x \in Name : q.rows[x] = IF t.rows[x] = Missing /\ \E i \in B : Boot[i] = x THEN {} ELSE t.rows[x]
      PROVE  Free(t, B) /\ q = Planted(t, B)
  <2> HIDE DEF t, q
  <2>1. q.reg \in [Id -> Slots] /\ q.rows \in [Name -> RowSets] /\ q.ok = TRUE
    BY <1>5, <1>7 DEF Mirrors
  <2>2. q.reg = PlantedReg(t, B)
    BY <1>7, <2>1 DEF PlantedReg
  <2>3. q.rows = PlantedRows(t, B)
    BY <1>7, <2>1 DEF PlantedRows
  <2>4. q = [reg |-> q.reg, rows |-> q.rows, ok |-> q.ok]
    BY <1>5 DEF Mirrors
  <2> QED BY <1>7, <2>1, <2>2, <2>3, <2>4 DEF Planted
<1>8. CASE rec.op = "create"
  <2> DEFINE i == rec.id
             x == rec.name
  <2>1. i \in Id /\ x \in Name /\ Made(s, t, i, x) /\ Made(p, q, i, x) /\ \A j \in B : Boot[j] # x
    BY <1>3, <1>8, RecordIs, EffectCreate
  <2> HIDE DEF t, p, q, i, x
  <2>2. s.reg[i] = None /\ s.rows[x] = Missing /\ i > Len(Boot)
    BY <1>4, <2>1 DEF Made
  <2>3. i \notin B
    BY <1>2, <2>1, <2>2, BootIs
  <2>4. q.ok
    BY <1>3, <1>6, <2>1, <2>2, <2>3 DEF Made
  <2>5. \A j \in Id : t.reg[j] = (IF j = i THEN x ELSE s.reg[j]) /\ q.reg[j] = (IF j = i THEN x ELSE p.reg[j])
    BY <1>1, <1>6, <2>1 DEF Made
  <2>6. \A y \in Name : t.rows[y] = (IF y = x THEN {} ELSE s.rows[y]) /\ q.rows[y] = (IF y = x THEN {} ELSE p.rows[y])
    BY <1>1, <1>6, <2>1 DEF Made
  <2>7. Free(t, B)
    BY <1>2, <2>1, <2>3, <2>5 DEF Free
  <2>8. \A j \in Id : q.reg[j] = IF j \in B THEN Boot[j] ELSE t.reg[j]
    BY <1>6, <2>3, <2>5
  <2>9. \A y \in Name : q.rows[y] = IF t.rows[y] = Missing /\ \E j \in B : Boot[j] = y THEN {} ELSE t.rows[y]
    BY <1>1, <1>6, <2>1, <2>6
  <2> QED BY <1>7, <2>4, <2>7, <2>8, <2>9 DEF t, p, q
<1>9. CASE rec.op = "drop"
  <2> DEFINE x == rec.name
  <2>1. x \in Name /\ Unmade(s, t, x) /\ Unmade(p, q, x) /\ \A j \in B : Boot[j] # x
    BY <1>3, <1>9, RecordIs, EffectDrop
  <2> HIDE DEF t, p, q, x
  <2>2. s.rows[x] # Missing
    BY <1>4, <2>1 DEF Unmade
  <2>3. q.ok
    BY <1>3, <1>6, <2>1, <2>2 DEF Unmade
  <2>4. \A j \in Id : t.reg[j] = (IF s.reg[j] = x THEN None ELSE s.reg[j]) /\ q.reg[j] = (IF p.reg[j] = x THEN None ELSE p.reg[j])
    BY <2>1 DEF Unmade
  <2>5. \A y \in Name : t.rows[y] = (IF y = x THEN Missing ELSE s.rows[y]) /\ q.rows[y] = (IF y = x THEN Missing ELSE p.rows[y])
    BY <1>1, <1>6, <2>1 DEF Unmade
  <2>6. Free(t, B)
    BY <1>1, <1>2, <2>1, <2>4 DEF Free
  <2>7. \A j \in Id : q.reg[j] = IF j \in B THEN Boot[j] ELSE t.reg[j]
    BY <1>6, <2>1, <2>4
  <2>8. \A y \in Name : q.rows[y] = IF t.rows[y] = Missing /\ \E j \in B : Boot[j] = y THEN {} ELSE t.rows[y]
    BY <1>6, <2>1, <2>5
  <2> QED BY <1>7, <2>3, <2>6, <2>7, <2>8 DEF t, p, q
<1>10. CASE rec.op = "mut"
  <2> DEFINE i == rec.id
             n == rec.lsn
             x == s.reg[i]
  <2>1. i \in Id /\ n \in Lsn /\ Filled(s, t, i, n) /\ Filled(p, q, i, n)
    BY <1>3, <1>10, RecordIs, EffectMut
  <2> HIDE DEF t, p, q, i, n
  <2>2. t.reg = s.reg /\ x \in Name /\ s.rows[x] # Missing /\ t.rows = [s.rows EXCEPT ![x] = @ \cup {n}]
    BY <1>4, <2>1 DEF Filled
  <2>3. i \notin B /\ \A j \in B : Boot[j] # x
    BY <1>1, <2>1, <2>2 DEF Free
  <2>4. p.reg[i] = x /\ p.rows[x] = s.rows[x]
    BY <1>6, <2>1, <2>2, <2>3
  <2> HIDE DEF x
  <2>5. q.reg = p.reg /\ q.rows = [p.rows EXCEPT ![x] = @ \cup {n}] /\ q.ok
    BY <1>3, <2>1, <2>2, <2>4 DEF Filled
  <2>6. \A y \in Name : /\ t.rows[y] = IF y = x THEN s.rows[y] \cup {n} ELSE s.rows[y]
                        /\ q.rows[y] = IF y = x THEN p.rows[y] \cup {n} ELSE p.rows[y]
    <3>1. s.rows \in [Name -> RowSets] /\ p.rows \in [Name -> RowSets]
      BY <1>1, <1>6
    <3> QED BY <2>2, <2>5, <3>1
  <2>7. Free(t, B)
    BY <2>2 DEF Free
  <2>8. \A j \in Id : q.reg[j] = IF j \in B THEN Boot[j] ELSE t.reg[j]
    BY <1>6, <2>2, <2>5
  <2>9. \A y \in Name : q.rows[y] = IF t.rows[y] = Missing /\ \E j \in B : Boot[j] = y THEN {} ELSE t.rows[y]
    <3> SUFFICES ASSUME NEW y \in Name
                 PROVE  q.rows[y] = IF t.rows[y] = Missing /\ \E j \in B : Boot[j] = y THEN {} ELSE t.rows[y]
      OBVIOUS
    <3>1. CASE y = x
      BY <2>3, <2>4, <2>6, <3>1
    <3>2. CASE y # x
      BY <1>6, <2>6, <3>2
    <3> QED BY <3>1, <3>2
  <2> QED BY <1>7, <2>5, <2>7, <2>8, <2>9 DEF t, p, q
<1> QED BY <1>8, <1>9, <1>10, RecordIs

\* Neither is a log in which no planted table is named.
LEMMA PlantedAhead ==
    ASSUME NEW s \in Mirrors, Consistent(s), NEW B, Free(s, B), NEW l \in Seq(Record), Ahead(s, l).ok,
           \A k \in 1..Len(l) : l[k].op # "mut" => \A i \in B : Boot[i] # l[k].name
    PROVE  Free(Ahead(s, l), B) /\ Ahead(Planted(s, B), l) = Planted(Ahead(s, l), B)
<1> DEFINE n == Len(l)
           v == Planted(s, B)
           R(k) == Ahead(v, SubSeq(l, 1, k))
           S(k) == Ahead(s, SubSeq(l, 1, k))
           X == {k \in Nat : Free(S(k), B) /\ R(k) = Planted(S(k), B)}
<1>1. n \in Nat /\ SubSeq(l, 1, 0) = <<>> /\ SubSeq(l, 1, n) = l
  OBVIOUS
<1>2. v \in Mirrors
  BY PlantingKeeps
<1>3. \A k \in 0..n : S(k) \in Mirrors /\ Consistent(S(k))
  BY PrefixesFine
<1> HIDE DEF v
<1>4. 0 \in X
  <2>1. R(0) = v /\ S(0) = s
    BY <1>1, <1>2, EffectCloses, EffectFold!RunEmpty DEF Ahead
  <2> QED BY <2>1 DEF v
<1>5. \A k \in 1..n : k - 1 \in X => k \in X
  <2> SUFFICES ASSUME NEW k \in 1..n, k - 1 \in X PROVE k \in X
    OBVIOUS
  <2>1. k - 1 \in 0..n /\ k \in 0..n /\ k \in Nat
    BY <1>1
  <2>2. R(k) = Effect(R(k - 1), l[k])
    BY <1>2, EffectCloses, EffectFold!RunPrefix DEF Ahead
  <2>3. S(k) = Effect(S(k - 1), l[k]) /\ l[k] \in Record
    BY EffectCloses, EffectFold!RunPrefix DEF Ahead
  <2>4. Free(S(k - 1), B) /\ R(k - 1) = Planted(S(k - 1), B)
    OBVIOUS
  <2>5. S(k - 1) \in Mirrors /\ Consistent(S(k - 1)) /\ Consistent(S(k))
    BY <1>3, <2>1
  <2> DEFINE a == R(k - 1)
             b == R(k)
             t == S(k - 1)
             u == S(k)
  <2>6. Free(u, B) /\ b = Planted(u, B)
    <3> HIDE DEF a, b, t, u, R, S
    <3>1. b = Effect(a, l[k]) /\ u = Effect(t, l[k]) /\ l[k] \in Record
      BY <2>2, <2>3 DEF a, b, t, u
    <3>2. Free(t, B) /\ a = Planted(t, B) /\ t \in Mirrors /\ Consistent(t) /\ u.ok
      BY <2>4, <2>5 DEF a, t, u, Consistent
    <3> QED BY <3>1, <3>2, PlantingCommutes
  <2> HIDE DEF R, S
  <2> QED BY <2>1, <2>6
<1>6. n \in X
  <2> HIDE DEF n, X
  <2>1. 0..n \subseteq X
    BY <1>1, <1>4, <1>5, CountUp
  <2> QED BY <1>1, <2>1
<1> QED BY <1>1, <1>6 DEF v

----------------------------------------------------------------------------
(* The catalogs a boot may build from SQLite.                              *)

\* Each bootstrap number has a table.
AllBooted(s) == \A i \in 1..Len(Boot) : s.reg[i] # None

\* The numbers with a table.
Registered(s) == {i \in Id : s.reg[i] # None}

\* c has the tables of s under their numbers.
Loaded(c, s) ==
    /\ Len(c.byID) = Max(Registered(s) \cup {0})
    /\ \A i \in 1..Len(c.byID) : c.byID[i] = s.reg[i]
    /\ \A x \in Name : IF \A i \in Id : s.reg[i] # x THEN c.byName[x] = 0 ELSE c.byName[x] \in Id /\ s.reg[c.byName[x]] = x
    /\ \A i \in Id : s.reg[i] # None => c.rows[i] = s.rows[s.reg[i]]

\* What recoverFromSQLite builds from a seeded SQLite that it can load.
LEMMA RecoveredIs ==
    ASSUME NEW s \in Lites, ~Unloadable(s), AllBooted(s), NEW c \in Recovered(s)
    PROVE  c \in Catalogs /\ Loaded(c, s)
<1> DEFINE known == {i \in Id : s.reg[i] # None} \cup 1..Len(Boot)
           nameOf(i) == IF i <= Len(Boot) THEN Boot[i] ELSE s.reg[i]
           owners(x) == {i \in known : nameOf(i) = x}
           late(x) == {i \in owners(x) : i > Len(Boot)}
           winners(x) == IF owners(x) = {} THEN {0} ELSE IF late(x) = {} THEN owners(x) ELSE late(x)
           n == Max(known \cup {0})
           l == [i \in 1..n |-> IF i \in known THEN nameOf(i) ELSE None]
           rs == [i \in Id |-> IF i \in known THEN s.rows[nameOf(i)] ELSE {}]
<1>1. PICK f \in [Name -> 0..MaxId] : (\A x \in Name : f[x] \in winners(x)) /\ c = [byID |-> l, byName |-> f, rows |-> rs]
  BY DEF Recovered
<1>2. /\ s.reg \in [Id -> Slots] /\ s.rows \in [Name -> RowSets] /\ (\A x \in Name : x # None)
      /\ MaxId \in Nat /\ Len(Boot) \in Nat /\ \A i \in 1..Len(Boot) : i \in Id
  BY BootIs, NoneIsNoName DEF Lites, Slots, RowSets
<1>3. \A i \in Id : s.reg[i] # None => s.reg[i] \in Name /\ s.rows[s.reg[i]] \in SUBSET Lsn /\ (i <= Len(Boot) => s.reg[i] = Boot[i])
  BY <1>2 DEF Unloadable, Slots, RowSets
<1>4. known = Registered(s)
  BY <1>2 DEF AllBooted, Registered
<1>5. \A i \in known : i \in Id /\ s.reg[i] # None /\ nameOf(i) = s.reg[i]
  BY <1>3, <1>4 DEF Registered
<1>6. n \in known \cup {0} /\ (\A i \in known : i <= n) /\ n \in 0..MaxId
  <2>1. known \cup {0} \in SUBSET (0..MaxId)
    BY <1>2, <1>5 DEF Id
  <2> HIDE DEF known
  <2> QED BY <1>2, <2>1, MaxOf
<1>7. \A i \in 1..n : i \in Id /\ (i \in known \/ s.reg[i] = None)
  BY <1>2, <1>4, <1>6 DEF Id, Registered
<1>8. \A i \in 1..n : l[i] = s.reg[i]
  BY <1>5, <1>7
<1>9. \A i \in known : rs[i] = s.rows[s.reg[i]]
  BY <1>5
<1>10. rs \in [Id -> SUBSET Lsn]
  BY <1>3, <1>5
<1>11. l \in Seq(Slots) /\ Len(l) = n
  <2>1. \A i \in 1..n : l[i] \in Slots
    BY <1>2, <1>7, <1>8
  <2>2. l = [i \in 1..n |-> l[i]] /\ n \in Nat
    BY <1>6
  <2> HIDE DEF l, n
  <2> QED BY <2>1, <2>2
<1>12. \A x \in Name : owners(x) = {i \in Id : s.reg[i] = x}
  BY <1>2, <1>4, <1>5 DEF Registered
<1>13. \A x \in Name : IF \A i \in Id : s.reg[i] # x THEN f[x] = 0 ELSE f[x] \in Id /\ s.reg[f[x]] = x
  <2> SUFFICES ASSUME NEW x \in Name PROVE IF \A i \in Id : s.reg[i] # x THEN f[x] = 0 ELSE f[x] \in Id /\ s.reg[f[x]] = x
    OBVIOUS
  <2>1. f[x] \in winners(x) /\ late(x) \subseteq owners(x)
    BY <1>1
  <2>2. owners(x) = {i \in Id : s.reg[i] = x}
    BY <1>12
  <2> HIDE DEF owners, late
  <2> QED BY <2>1, <2>2
<1> HIDE DEF l, rs, n, known
<1>14. c.byID = l /\ c.byName = f /\ c.rows = rs
  BY <1>1
<1>15. c \in Catalogs
  BY <1>1, <1>6, <1>10, <1>11 DEF Catalogs, Slots
<1>16. \A i \in Id : s.reg[i] # None => c.rows[i] = s.rows[s.reg[i]]
  BY <1>4, <1>9, <1>14 DEF Registered
<1>17. Len(c.byID) = Max(Registered(s) \cup {0})
  BY <1>4, <1>11, <1>14 DEF n
<1>18. \A i \in 1..Len(c.byID) : c.byID[i] = s.reg[i]
  BY <1>8, <1>11, <1>14
<1>19. \A x \in Name : IF \A i \in Id : s.reg[i] # x THEN c.byName[x] = 0 ELSE c.byName[x] \in Id /\ s.reg[c.byName[x]] = x
  BY <1>13, <1>14
<1> QED BY <1>15, <1>16, <1>17, <1>18, <1>19 DEF Loaded

\* Such a catalog meets a consistent SQLite.
LEMMA LoadedMatches ==
    ASSUME NEW s \in Mirrors, Consistent(s), AllBooted(s), NEW c \in Catalogs, Loaded(c, s)
    PROVE  Matches(c, s)
<1> DEFINE T == Registered(s) \cup {0}
<1>1. /\ MaxId \in Nat /\ Len(Boot) \in Nat /\ (\A i \in 1..Len(Boot) : i \in Id) /\ s.reg \in [Id -> Slots]
      /\ \A x \in Name : x # None
  BY BootIs, NoneIsNoName DEF Mirrors
<1>2. Max(T) \in T /\ (\A i \in T : i <= Max(T)) /\ T \subseteq 0..MaxId
  <2>1. T \in SUBSET (0..MaxId)
    BY <1>1 DEF Registered, Id
  <2> HIDE DEF T
  <2> QED BY <1>1, <2>1, MaxOf DEF T
<1>3. Len(c.byID) = Max(T)
  BY DEF Loaded
<1> HIDE DEF T
<1>4. \A i \in Id : i \in Nat /\ i >= 1 /\ (s.reg[i] # None => i \in T)
  BY DEF Id, T, Registered
<1>5. ASSUME NEW i \in Id PROVE s.reg[i] = IF i <= Len(c.byID) THEN c.byID[i] ELSE None
  <2>1. CASE i <= Len(c.byID)
    BY <1>2, <1>3, <1>4, <2>1 DEF Loaded
  <2>2. CASE ~(i <= Len(c.byID))
    BY <1>2, <1>3, <1>4, <2>2
  <2> QED BY <2>1, <2>2
<1>6. Len(Boot) <= Len(c.byID)
  <2>1. CASE Len(Boot) = 0
    BY <1>1, <1>2, <1>3, <2>1
  <2>2. CASE Len(Boot) # 0
    <3>1. Len(Boot) \in 1..Len(Boot)
      BY <1>1, <2>2
    <3>2. Len(Boot) \in T
      BY <1>1, <1>4, <3>1 DEF AllBooted
    <3> QED BY <1>2, <1>3, <3>2
  <2> QED BY <2>1, <2>2
<1>7. \A x \in Name, i \in Id : c.byName[x] = i <=> s.reg[i] = x
  <2> SUFFICES ASSUME NEW x \in Name, NEW i \in Id PROVE c.byName[x] = i <=> s.reg[i] = x
    OBVIOUS
  <2>1. IF \A j \in Id : s.reg[j] # x THEN c.byName[x] = 0 ELSE c.byName[x] \in Id /\ s.reg[c.byName[x]] = x
    BY DEF Loaded
  <2>2. \A j, k \in Id : s.reg[j] = x /\ s.reg[k] = x => j = k
    BY <1>1 DEF Consistent
  <2>3. i # 0
    BY <1>4
  <2> QED BY <2>1, <2>2, <2>3
<1>8. \A i \in Id : s.reg[i] # None => c.rows[i] = s.rows[s.reg[i]]
  BY DEF Loaded
<1> QED BY <1>5, <1>6, <1>7, <1>8 DEF Matches

----------------------------------------------------------------------------
(* The invariant.                                                          *)

\* The inductive invariant.
CatalogSound == TypeOK /\ Ordered /\ MirrorMeetsMemory /\ OpenFailsForACause

\* While nothing is lost, the log leads from one consistent SQLite to another.
LEMMA DrainedFine ==
    ASSUME TypeOK, MirrorMeetsMemory, Sound
    PROVE  /\ Undrained \in Mirrors /\ Consistent(Undrained)
           /\ Drained = Ahead(Undrained, log) /\ Drained \in Mirrors /\ Consistent(Drained)
           /\ Drained.rows = truth
           /\ life = "up" => Matches(Announced, Drained) /\ tables = sq.reg
<1>1. sq \in Lites /\ log \in Seq(Record)
  BY DEF TypeOK
<1>2. Undrained \in Mirrors /\ Drained = Ahead(Undrained, log)
  BY <1>1, DrainedIs
<1>3. Consistent(Undrained) /\ Drained.ok /\ Drained.rows = truth /\ (life = "up" => Matches(Announced, Drained) /\ tables = sq.reg)
  BY DEF MirrorMeetsMemory
<1>4. Len(log) \in 0..Len(log) /\ SubSeq(log, 1, Len(log)) = log
  BY <1>1
<1>5. Ahead(Undrained, log) \in Mirrors /\ Consistent(Ahead(Undrained, log))
  BY <1>1, <1>2, <1>3, <1>4, PrefixesFine
<1> QED BY <1>2, <1>3, <1>5

\* A step that leaves the log and SQLite alone and announces nothing new.
LEMMA SameLog ==
    ASSUME TypeOK, MirrorMeetsMemory, sq' = sq, log' = log, truth' = truth, Sound' => Sound,
           life' = "up" /\ Sound' => life = "up" /\ Announced' = Announced /\ tables' = sq.reg
    PROVE  MirrorMeetsMemory'
<1>1. Undrained' = Undrained /\ Drained' = Drained
  BY DEF Undrained, Drained
<1> SUFFICES ASSUME Sound'
             PROVE  /\ Consistent(Undrained)'
                    /\ Drained'.ok /\ Drained'.rows = truth'
                    /\ life' = "up" => Matches(Announced, Drained)' /\ tables' = sq'.reg
  BY DEF MirrorMeetsMemory
<1>2. Consistent(Undrained) /\ Drained.ok /\ Drained.rows = truth /\ (life = "up" => Matches(Announced, Drained))
  BY DEF MirrorMeetsMemory
<1>3. Consistent(Undrained)'
  BY <1>1, <1>2 DEF Consistent
<1>4. life' = "up" => Matches(Announced, Drained)' /\ tables' = sq'.reg
  BY <1>1, <1>2 DEF Matches
<1> QED BY <1>1, <1>2, <1>3, <1>4

\* A step that journals a record.
LEMMA OneMore ==
    ASSUME TypeOK, TypeOK', MirrorMeetsMemory, sq' = sq, tables' = tables, Sound, life = "up",
           NEW rec \in Record, log' = Append(log, rec), Effect(Drained, rec).ok,
           truth' = Effect(Drained, rec).rows, Matches(Announced', Effect(Drained, rec))
    PROVE  MirrorMeetsMemory'
<1>1. Undrained' = Undrained
  BY DEF Undrained
<1>2. Drained' = Effect(Drained, rec)
  <2>1. (sq \in Lites => Undrained \in Mirrors /\ Drained = Ahead(Undrained, log))'
    BY DrainedIs, PTL
  <2>2. Drained' = Ahead(Undrained, log') /\ Undrained \in Mirrors /\ log \in Seq(Record) /\ Drained = Ahead(Undrained, log)
    BY <1>1, <2>1, DrainedIs DEF TypeOK, Ahead
  <2>3. Ahead(Undrained, Append(log, rec)) = Effect(Ahead(Undrained, log), rec)
    BY <2>2, AheadAppends
  <2> QED BY <2>2, <2>3
<1>3. Consistent(Undrained) /\ tables = sq.reg
  BY DEF MirrorMeetsMemory
<1>4. Consistent(Undrained)'
  BY <1>1, <1>3 DEF Consistent
<1>5. Matches(Announced, Drained)'
  BY <1>2 DEF Matches
<1> QED BY <1>2, <1>3, <1>4, <1>5 DEF MirrorMeetsMemory

----------------------------------------------------------------------------
(* The steps of writers and DDL.                                           *)

\* A writer binds its plan.
LEMMA BindSound == ASSUME CatalogSound, NEW w \in Writers, Bind(w) PROVE CatalogSound'
<1>1. TypeOK /\ Ordered /\ MirrorMeetsMemory /\ OpenFailsForACause
  BY DEF CatalogSound
<1>2. PICK x \in Name, k \in Kinds : /\ cat.byName[x] # 0
                                     /\ wpc' = [wpc EXCEPT ![w] = k] /\ wid' = [wid EXCEPT ![w] = cat.byName[x]]
  BY DEF Bind
<1>3. cat.byName[x] \in Id
  BY <1>1, <1>2, CatalogBounds DEF TypeOK, Catalogs, Id
<1>4. cat.byName[x] \in 0..MaxId
  BY <1>1 DEF TypeOK, Catalogs
<1>5. TypeOK'
  BY <1>1, <1>2, <1>4 DEF TypeOK, Bind, mirrorVars, historyVars
<1>6. Ordered'
  BY <1>1, <1>2, <1>3 DEF TypeOK, Ordered, Bind
<1>7. Announced' = Announced /\ Sound' = Sound
  BY DEF Bind, Announced, Sound, historyVars
<1>8. MirrorMeetsMemory'
  <2>1. sq' = sq /\ log' = log /\ truth' = truth /\ tables' = tables /\ life' = life
    BY DEF Bind, mirrorVars
  <2>2. Sound /\ life = "up" => tables = sq.reg
    BY <1>1 DEF MirrorMeetsMemory
  <2> QED BY <1>1, <1>7, <2>1, <2>2, SameLog
<1>9. OpenFailsForACause'
  BY <1>1, <1>7 DEF OpenFailsForACause, Bind
<1> QED BY <1>5, <1>6, <1>8, <1>9 DEF CatalogSound

\* A transaction looks for its table.
LEMMA CheckSound == ASSUME CatalogSound, NEW w \in Writers, CheckConflict(w) PROVE CatalogSound'
<1>1. TypeOK /\ Ordered /\ MirrorMeetsMemory /\ OpenFailsForACause
  BY DEF CatalogSound
<1>2. wpc' \in {[wpc EXCEPT ![w] = "checked"], [wpc EXCEPT ![w] = "idle"]} /\ wpc[w] # "idle"
  BY DEF CheckConflict
<1>3. TypeOK'
  BY <1>1, <1>2 DEF TypeOK, CheckConflict, mirrorVars, historyVars
<1>4. Ordered'
  BY <1>1, <1>2 DEF TypeOK, Ordered, CheckConflict
<1>5. Announced' = Announced /\ Sound' = Sound
  BY DEF CheckConflict, Announced, Sound, historyVars
<1>6. MirrorMeetsMemory'
  <2>1. sq' = sq /\ log' = log /\ truth' = truth /\ tables' = tables /\ life' = life
    BY DEF CheckConflict, mirrorVars
  <2>2. Sound /\ life = "up" => tables = sq.reg
    BY <1>1 DEF MirrorMeetsMemory
  <2> QED BY <1>1, <1>5, <2>1, <2>2, SameLog
<1>7. OpenFailsForACause'
  BY <1>1, <1>5 DEF OpenFailsForACause, CheckConflict
<1> QED BY <1>3, <1>4, <1>6, <1>7 DEF CatalogSound

\* The announced catalog is published.
LEMMA PublishSound == ASSUME CatalogSound, Publish PROVE CatalogSound'
<1>1. TypeOK /\ Ordered /\ MirrorMeetsMemory /\ OpenFailsForACause
  BY DEF CatalogSound
<1>2. /\ ddl # None /\ ddl' = None /\ life' = life /\ life = "up" /\ wpc' = wpc /\ wid' = wid /\ log' = log
      /\ cut' = cut /\ sq' = sq /\ tables' = tables /\ next' = next /\ truth' = truth /\ faults' = faults
      /\ straggled' = straggled /\ forgot' = forgot /\ doubled' = doubled
  BY <1>1 DEF Publish, Ordered, writerVars, mirrorVars, historyVars
<1>3. cat' = Announced
  BY <1>2 DEF Publish, Announced
<1>4. Announced \in Catalogs
  <2>1. ddl \in Record /\ cat \in Catalogs /\ ddl.op \in {"create", "drop"}
    BY <1>1, <1>2, RecordIs DEF TypeOK, Ordered
  <2>2. CASE ddl.op = "create"
    <3>1. WithTable(cat, ddl.id, ddl.name) \in Catalogs
      BY <2>1, <2>2, RecordIs, WithTableAdds DEF Added
    <3> QED BY <1>2, <2>2, <3>1 DEF Announced
  <2>3. CASE ddl.op = "drop"
    <3>1. WithoutTable(cat, ddl.name) \in Catalogs
      BY <2>1, <2>3, RecordIs, WithoutTableRemoves DEF Removed
    <3> QED BY <1>2, <2>3, <3>1 DEF Announced
  <2> QED BY <2>1, <2>2, <2>3
<1>5. TypeOK'
  BY <1>1, <1>2, <1>3, <1>4 DEF TypeOK
<1>6. Ordered'
  BY <1>1, <1>2 DEF Ordered
<1>7. Announced' = cat' /\ Sound' = Sound
  BY <1>2 DEF Announced, Sound
<1>8. MirrorMeetsMemory'
  <2>1. Sound /\ life = "up" => tables = sq.reg
    BY <1>1 DEF MirrorMeetsMemory
  <2> QED BY <1>1, <1>2, <1>3, <1>7, <2>1, SameLog
<1>9. OpenFailsForACause'
  BY <1>1, <1>2, <1>7 DEF OpenFailsForACause
<1> QED BY <1>5, <1>6, <1>8, <1>9 DEF CatalogSound

\* CREATE is journaled.
LEMMA CreateSound == ASSUME CatalogSound, NEW x \in Name, CreateJournal(x) PROVE CatalogSound'
<1> DEFINE i == Len(cat.byID) + 1
           rec == [op |-> "create", id |-> i, name |-> x]
<1>1. TypeOK /\ Ordered /\ MirrorMeetsMemory /\ OpenFailsForACause
  BY DEF CatalogSound
<1>2. /\ life = "up" /\ ddl = None /\ cat.byName[x] = 0 /\ Len(cat.byID) < MaxId /\ next \in Lsn
      /\ ddl' = rec /\ log' = Append(log, rec) /\ next' = next + 1 /\ truth' = [truth EXCEPT ![x] = {}]
      /\ life' = life /\ cat' = cat /\ wpc' = wpc /\ wid' = wid /\ cut' = cut /\ sq' = sq /\ tables' = tables
      /\ straggled' = straggled /\ forgot' = forgot /\ doubled' = doubled /\ faults' = faults
  BY DEF CreateJournal, writerVars, mirrorVars, historyVars
<1>3. cat \in Catalogs /\ Len(cat.byID) \in Nat /\ MaxId \in Nat
  BY <1>1, CatalogBounds DEF TypeOK, Catalogs
<1>4. i \in Id /\ i > Len(cat.byID)
  BY <1>2, <1>3 DEF Id
<1>5. rec \in Record /\ rec.op = "create" /\ rec.id = i /\ rec.name = x
  BY <1>4 DEF Record
<1> HIDE DEF rec
<1>6. TypeOK'
  <2>1. log' \in Seq(Record) /\ Len(log') = Len(log) + 1 /\ cut \in 0..Len(log) /\ Len(log) \in Nat
    BY <1>1, <1>2, <1>5 DEF TypeOK
  <2>2. cut' \in 0..Len(log')
    BY <1>2, <2>1
  <2>3. next' \in 1..(MaxRec + 1)
    BY <1>2, CatalogBounds DEF Lsn
  <2>4. truth' \in [Name -> {Missing} \cup SUBSET Lsn]
    BY <1>1, <1>2 DEF TypeOK
  <2> QED BY <1>1, <1>2, <1>5, <2>1, <2>2, <2>3, <2>4 DEF TypeOK
<1>7. Ordered'
  BY <1>1, <1>2, <1>5 DEF Ordered
<1>8. Sound' = Sound
  BY <1>2 DEF Sound
<1>9. MirrorMeetsMemory'
  <2> SUFFICES ASSUME Sound PROVE MirrorMeetsMemory'
    BY <1>8 DEF MirrorMeetsMemory
  <2>1. Drained \in Mirrors /\ Consistent(Drained) /\ Drained.rows = truth /\ Matches(cat, Drained)
    <3>1. Announced = cat
      BY <1>2 DEF Announced
    <3> QED BY <1>1, <1>2, <3>1, DrainedFine
  <2> DEFINE t == Effect(Drained, rec)
  <2>2. Made(Drained, t, i, x)
    BY <1>5, <2>1, EffectCreate
  <2>3. t.ok
    <3>1. Drained.ok /\ Drained.reg[i] = None
      BY <1>4, <2>1 DEF Consistent, Matches, Id
    <3>2. Len(Boot) <= Len(cat.byID)
      BY <2>1 DEF Matches
    <3>3. i > Len(Boot)
      BY <1>3, <1>4, <3>2, BootIs DEF Id
    <3>4. \A j \in Id : Drained.reg[j] # x
      BY <1>2, <2>1 DEF Matches, Id
    <3>5. Drained.rows[x] = Missing
      BY <2>1, <3>4 DEF Consistent
    <3> HIDE DEF t
    <3> QED BY <2>2, <3>1, <3>3, <3>5 DEF Made
  <2> HIDE DEF t
  <2>4. truth' = t.rows
    BY <1>2, <2>1, <2>2 DEF Made
  <2>5. Announced' = WithTable(cat, i, x)
    BY <1>2, <1>5, NoneIsNoRecord DEF Announced
  <2>6. Matches(Announced', t)
    BY <1>3, <1>4, <2>1, <2>2, <2>3, <2>5, WithTableAdds, CreateMatches
  <2> QED BY <1>1, <1>2, <1>5, <1>6, <2>3, <2>4, <2>6, OneMore DEF t
<1>10. OpenFailsForACause'
  BY <1>1, <1>2, <1>8 DEF OpenFailsForACause
<1> QED BY <1>6, <1>7, <1>9, <1>10 DEF CatalogSound

\* DROP is journaled.
LEMMA DropSound == ASSUME CatalogSound, NEW x \in Name, DropJournal(x) PROVE CatalogSound'
<1> DEFINE rec == [op |-> "drop", name |-> x]
<1>1. TypeOK /\ Ordered /\ MirrorMeetsMemory /\ OpenFailsForACause
  BY DEF CatalogSound
<1>2. /\ life = "up" /\ ddl = None /\ cat.byName[x] # 0 /\ next \in Lsn
      /\ ddl' = rec /\ log' = Append(log, rec) /\ next' = next + 1 /\ truth' = [truth EXCEPT ![x] = Missing]
      /\ life' = life /\ cat' = cat /\ wpc' = wpc /\ wid' = wid /\ cut' = cut /\ sq' = sq /\ tables' = tables
      /\ straggled' = straggled /\ forgot' = forgot /\ doubled' = doubled /\ faults' = faults
  BY DEF DropJournal, writerVars, mirrorVars, historyVars
<1>3. cat \in Catalogs /\ cat.byName \in [Name -> 0..MaxId] /\ MaxId \in Nat
  BY <1>1, CatalogBounds DEF TypeOK, Catalogs
<1>4. rec \in Record /\ rec.op = "drop" /\ rec.name = x
  BY DEF Record
<1> HIDE DEF rec
<1>5. TypeOK'
  <2>1. log' \in Seq(Record) /\ Len(log') = Len(log) + 1 /\ cut \in 0..Len(log) /\ Len(log) \in Nat
    BY <1>1, <1>2, <1>4 DEF TypeOK
  <2>2. cut' \in 0..Len(log')
    BY <1>2, <2>1
  <2>3. next' \in 1..(MaxRec + 1)
    BY <1>2, CatalogBounds DEF Lsn
  <2>4. truth' \in [Name -> {Missing} \cup SUBSET Lsn]
    BY <1>1, <1>2 DEF TypeOK
  <2> QED BY <1>1, <1>2, <1>4, <2>1, <2>2, <2>3, <2>4 DEF TypeOK
<1>6. Ordered'
  BY <1>1, <1>2, <1>4 DEF Ordered
<1>7. Sound' = Sound
  BY <1>2 DEF Sound
<1>8. MirrorMeetsMemory'
  <2> SUFFICES ASSUME Sound PROVE MirrorMeetsMemory'
    BY <1>7 DEF MirrorMeetsMemory
  <2>1. Drained \in Mirrors /\ Consistent(Drained) /\ Drained.rows = truth /\ Matches(cat, Drained)
    <3>1. Announced = cat
      BY <1>2 DEF Announced
    <3> QED BY <1>1, <1>2, <3>1, DrainedFine
  <2> DEFINE t == Effect(Drained, rec)
  <2>2. Unmade(Drained, t, x)
    BY <1>4, <2>1, EffectDrop
  <2>3. t.ok
    <3>1. cat.byName[x] \in Id
      BY <1>2, <1>3 DEF Id
    <3>2. \E j \in Id : Drained.reg[j] = x
      BY <2>1, <3>1 DEF Matches
    <3>3. Drained.ok /\ Drained.rows[x] # Missing
      BY <2>1, <3>2 DEF Consistent
    <3> HIDE DEF t
    <3> QED BY <2>2, <3>3 DEF Unmade
  <2> HIDE DEF t
  <2>4. truth' = t.rows
    BY <1>2, <2>1, <2>2 DEF Unmade
  <2>5. Announced' = WithoutTable(cat, x)
    BY <1>2, <1>4, NoneIsNoRecord DEF Announced
  <2>6. Matches(Announced', t)
    BY <1>3, <2>1, <2>2, <2>3, <2>5, WithoutTableRemoves, DropMatches
  <2> QED BY <1>1, <1>2, <1>4, <1>5, <2>3, <2>4, <2>6, OneMore DEF t
<1>9. OpenFailsForACause'
  BY <1>1, <1>2, <1>7 DEF OpenFailsForACause
<1> QED BY <1>5, <1>6, <1>8, <1>9 DEF CatalogSound

\* A mutation and the publication of another table commute.
LEMMA WrittenBeside ==
    ASSUME NEW c \in Catalogs, NEW i \in Id, NEW n \in Lsn, NEW x \in Name
    PROVE  /\ \A j \in Id : i # j => WithTable(Written(c, i, n), j, x) = Written(WithTable(c, j, x), i, n)
           /\ WithoutTable(Written(c, i, n), x) = Written(WithoutTable(c, x), i, n)
<1> DEFINE w == Written(c, i, n)
<1>1. /\ w \in Catalogs /\ w.byID = c.byID /\ w.byName = c.byName
      /\ w.rows = [c.rows EXCEPT ![i] = @ \cup {n}] /\ c.rows \in [Id -> SUBSET Lsn]
  <2>1. c.rows \in [Id -> SUBSET Lsn]
    BY DEF Catalogs
  <2> QED BY <2>1, WrittenIs
<1> HIDE DEF w
<1>2. ASSUME NEW j \in Id, i # j PROVE WithTable(w, j, x) = Written(WithTable(c, j, x), i, n)
  <2> DEFINE d == WithTable(c, j, x)
             e == WithTable(w, j, x)
             g == [d.rows EXCEPT ![i] = @ \cup {n}]
  <2>1. d.byID = e.byID /\ d.byName = e.byName /\ d.rows = [c.rows EXCEPT ![j] = {}] /\ e.rows = [w.rows EXCEPT ![j] = {}]
    BY <1>1 DEF WithTable
  <2>2. e = [byID |-> e.byID, byName |-> e.byName, rows |-> e.rows]
    BY DEF WithTable
  <2>3. d = [byID |-> d.byID, byName |-> d.byName, rows |-> d.rows]
    BY DEF WithTable
  <2>4. Written(d, i, n) = [d EXCEPT !.rows = g]
    BY Zenon DEF Written
  <2> HIDE DEF d, e
  <2>5. g = e.rows
    <3>1. g = [[c.rows EXCEPT ![j] = {}] EXCEPT ![i] = @ \cup {n}]
      BY <2>1
    <3>2. e.rows = [[c.rows EXCEPT ![i] = @ \cup {n}] EXCEPT ![j] = {}]
      BY <1>1, <2>1
    <3>3. \A k \in Id : g[k] = e.rows[k]
      BY <1>1, <1>2, <3>1, <3>2
    <3>4. g = [k \in Id |-> g[k]] /\ e.rows = [k \in Id |-> e.rows[k]]
      BY <1>1, <3>1, <3>2
    <3> HIDE DEF g
    <3> QED BY <3>3, <3>4
  <2> HIDE DEF g
  <2>6. Written(d, i, n) = [byID |-> d.byID, byName |-> d.byName, rows |-> g]
    BY <2>3, <2>4
  <2>7. Written(d, i, n) = e
    BY <2>1, <2>2, <2>5, <2>6
  <2> QED BY <2>7 DEF d, e
<1>3. WithoutTable(w, x) = Written(WithoutTable(c, x), i, n)
  <2> DEFINE d == WithoutTable(c, x)
             e == WithoutTable(w, x)
  <2>1. Removed(c, d, x) /\ Removed(w, e, x)
    BY <1>1, WithoutTableRemoves
  <2> HIDE DEF d, e
  <2>2. d \in Catalogs /\ e \in Catalogs /\ d.rows = c.rows /\ e.rows = w.rows /\ d.byName = e.byName
    BY <1>1, <2>1 DEF Removed
  <2>3. d.byID = e.byID
    <3>1. /\ d.byID \in Seq(Slots) /\ e.byID \in Seq(Slots) /\ Len(d.byID) = Len(e.byID)
          /\ \A k \in 1..Len(d.byID) : d.byID[k] = e.byID[k]
      BY <1>1, <2>1, <2>2 DEF Removed, Catalogs, Slots
    <3> QED BY <3>1, SeqEqual
  <2>4. Written(d, i, n) \in Catalogs /\ Written(d, i, n).byID = d.byID /\ Written(d, i, n).byName = d.byName
        /\ Written(d, i, n).rows = [d.rows EXCEPT ![i] = @ \cup {n}]
    BY <2>2, WrittenIs
  <2>5. Written(d, i, n) = e
    <3> DEFINE v == Written(d, i, n)
    <3> HIDE DEF v
    <3>1. v \in Catalogs /\ v.byID = e.byID /\ v.byName = e.byName /\ v.rows = e.rows
      BY <1>1, <2>2, <2>3, <2>4 DEF v
    <3>2. /\ v \in [byID : Seq(Slots), byName : [Name -> 0..MaxId], rows : [Id -> SUBSET Lsn]]
          /\ e \in [byID : Seq(Slots), byName : [Name -> 0..MaxId], rows : [Id -> SUBSET Lsn]]
      BY <2>2, <3>1 DEF Catalogs, Slots
    <3>3. v = [byID |-> v.byID, byName |-> v.byName, rows |-> v.rows] /\ e = [byID |-> e.byID, byName |-> e.byName, rows |-> e.rows]
      BY <3>2
    <3>4. v = e
      BY <3>1, <3>3
    <3> QED BY <3>4 DEF v
  <2> QED BY <2>5 DEF d, e
<1> QED BY <1>2, <1>3 DEF w

\* A mutation of a table whose DROP is not in the log reaches the announced
\* catalog, too.
LEMMA WriteAnnounced ==
    ASSUME TypeOK, Ordered, NEW i \in Id, ~Dropped(i), NEW n \in Lsn, cat' = Written(cat, i, n), ddl' = ddl
    PROVE  /\ Announced \in Catalogs /\ Announced' = Written(Announced, i, n)
           /\ Live(Announced, i) /\ Announced.byID[i] = cat.byID[i]
<1>1. /\ cat \in Catalogs /\ Len(cat.byID) \in Nat /\ cat.byID \in Seq(Slots) /\ cat.byName \in [Name -> 0..MaxId]
      /\ (ddl # None => ddl \in Record) /\ \A x \in Name : x # None
  BY NoneIsNoName DEF TypeOK, Catalogs, Slots
<1>2. Live(cat, i) /\ ~(ddl # None /\ ddl.op = "drop" /\ cat.byName[ddl.name] = i)
  BY DEF Dropped
<1>3. i \in 1..Len(cat.byID) /\ cat.byID[i] # None
  BY <1>2 DEF Live
<1>4. CASE ddl = None
  BY <1>1, <1>2, <1>4 DEF Announced
<1>5. CASE ddl # None /\ ddl.op = "create"
  <2> DEFINE j == ddl.id
             x == ddl.name
             d == WithTable(cat, j, x)
  <2>1. j \in Id /\ x \in Name /\ j = Len(cat.byID) + 1
    BY <1>1, <1>5, RecordIs DEF Ordered
  <2>2. Announced = d /\ Announced' = WithTable(cat', j, x)
    BY <1>5 DEF Announced
  <2>3. i # j
    BY <1>1, <1>3, <2>1
  <2> HIDE DEF j, x
  <2>4. Added(cat, d, j, x)
    BY <1>1, <2>1, WithTableAdds
  <2>5. Announced' = Written(d, i, n)
    BY <1>1, <2>1, <2>2, <2>3, WrittenBeside
  <2> HIDE DEF d
  <2>6. d \in Catalogs /\ i \in 1..Len(d.byID)
    BY <1>1, <1>3, <2>1, <2>4 DEF Added, Longer
  <2>7. d.byID[i] = cat.byID[i]
    BY <1>3, <2>3, <2>4, <2>6 DEF Added
  <2> QED BY <1>3, <2>2, <2>5, <2>6, <2>7 DEF Live
<1>6. CASE ddl # None /\ ddl.op = "drop"
  <2> DEFINE x == ddl.name
             d == WithoutTable(cat, x)
  <2>1. x \in Name /\ cat.byName[x] # i
    BY <1>1, <1>2, <1>6, RecordIs
  <2>2. Announced = d /\ Announced' = WithoutTable(cat', x)
    BY <1>6 DEF Announced
  <2> HIDE DEF x
  <2>3. Removed(cat, d, x)
    BY <1>1, <2>1, WithoutTableRemoves
  <2>4. Announced' = Written(d, i, n)
    BY <1>1, <2>1, <2>2, WrittenBeside
  <2> HIDE DEF d
  <2>5. d \in Catalogs /\ i \in 1..Len(d.byID) /\ d.byID[i] = cat.byID[i]
    BY <1>3, <2>1, <2>3 DEF Removed
  <2> QED BY <1>3, <2>2, <2>4, <2>5 DEF Live
<1> QED BY <1>1, <1>4, <1>5, <1>6, RecordIs DEF Ordered

\* A row is journaled and applied.
LEMMA WriteSound == ASSUME CatalogSound, NEW w \in Writers, Write(w) PROVE CatalogSound'
<1> DEFINE i == wid[w]
           rec == [op |-> "mut", id |-> i, lsn |-> next]
<1>1. TypeOK /\ Ordered /\ MirrorMeetsMemory /\ OpenFailsForACause
  BY DEF CatalogSound
<1>2. /\ wpc[w] \in {"exec", "checked"} /\ next \in Lsn /\ log' = Append(log, rec)
      /\ wpc' = [wpc EXCEPT ![w] = "idle"] /\ next' = next + 1 /\ straggled' = (straggled \/ Dropped(i))
      /\ truth' = IF Dropped(i) \/ ~Sound THEN truth ELSE [truth EXCEPT ![cat.byID[i]] = @ \cup {next}]
      /\ life' = life /\ ddl' = ddl /\ wid' = wid /\ cut' = cut /\ sq' = sq /\ tables' = tables
      /\ forgot' = forgot /\ doubled' = doubled /\ faults' = faults
  BY DEF Write, mirrorVars
<1>3. cat' = Written(cat, i, next)
  BY Zenon DEF Write, Written
<1>4. life = "up" /\ i \in Id
  BY <1>1, <1>2 DEF Ordered
<1>5. cat \in Catalogs
  BY <1>1 DEF TypeOK
<1>6. rec \in Record /\ rec.op = "mut" /\ rec.id = i /\ rec.lsn = next
  BY <1>2, <1>4 DEF Record
<1> HIDE DEF rec, i
<1>7. cat' \in Catalogs /\ cat'.byID = cat.byID
  BY <1>2, <1>3, <1>4, <1>5, WrittenIs
<1>8. Sound' <=> Sound /\ ~Dropped(i)
  BY <1>2 DEF Sound
<1>9. ASSUME Sound, ~Dropped(i)
      PROVE  LET t == Effect(Drained, rec) IN
             t.ok /\ truth' = t.rows /\ Matches(Announced', t) /\ truth[cat.byID[i]] # Missing
  <2>1. Drained \in Mirrors /\ Consistent(Drained) /\ Drained.rows = truth /\ Matches(Announced, Drained)
    BY <1>1, <1>4, <1>9, DrainedFine
  <2>2. /\ Announced \in Catalogs /\ Announced' = Written(Announced, i, next)
        /\ Live(Announced, i) /\ Announced.byID[i] = cat.byID[i]
    BY <1>1, <1>2, <1>3, <1>4, <1>9, WriteAnnounced
  <2>3. Drained.reg[i] # None /\ Drained.reg[i] = cat.byID[i]
    BY <1>4, <2>1, <2>2, LiveIsRegistered
  <2> DEFINE t == Effect(Drained, rec)
  <2>4. Filled(Drained, t, i, next)
    BY <1>6, <2>1, EffectMut
  <2>5. Drained.reg[i] \in Name /\ Drained.rows[Drained.reg[i]] # Missing
    <3>1. Drained.reg[i] \in Slots
      BY <1>4, <2>1 DEF Mirrors
    <3>2. Drained.reg[i] \in Name
      BY <2>3, <3>1 DEF Slots
    <3> QED BY <1>4, <2>1, <3>2 DEF Consistent
  <2> HIDE DEF t
  <2>6. t.ok /\ t.rows = [Drained.rows EXCEPT ![Drained.reg[i]] = @ \cup {next}]
    BY <2>1, <2>4, <2>5 DEF Filled, Consistent
  <2>7. truth' = t.rows
    BY <1>2, <1>9, <2>1, <2>3, <2>6
  <2>8. Matches(Announced', t)
    BY <1>2, <1>4, <2>1, <2>2, <2>4, <2>6, MutMatches
  <2> QED BY <2>1, <2>3, <2>5, <2>6, <2>7, <2>8 DEF t
<1>10. TypeOK'
  <2>1. log' \in Seq(Record) /\ Len(log') = Len(log) + 1 /\ cut \in 0..Len(log) /\ Len(log) \in Nat
    BY <1>1, <1>2, <1>6 DEF TypeOK
  <2>2. cut' \in 0..Len(log')
    BY <1>2, <2>1
  <2>3. next' \in 1..(MaxRec + 1)
    BY <1>2, CatalogBounds DEF Lsn
  <2>4. truth' \in [Name -> {Missing} \cup SUBSET Lsn]
    <3>1. truth \in [Name -> {Missing} \cup SUBSET Lsn]
      BY <1>1 DEF TypeOK
    <3>2. CASE Dropped(i) \/ ~Sound
      BY <1>2, <3>1, <3>2
    <3>3. CASE ~Dropped(i) /\ Sound
      <4>1. truth' = [truth EXCEPT ![cat.byID[i]] = @ \cup {next}] /\ truth[cat.byID[i]] # Missing
        BY <1>2, <1>9, <3>3
      <4>2. truth' = [x \in Name |-> IF x = cat.byID[i] THEN truth[x] \cup {next} ELSE truth[x]]
        BY <3>1, <4>1
      <4>3. \A x \in Name : (IF x = cat.byID[i] THEN truth[x] \cup {next} ELSE truth[x]) \in {Missing} \cup SUBSET Lsn
        BY <1>2, <3>1, <4>1
      <4> QED BY <4>2, <4>3
    <3> QED BY <3>2, <3>3
  <2>5. wpc' \in [Writers -> {"idle", "checked"} \cup Kinds] /\ straggled' \in BOOLEAN
    BY <1>1, <1>2 DEF TypeOK
  <2> QED BY <1>1, <1>2, <1>7, <2>1, <2>2, <2>3, <2>4, <2>5 DEF TypeOK
<1>11. Ordered'
  BY <1>1, <1>2, <1>7 DEF TypeOK, Ordered
<1>12. MirrorMeetsMemory'
  <2>1. CASE Sound'
    BY <1>1, <1>2, <1>4, <1>6, <1>8, <1>9, <1>10, <2>1, OneMore
  <2>2. CASE ~Sound'
    BY <2>2 DEF MirrorMeetsMemory
  <2> QED BY <2>1, <2>2
<1>13. OpenFailsForACause'
  BY <1>2, <1>4 DEF OpenFailsForACause
<1> QED BY <1>10, <1>11, <1>12, <1>13 DEF CatalogSound

----------------------------------------------------------------------------
(* The steps of the drain and of the process.                              *)

\* Sealing a segment.
LEMMA SealSound == ASSUME CatalogSound, Seal PROVE CatalogSound'
<1>1. TypeOK /\ Ordered /\ MirrorMeetsMemory /\ OpenFailsForACause
  BY DEF CatalogSound
<1>2. /\ cut' \in 1..Len(log) /\ life' = life /\ cat' = cat /\ ddl' = ddl /\ wpc' = wpc /\ wid' = wid /\ log' = log
      /\ sq' = sq /\ tables' = tables /\ next' = next /\ truth' = truth /\ faults' = faults
      /\ straggled' = straggled /\ forgot' = forgot /\ doubled' = doubled
  BY DEF Seal, writerVars, historyVars
<1>3. TypeOK'
  BY <1>1, <1>2 DEF TypeOK
<1>4. Ordered'
  BY <1>1, <1>2 DEF Ordered
<1>5. Announced' = Announced /\ Sound' = Sound
  BY <1>2 DEF Announced, Sound
<1>6. MirrorMeetsMemory'
  <2>1. Sound /\ life = "up" => tables = sq.reg
    BY <1>1 DEF MirrorMeetsMemory
  <2> QED BY <1>1, <1>2, <1>5, <2>1, SameLog
<1>7. OpenFailsForACause'
  BY <1>1, <1>2, <1>5 DEF OpenFailsForACause
<1> QED BY <1>3, <1>4, <1>6, <1>7 DEF CatalogSound

\* A run over any prefix of the log gives SQLite and registry their type.
LEMMA RunsTyped ==
    ASSUME TypeOK, NEW k \in 0..Len(log), NEW m \in MirrorRuns(SubSeq(log, 1, k))
    PROVE  m.sq \in Lites /\ m.tables \in [Id -> Slots]
<1> DEFINE b == [sq |-> sq, tables |-> tables, ok |-> TRUE]
<1>1. SubSeq(log, 1, k) \in Seq(Record)
  BY DEF TypeOK
<1>2. {b} \in SUBSET Runs
  BY DEF TypeOK, Runs, Slots
<1> HIDE DEF b
<1>3. RunFold!Run({b}, SubSeq(log, 1, k)) \in SUBSET Runs
  BY <1>1, <1>2, MirrorCloses, RunFold!RunType
<1>4. m \in Runs
  BY <1>3, MirrorRunsIs DEF b
<1> QED BY <1>4 DEF Runs

\* A transaction that is rolled back.
LEMMA RollbackSound == ASSUME CatalogSound, DrainRollback PROVE CatalogSound'
<1>1. TypeOK /\ Ordered /\ MirrorMeetsMemory /\ OpenFailsForACause
  BY DEF CatalogSound
<1>2. /\ life' = life /\ cat' = cat /\ ddl' = ddl /\ wpc' = wpc /\ wid' = wid /\ log' = log
      /\ cut' = cut /\ sq' = sq /\ next' = next /\ truth' = truth
      /\ straggled' = straggled /\ doubled' = doubled /\ forgot' = (forgot \/ tables' # sq.reg)
  BY DEF DrainRollback, writerVars
<1>3. tables' \in [Id -> Name \cup {None}] /\ faults' \in 0..MaxFaults
  <2>1. PICK k \in 0..cut : \E m \in MirrorRuns(SubSeq(log, 1, k)) :
          tables' = m.tables /\ (UNCHANGED faults \/ (faults < MaxFaults /\ faults' = faults + 1))
    BY DEF DrainRollback
  <2>2. k \in 0..Len(log)
    BY <1>1 DEF TypeOK
  <2>3. tables' \in [Id -> Slots]
    BY <1>1, <2>1, <2>2, RunsTyped
  <2>4. faults' \in 0..MaxFaults
    BY <1>1, <2>1, CatalogBounds DEF TypeOK
  <2> QED BY <2>3, <2>4 DEF Slots
<1>4. TypeOK'
  BY <1>1, <1>2, <1>3 DEF TypeOK
<1>5. Ordered'
  BY <1>1, <1>2 DEF Ordered
<1>6. Announced' = Announced /\ (Sound' => Sound /\ tables' = sq.reg)
  BY <1>2 DEF Announced, Sound
<1>7. MirrorMeetsMemory'
  BY <1>1, <1>2, <1>6, SameLog
<1>8. OpenFailsForACause'
  BY <1>1, <1>2, <1>6 DEF OpenFailsForACause
<1> QED BY <1>4, <1>5, <1>7, <1>8 DEF CatalogSound

\* A transaction that commits: SQLite is ahead by the segment, and the rest of
\* the log leads from there to where it led before.
LEMMA CommitSound == ASSUME CatalogSound, DrainCommit PROVE CatalogSound'
<1> DEFINE pre == SubSeq(log, 1, cut)
<1>1. TypeOK /\ Ordered /\ MirrorMeetsMemory /\ OpenFailsForACause
  BY DEF CatalogSound
<1>2. /\ life = "up" /\ life' = life /\ cat' = cat /\ ddl' = ddl /\ wpc' = wpc /\ wid' = wid
      /\ log' = SubSeq(log, cut + 1, Len(log))
      /\ cut' = 0 /\ next' = next /\ truth' = truth /\ faults' = faults
      /\ straggled' = straggled /\ forgot' = forgot /\ doubled' = doubled
  BY DEF DrainCommit, writerVars, historyVars
<1>3. PICK m \in MirrorRuns(pre) : m.ok /\ sq' = m.sq /\ tables' = m.tables
  BY DEF DrainCommit
<1>4. cut \in 0..Len(log) /\ log \in Seq(Record)
  BY <1>1 DEF TypeOK
<1>5. sq' \in Lites /\ tables' \in [Id -> Slots]
  BY <1>1, <1>3, <1>4, RunsTyped
<1>6. TypeOK'
  <2>1. log' \in Seq(Record) /\ cut' \in 0..Len(log')
    BY <1>2, <1>4
  <2> QED BY <1>1, <1>2, <1>5, <2>1 DEF TypeOK, Slots
<1>7. Ordered'
  BY <1>1, <1>2 DEF Ordered
<1>8. Announced' = Announced /\ Sound' = Sound
  BY <1>2 DEF Announced, Sound
<1>9. MirrorMeetsMemory'
  <2> SUFFICES ASSUME Sound PROVE MirrorMeetsMemory'
    BY <1>8 DEF MirrorMeetsMemory
  <2>1. /\ Undrained \in Mirrors /\ Consistent(Undrained) /\ Drained = Ahead(Undrained, log)
        /\ Drained.ok /\ Drained.rows = truth /\ Matches(Announced, Drained) /\ tables = sq.reg
    BY <1>1, <1>2, DrainedFine DEF Consistent
  <2>2. /\ pre \in Seq(Record) /\ Ahead(Undrained, pre) \in Mirrors /\ Consistent(Ahead(Undrained, pre))
        /\ Ahead(Undrained, log) = Ahead(Ahead(Undrained, pre), log')
    BY <1>2, <1>4, <2>1, AheadInParts, PrefixesFine
  <2> DEFINE u == Ahead(Undrained, pre)
  <2>3. m = Fine(u)
    <3>1. [sq |-> sq, tables |-> tables, ok |-> TRUE] = Fine(Undrained)
      <4>1. sq = [reg |-> sq.reg, rows |-> sq.rows]
        BY <1>1 DEF TypeOK, Lites
      <4>2. Undrained.reg = sq.reg /\ Undrained.rows = sq.rows
        BY DEF Undrained
      <4> QED BY <2>1, <4>1, <4>2 DEF Fine, Tx
    <3>2. u.ok
      BY <2>2 DEF Consistent
    <3>3. RunFold!Run({Fine(Undrained)}, pre) = {Fine(u)}
      BY <2>1, <2>2, <3>2, RunsExact
    <3> HIDE DEF u, pre
    <3> QED BY <1>3, <3>1, <3>3, MirrorRunsIs
  <2> HIDE DEF u
  <2>4. sq' = [reg |-> u.reg, rows |-> u.rows] /\ tables' = u.reg
    BY <1>3, <2>3 DEF Fine, Tx
  <2>5. Undrained' = u
    <3>1. Undrained' = [reg |-> u.reg, rows |-> u.rows, ok |-> TRUE]
      BY <2>4 DEF Undrained
    <3>2. u = [reg |-> u.reg, rows |-> u.rows, ok |-> u.ok] /\ u.ok = TRUE
      BY <2>2 DEF u, Mirrors, Consistent
    <3> QED BY <3>1, <3>2
  <2>6. Drained' = Drained
    <3>1. (sq \in Lites => Undrained \in Mirrors /\ Drained = Ahead(Undrained, log))'
      BY DrainedIs, PTL
    <3>2. Drained' = Ahead(u, log')
      BY <1>5, <2>5, <3>1 DEF Ahead
    <3> QED BY <2>1, <2>2, <3>2 DEF u
  <2>7. Consistent(Undrained)'
    BY <2>2, <2>5 DEF Consistent, u
  <2>8. Matches(Announced, Drained)'
    BY <1>8, <2>1, <2>6 DEF Matches
  <2> QED BY <1>2, <2>1, <2>4, <2>6, <2>7, <2>8 DEF MirrorMeetsMemory
<1>10. OpenFailsForACause'
  BY <1>1, <1>2, <1>8 DEF OpenFailsForACause
<1> QED BY <1>6, <1>7, <1>9, <1>10 DEF CatalogSound

\* The process ends.
LEMMA CrashSound == ASSUME CatalogSound, Crash PROVE CatalogSound'
<1>1. TypeOK /\ Ordered /\ MirrorMeetsMemory /\ OpenFailsForACause
  BY DEF CatalogSound
<1>2. /\ life' = "down" /\ cat' = EmptyCatalog /\ ddl' = None /\ wpc' = [w \in Writers |-> "idle"]
      /\ wid' = [w \in Writers |-> 0] /\ tables' = NoTables /\ log' = log /\ cut' = cut /\ sq' = sq /\ next' = next
      /\ truth' = truth /\ faults' = faults /\ straggled' = straggled /\ forgot' = forgot /\ doubled' = doubled
  BY DEF Crash, historyVars
<1>3. cat' \in Catalogs
  BY <1>2, CatalogBounds DEF EmptyCatalog, Catalogs
<1>4. TypeOK'
  BY <1>1, <1>2, <1>3, CatalogBounds DEF TypeOK, NoTables
<1>5. Ordered'
  BY <1>2 DEF Ordered
<1>6. MirrorMeetsMemory'
  BY <1>1, <1>2, SameLog DEF Sound
<1>7. OpenFailsForACause'
  BY <1>2 DEF OpenFailsForACause
<1> QED BY <1>4, <1>5, <1>6, <1>7 DEF CatalogSound

\* A boot that doubles no name: SQLite is consistent with the bootstrap tables
\* planted, and the log leads from there to what it now stands for.
LEMMA SeedingLeads ==
    ASSUME TypeOK, MirrorMeetsMemory, Sound, ~Doubled, NEW p, p = [reg |-> Seeded.reg, rows |-> Seeded.rows, ok |-> TRUE]
    PROVE  /\ p \in Mirrors /\ Consistent(p)
           /\ Ahead(p, log) \in Mirrors /\ Ahead(p, log).ok /\ Ahead(p, log).rows = SeededTruth
<1> DEFINE B == Bare(sq, Len(Boot))
           u == Undrained
<1>1. sq \in Lites /\ log \in Seq(Record)
  BY DEF TypeOK
<1>2. u \in Mirrors /\ Consistent(u) /\ Drained = Ahead(u, log) /\ Drained \in Mirrors /\ Consistent(Drained) /\ Drained.rows = truth
  BY DrainedFine
<1>3. u.reg = sq.reg /\ u.rows = sq.rows
  BY DEF Undrained
<1>4. B = {i \in 1..Len(Boot) : sq.reg[i] = None}
  BY DEF Bare
<1> HIDE DEF B
<1>5. p = Planted(u, B)
  <2>1. Seeded = [reg |-> PlantedReg(sq, B), rows |-> PlantedRows(sq, B)]
    BY <1>1, SeedingPlants DEF B
  <2>2. PlantedReg(u, B) = PlantedReg(sq, B) /\ PlantedRows(u, B) = PlantedRows(sq, B)
    BY <1>3 DEF PlantedReg, PlantedRows
  <2> QED BY <2>1, <2>2 DEF Planted
<1>6. Free(u, B) /\ \A i \in B : ~InTail(Boot[i])
  BY <1>3, <1>4 DEF Free, Doubled
<1>7. p \in Mirrors /\ Consistent(p)
  BY <1>2, <1>5, <1>6, PlantingKeeps
<1> HIDE DEF u
<1>8. Ahead(p, log) = Planted(Drained, B) /\ Free(Drained, B)
  <2>1. \A k \in 1..Len(log) : log[k].op # "mut" => \A i \in B : Boot[i] # log[k].name
    BY <1>6 DEF InTail
  <2>2. Ahead(u, log).ok
    BY <1>2 DEF Consistent
  <2> QED BY <1>1, <1>2, <1>5, <1>6, <2>1, <2>2, PlantedAhead
<1>9. Planted(Drained, B) \in Mirrors
  BY <1>2, <1>8, PlantingKeeps
<1>10. Planted(Drained, B).ok /\ Planted(Drained, B).rows = PlantedRows(Drained, B)
  BY DEF Planted
<1>11. PlantedRows(Drained, B) = SeededTruth
  <2>1. \A x \in Name : (truth[x] = Missing /\ \E i \in B : Boot[i] = x)
          <=> (truth[x] = Missing /\ ~InTail(x) /\ \E i \in 1..Len(Boot) : Boot[i] = x /\ sq.reg[i] = None)
    BY <1>4, <1>6
  <2> QED BY <1>2, <2>1 DEF PlantedRows, SeededTruth
<1> QED BY <1>7, <1>8, <1>9, <1>10, <1>11

\* A consistent SQLite with its bootstrap tables loads.
LEMMA SeededLoads ==
    ASSUME NEW s \in Lites, NEW p \in Mirrors, Consistent(p), p.reg = s.reg, p.rows = s.rows
    PROVE  ~Unloadable(s)
<1> SUFFICES ASSUME NEW i \in Id, s.reg[i] # None
             PROVE  s.rows[s.reg[i]] # Missing /\ (i <= Len(Boot) => s.reg[i] = Boot[i])
  BY DEF Unloadable
<1>1. s.reg[i] \in Name
  BY DEF Lites
<1>2. s.rows[s.reg[i]] # Missing
  BY <1>1 DEF Consistent
<1>3. i <= Len(Boot) => i \in 1..Len(Boot)
  BY BootIs DEF Id
<1> QED BY <1>2, <1>3 DEF Consistent

\* Seeding leaves no bootstrap number without a table.
LEMMA SeedingBoots == ASSUME sq \in Lites PROVE Seeded \in Lites /\ AllBooted(Seeded)
<1> DEFINE B == Bare(sq, Len(Boot))
<1>1. Seeded \in Lites /\ Seeded.reg = PlantedReg(sq, B)
  BY SeedingPlants
<1>2. B = {i \in 1..Len(Boot) : sq.reg[i] = None}
  BY DEF Bare
<1> HIDE DEF B
<1>3. \A i \in 1..Len(Boot) : i \in Id /\ Boot[i] # None
  BY BootIs, NoneIsNoName
<1> QED BY <1>1, <1>2, <1>3 DEF AllBooted, PlantedReg

\* The replay of the log is such a fold.
LEMMA ReplayedIs ==
    ASSUME NEW c \in Catalogs, log \in Seq(Record)
    PROVE  Replayed(c) = ReplayFold!Run([cat |-> c, ok |-> TRUE], log) /\ Replayed(c) \in Replays
<1>1. Replayed(c) = ReplayFold!Run([cat |-> c, ok |-> TRUE], log)
  BY DEF Replayed, ReplayFold!Run, FoldLeft, ReplayFold!FoldLeft, MapThenFoldSet, ReplayFold!MapThenFoldSet,
         Max, ReplayFold!Max
<1>2. [cat |-> c, ok |-> TRUE] \in Replays
  BY DEF Replays
<1> QED BY <1>1, <1>2, ReplayCloses, ReplayFold!RunType

\* Opening: memory is rebuilt from SQLite and the log.
LEMMA OpenSound == ASSUME CatalogSound, Open PROVE CatalogSound'
<1> DEFINE s == Seeded
           p == [reg |-> s.reg, rows |-> s.rows, ok |-> TRUE]
<1>1. TypeOK /\ Ordered /\ MirrorMeetsMemory /\ OpenFailsForACause /\ sq \in Lites /\ log \in Seq(Record)
  BY DEF CatalogSound, TypeOK
<1>2. /\ life = "down" /\ sq' = s /\ tables' = s.reg /\ doubled' = (doubled \/ Doubled) /\ truth' = SeededTruth
      /\ ddl' = ddl /\ wpc' = wpc /\ wid' = wid /\ log' = log /\ cut' = cut /\ next' = next
      /\ straggled' = straggled /\ forgot' = forgot /\ faults' = faults
  BY DEF Open, writerVars
<1>3. ddl = None /\ \A w \in Writers : wpc[w] = "idle"
  BY <1>1, <1>2 DEF Ordered
<1>4. s \in Lites /\ AllBooted(s)
  BY <1>1, SeedingBoots
<1>5. \/ Unloadable(s) /\ life' = "failed" /\ cat' = cat
      \/ ~Unloadable(s) /\ \E c \in Recovered(s) : \/ Replayed(c).ok /\ life' = "up" /\ cat' = Replayed(c).cat
                                                   \/ ~Replayed(c).ok /\ life' = "failed" /\ cat' = cat
  BY DEF Open
<1> HIDE DEF s
<1>6. /\ life' \in {"up", "failed"} /\ cat' \in Catalogs
      /\ ~Unloadable(s) =>
            \E c \in Catalogs : Loaded(c, s) /\ (Replayed(c).ok => life' = "up" /\ cat' = Replayed(c).cat)
  <2>0. cat \in Catalogs
    BY <1>1 DEF TypeOK
  <2>1. CASE Unloadable(s)
    BY <1>5, <2>0, <2>1
  <2>2. CASE ~Unloadable(s)
    <3>1. PICK c \in Recovered(s) : \/ Replayed(c).ok /\ life' = "up" /\ cat' = Replayed(c).cat
                                    \/ ~Replayed(c).ok /\ life' = "failed" /\ cat' = cat
      BY <1>5, <2>2
    <3>2. c \in Catalogs /\ Loaded(c, s)
      BY <1>4, <2>2, RecoveredIs
    <3>3. Replayed(c).cat \in Catalogs
      BY <1>1, <3>2, ReplayedIs DEF Replays
    <3> QED BY <2>0, <3>1, <3>2, <3>3
  <2> QED BY <2>1, <2>2
<1>7. TypeOK'
  <2>1. truth' \in [Name -> {Missing} \cup SUBSET Lsn]
    BY <1>1, <1>2 DEF TypeOK, SeededTruth
  <2>2. tables' \in [Id -> Name \cup {None}] /\ sq' \in Lites
    BY <1>2, <1>4 DEF Lites
  <2>3. doubled' \in BOOLEAN
    BY <1>1, <1>2 DEF TypeOK, Doubled
  <2> QED BY <1>1, <1>2, <1>6, <2>1, <2>2, <2>3 DEF TypeOK
<1>8. Ordered'
  BY <1>2, <1>3 DEF Ordered
<1>9. Undrained' = p /\ Drained' = Ahead(p, log)
  <2>1. Undrained' = p
    BY <1>2 DEF Undrained
  <2>2. (sq \in Lites => Undrained \in Mirrors /\ Drained = Ahead(Undrained, log))'
    BY DrainedIs, PTL
  <2> QED BY <1>2, <1>4, <2>1, <2>2 DEF Ahead
<1>10. ASSUME Sound'
       PROVE  /\ Consistent(p) /\ Ahead(p, log).ok /\ Ahead(p, log).rows = truth'
              /\ life' = "up" /\ Matches(cat', Ahead(p, log))
  <2>1. Sound /\ ~Doubled
    BY <1>2, <1>10 DEF Sound
  <2>2. p.reg = s.reg /\ p.rows = s.rows
    OBVIOUS
  <2>3. p \in Mirrors /\ Consistent(p) /\ Ahead(p, log) \in Mirrors /\ Ahead(p, log).ok /\ Ahead(p, log).rows = SeededTruth
    BY <1>1, <2>1, SeedingLeads DEF s
  <2> HIDE DEF p
  <2>4. ~Unloadable(s)
    BY <1>4, <2>2, <2>3, SeededLoads
  <2>5. PICK c \in Catalogs : Loaded(c, s) /\ (Replayed(c).ok => life' = "up" /\ cat' = Replayed(c).cat)
    BY <1>6, <2>4
  <2>6. Loaded(c, p) /\ AllBooted(p)
    BY <1>4, <2>2, <2>5 DEF Loaded, AllBooted, Registered
  <2>7. Matches(c, p)
    BY <2>3, <2>6, LoadedMatches
  <2>8. Replayed(c).ok /\ Matches(Replayed(c).cat, Ahead(p, log))
    BY <1>1, <2>3, <2>7, ReplayedIs, ReplayFollows
  <2> QED BY <1>2, <2>3, <2>5, <2>8
<1>11. MirrorMeetsMemory'
  <2> SUFFICES ASSUME Sound'
               PROVE  /\ Consistent(Undrained)'
                      /\ Drained'.ok /\ Drained'.rows = truth'
                      /\ life' = "up" => Matches(Announced, Drained)' /\ tables' = sq'.reg
    BY DEF MirrorMeetsMemory
  <2>1. Announced' = cat'
    BY <1>2, <1>3 DEF Announced
  <2> HIDE DEF p
  <2>2. Consistent(Undrained)'
    BY <1>9, <1>10 DEF Consistent
  <2>3. Matches(Announced, Drained)'
    BY <1>9, <1>10, <2>1 DEF Matches
  <2> QED BY <1>2, <1>9, <1>10, <2>2, <2>3
<1>12. OpenFailsForACause'
  BY <1>10 DEF OpenFailsForACause
<1> QED BY <1>7, <1>8, <1>11, <1>12 DEF CatalogSound

----------------------------------------------------------------------------
(* The theorems.                                                           *)

\* The initial state, in which nothing is known and nothing undrained.
LEMMA InitSound == Init => CatalogSound
<1> SUFFICES ASSUME Init PROVE CatalogSound
  OBVIOUS
<1>1. EmptyCatalog \in Catalogs /\ NoTables \in [Id -> Slots]
  BY CatalogBounds DEF EmptyCatalog, NoTables, Catalogs, Slots
<1>2. sq \in Lites
  BY <1>1 DEF Init, Lites, Slots
<1>3. TypeOK
  <2>1. /\ life \in {"down", "up", "failed"} /\ cat \in Catalogs /\ ddl \in Record \cup {None}
        /\ wpc \in [Writers -> {"idle", "checked"} \cup Kinds] /\ tables \in [Id -> Name \cup {None}]
        /\ truth \in [Name -> {Missing} \cup SUBSET Lsn]
    BY <1>1 DEF Init, Slots
  <2>2. log \in Seq(Record) /\ cut \in 0..Len(log)
    BY DEF Init
  <2>3. wid \in [Writers -> 0..MaxId] /\ next \in 1..(MaxRec + 1) /\ faults \in 0..MaxFaults
    BY CatalogBounds DEF Init
  <2>4. straggled \in BOOLEAN /\ forgot \in BOOLEAN /\ doubled \in BOOLEAN
    BY DEF Init
  <2> QED BY <1>2, <2>1, <2>2, <2>3, <2>4 DEF TypeOK
<1>4. Ordered
  BY DEF Init, Ordered
<1>5. Drained = Undrained
  <2>1. Drained = Ahead(Undrained, <<>>) /\ Undrained \in Mirrors
    BY <1>2, DrainedIs DEF Init
  <2> QED BY <2>1, EffectCloses, EffectFold!RunEmpty DEF Ahead
<1>6. Undrained.reg = [i \in Id |-> None] /\ Undrained.rows = [x \in Name |-> Missing] /\ Undrained.ok
  BY DEF Init, Undrained, NoTables
<1>7. Consistent(Undrained)
  BY <1>6, NoneIsNoName, BootIs DEF Consistent
<1>8. MirrorMeetsMemory
  BY <1>5, <1>6, <1>7 DEF MirrorMeetsMemory, Init
<1>9. OpenFailsForACause
  BY DEF Init, OpenFailsForACause
<1> QED BY <1>3, <1>4, <1>8, <1>9 DEF CatalogSound

\* Every step.
LEMMA NextSound == CatalogSound /\ [Next]_vars => CatalogSound'
<1> SUFFICES ASSUME CatalogSound, [Next]_vars PROVE CatalogSound'
  OBVIOUS
<1>1. CASE \E w \in Writers : WriterNext(w)
  BY <1>1, BindSound, CheckSound, WriteSound DEF WriterNext
<1>2. CASE DDLNext
  BY <1>2, PublishSound, CreateSound, DropSound DEF DDLNext
<1>3. CASE DrainNext
  BY <1>3, SealSound, CommitSound, RollbackSound DEF DrainNext
<1>4. CASE Open
  BY <1>4, OpenSound
<1>5. CASE Crash
  BY <1>5, CrashSound
<1>6. CASE UNCHANGED vars
  <2>1. TypeOK /\ Ordered /\ MirrorMeetsMemory /\ OpenFailsForACause
    BY DEF CatalogSound
  <2>2. /\ life' = life /\ cat' = cat /\ ddl' = ddl /\ wpc' = wpc /\ wid' = wid /\ log' = log /\ cut' = cut
        /\ sq' = sq /\ tables' = tables /\ next' = next /\ truth' = truth /\ faults' = faults
        /\ straggled' = straggled /\ forgot' = forgot /\ doubled' = doubled
    BY <1>6 DEF vars, writerVars, mirrorVars, historyVars
  <2>3. TypeOK'
    BY <2>1, <2>2 DEF TypeOK
  <2>4. Ordered'
    BY <2>1, <2>2 DEF Ordered
  <2>5. Announced' = Announced /\ Sound' = Sound
    BY <2>2 DEF Announced, Sound
  <2>6. MirrorMeetsMemory'
    <3>1. Sound /\ life = "up" => tables = sq.reg
      BY <2>1 DEF MirrorMeetsMemory
    <3> QED BY <2>1, <2>2, <2>5, <3>1, SameLog
  <2>7. OpenFailsForACause'
    BY <2>1, <2>2, <2>5 DEF OpenFailsForACause
  <2> QED BY <2>3, <2>4, <2>6, <2>7 DEF CatalogSound
<1> QED BY <1>1, <1>2, <1>3, <1>4, <1>5, <1>6 DEF Next

\* A running database shows what the log stands for.
LEMMA MemoryIsTheLog == CatalogSound => TablesFollowLog
<1> SUFFICES ASSUME CatalogSound, life = "up", ddl = None, Sound, NEW x \in Name PROVE Visible(x) = truth[x]
  BY DEF TablesFollowLog
<1>1. TypeOK /\ MirrorMeetsMemory
  BY DEF CatalogSound
<1>2. Drained \in Mirrors /\ Consistent(Drained) /\ Drained.rows = truth /\ Matches(cat, Drained)
  <2>1. Announced = cat
    BY DEF Announced
  <2> QED BY <1>1, <2>1, DrainedFine
<1>3. cat.byName[x] \in 0..MaxId /\ MaxId \in Nat /\ x # None
  BY <1>1, CatalogBounds, NoneIsNoName DEF TypeOK, Catalogs
<1>4. CASE cat.byName[x] = 0
  <2>1. \A i \in Id : Drained.reg[i] # x
    BY <1>2, <1>4 DEF Matches, Id
  <2> QED BY <1>2, <1>4, <2>1 DEF Consistent, Visible
<1>5. CASE cat.byName[x] # 0
  <2>1. cat.byName[x] \in Id
    BY <1>3, <1>5 DEF Id
  <2>2. Drained.reg[cat.byName[x]] = x
    BY <1>2, <2>1 DEF Matches
  <2>3. cat.rows[cat.byName[x]] = Drained.rows[x]
    BY <1>2, <1>3, <2>1, <2>2 DEF Matches
  <2> QED BY <1>2, <1>5, <2>3 DEF Visible
<1> QED BY <1>4, <1>5

\* Draining the log into SQLite and rebuilding memory from SQLite and the log
\* come to the same, for any tables, schema, writers and bounds.
THEOREM CatalogStaysSound == Spec => []CatalogSound
<1> QED BY InitSound, NextSound, PTL DEF Spec

\* A running database shows exactly the tables and rows its log stands for, and
\* the mirror will have them: through CREATE, DROP, mutations by writers bound
\* to older catalogs, drains, crashes and boots.
THEOREM MemoryFollowsTheLog == Spec => []CatalogInv
<1>1. CatalogSound => CatalogInv
  BY MemoryIsTheLog DEF CatalogSound, CatalogInv
<1> QED BY <1>1, CatalogStaysSound, PTL

\* Open returns an error only after a mutation behind its table's DROP, a
\* rollback that changed the registry in memory, or a name registered twice.
THEOREM OpenNeedsACause == Spec => []OpenFailsForACause
<1>1. CatalogSound => OpenFailsForACause
  BY DEF CatalogSound
<1> QED BY <1>1, CatalogStaysSound, PTL
=============================================================================
