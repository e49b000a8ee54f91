------------------------------ MODULE Registry ------------------------------
(***************************************************************************)
(* The process-wide registry of databases (db_registry.go), the life cycle *)
(* of the Caddy handlers that fill it (caddymodule/module.go) and the      *)
(* in-process consumers that read it (the FrankenPHP extension).           *)
(*                                                                         *)
(* A name has a slot, created once; a slot holds the database registered   *)
(* under the name.  A handler opens one database, so the database is       *)
(* called by its handler; a slot is called by the process that made it.    *)
(* Caddy, which is not part of the repository, loads configurations one at *)
(* a time: the new handler is provisioned while the old one serves, then   *)
(* the old one is cleaned up, or the new one if the load failed.           *)
(***************************************************************************)
EXTENDS Naturals, FiniteSets

CONSTANTS
    Handlers,   \* the handlers of successive configurations
    Consumers,  \* in-process callers that look a database up
    Names, NameOf,  \* NameOf[p]: the registry name of a handler or consumer
    NoDB, NoSlot, Nobody

Processes == Handlers \cup Consumers
ASSUME RegistryShape == /\ NameOf \in [Processes -> Names]
                        /\ Handlers \cap Consumers = {} /\ NoDB \notin Handlers
                        /\ NoSlot \notin Processes /\ Nobody \notin Handlers

VARIABLES
    dbRegistrySlots,    \* the slot of each name
    cell,               \* what each slot holds
    pc, slot,           \* each process's place in its call, the slot it looked up
    hdb,                \* the handlers whose db field is set
    open,               \* the databases opened and not closed
    serving, loading,   \* Caddy: the handler that serves, the one being loaded
    rolledBack          \* names whose registration a failed load took away

regVars == <<dbRegistrySlots, cell, pc, slot, hdb, open, serving, loading, rolledBack>>
caddyVars == <<serving, loading>>

PCs == {"new", "opened", "failed", "find", "create", "store", "up", "cas", "close", "clear", "gone", "use"}

RegTypeOK ==
    /\ dbRegistrySlots \in [Names -> Processes \cup {NoSlot}]
    /\ cell \in [Processes -> Handlers \cup {NoDB}]
    /\ pc \in [Processes -> PCs] /\ slot \in [Processes -> Processes \cup {NoSlot}]
    /\ hdb \subseteq Handlers /\ open \subseteq Handlers /\ rolledBack \subseteq Names
    /\ serving \in Handlers \cup {Nobody} /\ loading \in Handlers \cup {Nobody}

RegInit ==
    /\ dbRegistrySlots = [n \in Names |-> NoSlot] /\ cell = [p \in Processes |-> NoDB]
    /\ pc = [p \in Processes |-> IF p \in Consumers THEN "find" ELSE "new"]
    /\ slot = [p \in Processes |-> NoSlot] /\ hdb = {} /\ open = {} /\ rolledBack = {}
    /\ serving = Nobody /\ loading = Nobody

Goto(p, where) == pc' = [pc EXCEPT ![p] = where]
\* Where the caller of dbSlotForName goes on: RegisterDB to its Store, LookupDBSlot's
\* caller to its first use, DeregisterDBIf to its compare-and-swap.
Onward(p) == IF p \in Consumers THEN "use" ELSE IF p = loading THEN "store" ELSE "cas"

----------------------------------------------------------------------------
(* dbSlotForName: a look under the read lock, and, on a miss, another one  *)
(* under the write lock before a slot is made.                             *)

FindSlot(p) ==
    /\ pc[p] = "find"
    /\ LET s == dbRegistrySlots[NameOf[p]]
       IN  IF s = NoSlot THEN Goto(p, "create") /\ UNCHANGED slot
           ELSE Goto(p, Onward(p)) /\ slot' = [slot EXCEPT ![p] = s]
    /\ UNCHANGED <<dbRegistrySlots, cell, hdb, open, caddyVars, rolledBack>>

CreateSlot(p) ==
    /\ pc[p] = "create"
    /\ LET s == dbRegistrySlots[NameOf[p]]
       IN  /\ dbRegistrySlots' = IF s = NoSlot THEN [dbRegistrySlots EXCEPT ![NameOf[p]] = p] ELSE dbRegistrySlots
           /\ slot' = [slot EXCEPT ![p] = IF s = NoSlot THEN p ELSE s]
    /\ Goto(p, Onward(p))
    /\ UNCHANGED <<cell, hdb, open, caddyVars, rolledBack>>

----------------------------------------------------------------------------
(* Provision. *)

\* Defaults are checked and the database opened; either may fail, with nothing kept.
OpenDB(h) ==
    /\ pc[h] = "new" /\ h = loading
    /\ \/ Goto(h, "opened") /\ open' = open \cup {h} /\ hdb' = hdb \cup {h}
       \/ Goto(h, "failed") /\ UNCHANGED <<open, hdb>>
    /\ UNCHANGED <<dbRegistrySlots, cell, slot, caddyVars, rolledBack>>

\* runInitSQL: a failing script closes the database again.
RunInitSQL(h) ==
    /\ pc[h] = "opened"
    /\ \/ Goto(h, "find") /\ UNCHANGED <<open, hdb>>
       \/ Goto(h, "failed") /\ open' = open \ {h} /\ hdb' = hdb \ {h}
    /\ UNCHANGED <<dbRegistrySlots, cell, slot, caddyVars, rolledBack>>

\* RegisterDB, the last step of Provision.
RegisterDB(h) ==
    /\ pc[h] = "store"
    /\ cell' = [cell EXCEPT ![slot[h]] = h]
    /\ Goto(h, "up")
    /\ rolledBack' = rolledBack \ {NameOf[h]}
    /\ UNCHANGED <<dbRegistrySlots, slot, hdb, open, caddyVars>>

----------------------------------------------------------------------------
(* Cleanup: nothing without a database, else DeregisterDBIf, Close and the *)
(* reset of the db field.                                                  *)

\* The registration goes although a handler of the same name still serves.
Takes(h) == cell[slot[h]] = h /\ serving # Nobody /\ NameOf[h] = NameOf[serving]

\* Mutant of DeregisterDBIf: the slot is cleared whatever it holds.
DeregisterDB(h) ==
    /\ pc[h] = "cas"
    /\ cell' = [cell EXCEPT ![slot[h]] = NoDB]
    /\ Goto(h, "close")
    /\ rolledBack' = IF Takes(h) THEN rolledBack \cup {NameOf[h]} ELSE rolledBack
    /\ UNCHANGED <<dbRegistrySlots, slot, hdb, open, caddyVars>>

\* The slot is cleared only while it holds this handler's database; when another
\* handler still serves, the name's registration was taken from it.
DeregisterDBIf(h) ==
    /\ pc[h] = "cas"
    /\ cell' = [cell EXCEPT ![slot[h]] = IF @ = h THEN NoDB ELSE @]
    /\ Goto(h, "close")
    /\ rolledBack' = IF Takes(h) THEN rolledBack \cup {NameOf[h]} ELSE rolledBack
    /\ UNCHANGED <<dbRegistrySlots, slot, hdb, open, caddyVars>>

CloseDB(h) ==
    /\ pc[h] = "close"
    /\ open' = open \ {h}
    /\ Goto(h, "clear")
    /\ UNCHANGED <<dbRegistrySlots, cell, slot, hdb, caddyVars, rolledBack>>

ClearDB(h) ==
    /\ pc[h] = "clear"
    /\ hdb' = hdb \ {h}
    /\ Goto(h, "gone")
    /\ UNCHANGED <<dbRegistrySlots, cell, slot, open, caddyVars, rolledBack>>

\* Mutant of CleanupFrom: the database is closed before it is deregistered.
CleanupClosesFirst(h) ==
    /\ Goto(h, IF h \in hdb THEN "find" ELSE "gone")
    /\ open' = open \ {h}

\* Cleanup is called: it goes on only if the db field is set.
CleanupFrom(h) == Goto(h, IF h \in hdb THEN "find" ELSE "gone") /\ UNCHANGED open

----------------------------------------------------------------------------
(* Caddy. *)

\* No handler is between two steps of Provision or Cleanup.
Resting == \A h \in Handlers : pc[h] \in {"new", "up", "gone"}

\* A new configuration is loaded: its handler's Provision is called.
Load(h) ==
    /\ Resting /\ loading = Nobody /\ pc[h] = "new"
    /\ loading' = h
    /\ UNCHANGED <<dbRegistrySlots, cell, pc, slot, hdb, open, serving, rolledBack>>

\* The load succeeded: the new handler serves, and the old one is cleaned up.
Swap(h) ==
    /\ loading = h /\ pc[h] = "up"
    /\ loading' = Nobody /\ serving' = h
    /\ IF serving = Nobody THEN UNCHANGED <<pc, open>> ELSE CleanupFrom(serving)
    /\ UNCHANGED <<dbRegistrySlots, cell, slot, hdb, rolledBack>>

\* The load failed, here (Provision returned an error) or in a module provisioned
\* after this one: the new handler is cleaned up and the old one goes on serving.
RollBack(h) ==
    /\ loading = h /\ pc[h] \in {"failed", "up"}
    /\ loading' = Nobody
    /\ CleanupFrom(h)
    /\ UNCHANGED <<dbRegistrySlots, cell, slot, hdb, serving, rolledBack>>

\* Caddy stops, or a configuration without the handler is loaded.
Stop(h) ==
    /\ Resting /\ loading = Nobody /\ serving = h
    /\ serving' = Nobody
    /\ CleanupFrom(h)
    /\ UNCHANGED <<dbRegistrySlots, cell, slot, hdb, loading, rolledBack>>

----------------------------------------------------------------------------

RegNext ==
    \/ \E p \in Processes : FindSlot(p) \/ CreateSlot(p)
    \/ \E h \in Handlers : \/ OpenDB(h) \/ RunInitSQL(h) \/ RegisterDB(h)
                           \/ DeregisterDBIf(h) \/ CloseDB(h) \/ ClearDB(h)
                           \/ Load(h) \/ Swap(h) \/ RollBack(h) \/ Stop(h)

RegSpec == RegInit /\ [][RegNext]_regVars

----------------------------------------------------------------------------
(* A consumer keeps the slot it found and loads its content for each call. *)

\* Caddy is between two configurations.
AtRest == Resting /\ loading = Nobody

\* A name has one slot for ever: whoever looked it up, before or while another made
\* it, shares the slot of the map (dbSlotForName, "stable for the process lifetime").
OneSlotPerName == \A p \in Processes : slot[p] # NoSlot => slot[p] = dbRegistrySlots[NameOf[p]]

\* A slot never holds a closed database, at any step of a reload, a failed start or a
\* stop: a consumer that loads it is refused only if the close came after its load.
SlotHoldsOpenDB == \A p \in Processes : cell[p] # NoDB => cell[p] \in open

\* Between two configurations the only open database, and the only one registered, is
\* the one that serves: failed starts, reloads and stops leave none behind.
OpenIsOwned == AtRest => /\ open = {serving} \ {Nobody} /\ hdb = open
                         /\ \A p \in Processes : cell[p] \in {NoDB, serving}

\* Where a handler is tells whether its database is open, its field set, its slot known
\* and who called it; what serves is up.
LifeCycle ==
    \A h \in Handlers :
        /\ h \in open <=> pc[h] \in {"opened", "find", "create", "store", "up", "cas", "close"}
        /\ h \in hdb <=> h \in open \/ pc[h] = "clear"
        /\ loading = h => pc[h] \in {"new", "opened", "failed", "find", "create", "store", "up"}
        /\ loading # h => pc[h] \in {"new", "up", "find", "create", "cas", "close", "clear", "gone"}
        /\ serving = h <=> pc[h] = "up" /\ loading # h
        /\ pc[h] \in {"store", "up", "cas"} => slot[h] # NoSlot
        /\ pc[h] = "new" \/ (loading = h /\ pc[h] \notin {"store", "up"}) => slot[h] = NoSlot

\* Caddy runs one Provision or Cleanup at a time.
Busy(h) == loading = h \/ pc[h] \notin {"new", "up", "gone"}
OneAtWork == \A h, g \in Handlers : Busy(h) /\ Busy(g) => h = g

\* A slot belongs to the name of the process that made it, holds the database of a
\* handler that has registered there and not yet deregistered, and holds one when a
\* handler of its name has just registered or serves.
CellsFollowHandlers ==
    /\ \A n \in Names : dbRegistrySlots[n] # NoSlot => NameOf[dbRegistrySlots[n]] = n
    /\ \A p \in Processes : cell[p] # NoDB =>
          slot[cell[p]] = p /\ pc[cell[p]] \in {"up", "find", "create", "cas"}
    /\ loading # Nobody /\ pc[loading] = "up" => cell[slot[loading]] = loading
    /\ serving # Nobody /\ NameOf[serving] \notin rolledBack => cell[slot[serving]] # NoDB

\* The registry and the handlers' databases at every step of loads, roll backs, stops
\* and lookups; the last three parts make it inductive.
RegistryInv ==
    /\ RegTypeOK
    /\ OneSlotPerName
    /\ SlotHoldsOpenDB
    /\ OpenIsOwned
    /\ LifeCycle
    /\ OneAtWork
    /\ CellsFollowHandlers

\* "an in-process consumer ... reaches the very same instance" (module.go): while a
\* handler serves its name's slot is never empty, however many reloads, and between
\* two it holds the database that serves.  Only a load that failed after its
\* RegisterDB may take the registration away, until the next handler registers.
SameInstance ==
    \A c \in Consumers :
        slot[c] # NoSlot /\ serving # Nobody /\ NameOf[c] = NameOf[serving] /\ NameOf[c] \notin rolledBack
            => /\ cell[slot[c]] \in open
               /\ AtRest => cell[slot[c]] = serving
=============================================================================
