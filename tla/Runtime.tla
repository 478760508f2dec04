------------------------------ MODULE Runtime ------------------------------
(***************************************************************************)
(* The modules of a process (class Runtime, runtime.cpp), the Module       *)
(* handles clients reach them through (module.cpp, module.h) and the life  *)
(* of a ModuleData: created, unpacked by the JIT, called, packed, dropped, *)
(* and deleted when its last reference goes (retained.h, mdata.cpp).       *)
(*                                                                         *)
(* modules is the set of keys of the std::map.  Its comparison,            *)
(* UUID::operator<, is "memcmp(...) != 0", true of any two different ids,  *)
(* so a search goes right from every node that is not the one sought: it   *)
(* finds the ids on the rightmost path of libstdc++'s tree, the set        *)
(* findable here, and no other.  An insertion goes left all the way, so    *)
(* the new node is not on that path unless it is the root; the path only   *)
(* grows by it.  How an erasure rebalances the tree is left open: the path *)
(* starts at the root, so it is not empty.                                 *)
(***************************************************************************)
EXTENDS Integers, FiniteSets

CONSTANTS ModuleIds,     \* the UUIDs generate() returns, one per module
          Handles,       \* Module objects
          NoId           \* the null UUID

ASSUME IdsAssumption == NoId \notin ModuleIds
ASSUME HandlesAssumption == IsFiniteSet(Handles)

VARIABLES modules, findable,
          data,        \* per id: [refs, dropped, unpacked]; Deleted when gone
          leaked,      \* ids of the llvm::Modules nothing points to any more
          live, id,    \* the handles that exist, and the id each one has
          held,        \* the handles whose iter refers to a map entry
          exc          \* what the last call reported

vars == << modules, findable, data, leaked, live, id, held, exc >>
handles == << live, id, held >>

Absent == [refs |-> 0, dropped |-> FALSE, unpacked |-> FALSE]
Deleted == [refs |-> 0, dropped |-> TRUE, unpacked |-> FALSE]

Init ==
    /\ modules = {} /\ findable = {}
    /\ data = [m \in ModuleIds |-> Absent]
    /\ leaked = {}
    /\ live = {} /\ held = {}
    /\ id = [h \in Handles |-> NoId]
    /\ exc = "ok"

Report(e) == exc' = e

-----------------------------------------------------------------------------
(* Module::id(id) lets the entry the handle holds go.  What                *)
(* Runtime::releaseModuleData then erases: the entry of a dropped module   *)
(* with no reference left but the map's own.                               *)
ErasedNever(h) == {}
ErasedUndropped(h) ==
    IF h \in held /\ data[id[h]].refs - 1 = 1 THEN {id[h]} ELSE {}
ErasedShared(h) == IF h \in held /\ data[id[h]].dropped THEN {id[h]} ELSE {}
Erased(h) ==
    IF h \in held /\ data[id[h]].refs - 1 = 1 /\ data[id[h]].dropped
    THEN {id[h]} ELSE {}

(* The reference counts after that.                                        *)
Released(h) ==
    [m \in ModuleIds |-> IF m \in Erased(h) THEN Deleted
                         ELSE IF h \in held /\ m = id[h]
                              THEN [data[m] EXCEPT !.refs = @ - 1]
                              ELSE data[m]]

(* What can be found among the entries left.                               *)
Rebalanced(entries) == {F \in SUBSET entries : entries # {} => F # {}}

LetGo(h) ==
    /\ data' = Released(h)
    /\ modules' = modules \ Erased(h)
    /\ IF Erased(h) = {} THEN UNCHANGED findable
       ELSE findable' \in Rebalanced(modules')
    /\ held' = held \ {h}

(* Module::Module(id), ~Module, id(id).                                    *)
NewHandle(h, m) ==
    /\ h \notin live
    /\ live' = live \cup {h}
    /\ id' = [id EXCEPT ![h] = m]
    /\ Report("ok")
    /\ UNCHANGED << modules, findable, data, leaked, held >>

DestroyHandleOnly(h) ==
    /\ h \in live
    /\ live' = live \ {h}
    /\ id' = [id EXCEPT ![h] = NoId]
    /\ Report("ok")
    /\ UNCHANGED << modules, findable, data, leaked, held >>
DestroyHandle(h) ==
    /\ h \in live
    /\ LetGo(h)
    /\ live' = live \ {h}
    /\ id' = [id EXCEPT ![h] = NoId]
    /\ Report("ok")
    /\ UNCHANGED leaked

SetId(h, m) ==
    /\ h \in live
    /\ LetGo(h)
    /\ id' = [id EXCEPT ![h] = m]
    /\ Report("ok")
    /\ UNCHANGED << leaked, live >>

-----------------------------------------------------------------------------
(* ModuleBuilder::createModule(module), past its checks: a new id, then    *)
(* insertModuleData (the data's first reference is the map's), then        *)
(* module.id(id).  Insertion and release are one step of the one thread.   *)
Create(h, m) ==
    /\ h \in live
    /\ data[m] = Absent
    /\ modules' = (modules \ Erased(h)) \cup {m}
    /\ data' = [Released(h) EXCEPT ![m] = [refs |-> 1, dropped |-> FALSE,
                                           unpacked |-> FALSE]]
    /\ findable' \in IF Erased(h) # {} THEN Rebalanced(modules')
                     ELSE IF modules = {} THEN {{m}}
                     ELSE {F \in SUBSET modules : findable \subseteq F}
    /\ id' = [id EXCEPT ![h] = m]
    /\ held' = held \ {h}
    /\ Report("ok")
    /\ UNCHANGED << leaked, live >>

-----------------------------------------------------------------------------
(* Module::moduleData(): the handle keeps the entry it found before, or    *)
(* retainModuleData looks it up and takes a reference.  Every other member *)
(* function of Module forwards to the data, and all of those begin with    *)
(* assertNotDropped().                                                     *)
Usable(h) == (h \in held \/ id[h] \in findable) /\ ~data[id[h]].dropped

RetainedAgain(h) == [data EXCEPT ![id[h]].refs = @ + 1]
Retained(h) == IF h \in held THEN data
               ELSE [data EXCEPT ![id[h]].refs = @ + 1]

Refused(h) ==
    /\ h \in live
    /\ ~Usable(h)
    /\ Report("NotFound")
    /\ UNCHANGED << modules, findable, data, leaked, handles >>

Access(h) ==
    /\ h \in live
    /\ Usable(h)
    /\ held' = held \cup {h}
    /\ UNCHANGED << modules, findable, live, id >>

(* varTypeCount .. procById, isPacked; found: the id asked for is in range. *)
Query(h, found) ==
    /\ Access(h)
    /\ data' = Retained(h)
    /\ Report(IF found THEN "ok" ELSE "NotFound")
    /\ UNCHANGED leaked

Pack(h) ==
    /\ Access(h)
    /\ data' = [Retained(h) EXCEPT ![id[h]].unpacked = FALSE]
    /\ Report("ok")
    /\ UNCHANGED leaked

(* unpack(): nothing to do when unpacked.  Otherwise the JIT is set up and *)
(* the code generated; when that fails, pack() cleans up: it deletes the   *)
(* engine, which owns the llvm::Module, if there is one.                   *)
Unpack(h, outcome) ==
    /\ Access(h)
    /\ IF data[id[h]].unpacked
       THEN Report("ok") /\ data' = Retained(h) /\ UNCHANGED leaked
       ELSE \/ /\ outcome = "generated"
               /\ data' = [Retained(h) EXCEPT ![id[h]].unpacked = TRUE]
               /\ Report("ok")
               /\ UNCHANGED leaked
            \/ /\ outcome = "noEngine"       \* EngineBuilder::create fails
               /\ data' = Retained(h)
               /\ leaked' = leaked \cup {id[h]}
               /\ Report("Environment")
            \/ /\ outcome = "notVerified"    \* verifyModule, CONFIG_DEBUG
               /\ data' = Retained(h)
               /\ Report("Bug")
               /\ UNCHANGED leaked

(* drop(): pack(), and the tables are cleared.                             *)
Drop(h) ==
    /\ Access(h)
    /\ data' = [Retained(h) EXCEPT ![id[h]].dropped = TRUE,
                                   ![id[h]].unpacked = FALSE]
    /\ Report("ok")
    /\ UNCHANGED leaked

(* callProc(proc, io): the function is looked up by name, whatever its     *)
(* linkage; what it throws becomes a RuntimeException.                     *)
CallProc(h, found, throws) ==
    /\ Access(h)
    /\ data' = Retained(h)
    /\ Report(IF ~data[id[h]].unpacked THEN "Operation"
              ELSE IF ~found THEN "NotFound"
              ELSE IF throws THEN "Runtime" ELSE "ok")
    /\ UNCHANGED leaked

-----------------------------------------------------------------------------
(* A client may name a module created before or no module at all.          *)
Known == {m \in ModuleIds : data[m] # Absent} \cup {NoId}

Next ==
    \E h \in Handles :
        \/ \E m \in Known : NewHandle(h, m) \/ SetId(h, m)
        \/ DestroyHandle(h)
        \/ \E m \in ModuleIds : Create(h, m)
        \/ Refused(h)
        \/ \E found \in BOOLEAN : Query(h, found)
        \/ Pack(h)
        \/ \E outcome \in {"generated", "noEngine", "notVerified"} :
              Unpack(h, outcome)
        \/ Drop(h)
        \/ \E found, throws \in BOOLEAN : CallProc(h, found, throws)

Spec == Init /\ [][Next]_vars

(* Handles are C++ objects: each is destroyed in the end, by the scope or  *)
(* the owner that holds it.                                                *)
FairSpec == Spec /\ \A h \in Handles : WF_vars(DestroyHandle(h))

-----------------------------------------------------------------------------
Holders(m) == {h \in held : id[h] = m}

(* Every variable has the values the code's types and NULLs allow          *)
(* (runtime.h, module.h, mdata.h:111-124).                                 *)
TypeOK ==
    /\ modules \subseteq ModuleIds
    /\ findable \subseteq modules /\ leaked \subseteq ModuleIds
    /\ data \in [ModuleIds -> [refs : Nat, dropped : BOOLEAN,
                               unpacked : BOOLEAN]]
    /\ live \subseteq Handles /\ held \subseteq live
    /\ id \in [Handles -> ModuleIds \cup {NoId}]
    /\ exc \in {"ok", "NotFound", "Operation", "Environment", "Bug",
                "Runtime"}

(* The reference count of a module in the map is one, the map's, plus one  *)
(* per handle that holds it, and that of any other is zero: retain and     *)
(* release balance over every order of calls (runtime.cpp:10-29,           *)
(* module.cpp:11-32).                                                      *)
RefsMatchHolders ==
    \A m \in ModuleIds :
        data[m].refs = IF m \in modules THEN 1 + Cardinality(Holders(m)) ELSE 0

(* A handle that holds an entry holds one the map has: its iterator and    *)
(* the ModuleData it leads to exist, whatever other handles did in between *)
(* (module.cpp:14-18, 31).                                                 *)
HeldIsMapped == \A h \in held : id[h] \in modules

(* A dropped module stays in the map only while some handle holds it, so   *)
(* the release that finds one reference left is sure to come               *)
(* (runtime.cpp:24-28); and it holds no code of the JIT (mdata.cpp:1067).  *)
DroppedIsHeld ==
    \A m \in modules : data[m].dropped => Holders(m) # {} /\ ~data[m].unpacked

(* Once dropped, a module's storage is reclaimed, given that handles are   *)
(* destroyed in the end (runtime.cpp:24-28).                               *)
DroppedIsReclaimed ==
    \A m \in ModuleIds : data[m].dropped ~> m \notin modules

(* Refinement: erasing an entry is invisible to clients.                   *)
LifeOf(d) ==
    IF d = Absent THEN "absent"
    ELSE IF d.dropped THEN "dropped"
    ELSE IF d.unpacked THEN "unpacked" ELSE "packed"
StoreView == [m \in ModuleIds |-> LifeOf(data[m])]
Store == INSTANCE ModuleStore WITH store <- StoreView, attached <- held

(* Seen through the handles, the map, the counts and the deletions are     *)
(* ModuleStore: a handle attached to a module keeps it until it is dropped *)
(* and a dropped one is gone for every handle.                             *)
ImplementsStore == Store!Spec

-----------------------------------------------------------------------------
(* What the code, its documentation or its tests say and the code refutes. *)

(* A module that was not dropped can be found by its id: retainModuleData  *)
(* looks it up with modules.find(id) (runtime.cpp:11).                     *)
EveryModuleFound == \A m \in modules : ~data[m].dropped => m \in findable

(* "llvmEE already deleted llvmModule" (mdata.cpp:202).                    *)
NothingLeaks == leaked = {}
=============================================================================
