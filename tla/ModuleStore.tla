---------------------------- MODULE ModuleStore ----------------------------
(***************************************************************************)
(* What class Module promises a client: modules live in one store, a       *)
(* handle names one of them, and a module can be packed, unpacked, called  *)
(* and dropped through any handle.  Memory management is not visible here: *)
(* there is no map, no reference count, no deletion.                       *)
(***************************************************************************)
CONSTANTS ModuleIds, Handles, NoId

VARIABLES store,     \* where each module is in its life
          live,      \* the handles that exist
          id,        \* the id each handle has
          attached,  \* the handles that have found their module
          exc        \* what the last call reported

vars == << store, live, id, attached, exc >>

Init ==
    /\ store = [m \in ModuleIds |-> "absent"]
    /\ live = {} /\ attached = {}
    /\ id = [h \in Handles |-> NoId]
    /\ exc = "ok"

Accessible(m) == store[m] \in {"packed", "unpacked"}

(* Handles come and go, and change the module they name.                   *)
New(h) ==
    /\ h \notin live
    /\ live' = live \cup {h}
    /\ \E m \in ModuleIds \cup {NoId} : id' = [id EXCEPT ![h] = m]
    /\ exc' = "ok"
    /\ UNCHANGED << store, attached >>

Delete(h) ==
    /\ live' = live \ {h}
    /\ id' = [id EXCEPT ![h] = NoId]
    /\ attached' = attached \ {h}
    /\ exc' = "ok"
    /\ UNCHANGED store

Bind(h) ==
    /\ \E m \in ModuleIds \cup {NoId} : id' = [id EXCEPT ![h] = m]
    /\ attached' = attached \ {h}
    /\ exc' = "ok"
    /\ UNCHANGED << store, live >>

(* A module is created once, under an id of its own.                       *)
Create(h) ==
    \E m \in ModuleIds :
        /\ store[m] = "absent"
        /\ store' = [store EXCEPT ![m] = "packed"]
        /\ id' = [id EXCEPT ![h] = m]
        /\ attached' = attached \ {h}
        /\ exc' = "ok"
        /\ UNCHANGED live

(* A use of the module reports NotFound when there is none or it has been  *)
(* dropped.  A handle not attached yet may also fail to find it; one that  *)
(* is attached never does until the module is dropped.                     *)
NotFound(h) ==
    /\ IF h \in attached THEN ~Accessible(id[h]) ELSE TRUE
    /\ exc' = "NotFound"
    /\ UNCHANGED << store, live, id, attached >>

Use(h, m, state, reported) ==
    /\ id[h] = m /\ m \in ModuleIds /\ Accessible(m)
    /\ attached' = attached \cup {h}
    /\ store' = [store EXCEPT ![m] = state]
    /\ exc' \in reported
    /\ UNCHANGED << live, id >>

Operate(h) ==
    \E m \in ModuleIds :
        \/ Use(h, m, store[m], {"ok", "NotFound"})           \* queries
        \/ Use(h, m, "packed", {"ok"})                       \* pack
        \/ Use(h, m, "unpacked", {"ok"})                     \* unpack
        \/ store[m] = "packed" /\ Use(h, m, "packed", {"Environment", "Bug"})
        \/ Use(h, m, "dropped", {"ok"})                      \* drop
        \/ store[m] = "packed" /\ Use(h, m, "packed", {"Operation"})
        \/ /\ store[m] = "unpacked"                          \* callProc
           /\ Use(h, m, "unpacked", {"ok", "NotFound", "Runtime"})

Next ==
    \E h \in Handles :
        \/ New(h)
        \/ h \in live /\ (Delete(h) \/ Bind(h) \/ Create(h) \/ NotFound(h)
                            \/ Operate(h))

Spec == Init /\ [][Next]_vars
=============================================================================
