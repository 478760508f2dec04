--------------------------- MODULE RuntimeProofs ---------------------------
(***************************************************************************)
(* Reference counting is right for any number of modules and handles.      *)
(* RefsMatchHolders is what makes the rest work: with it a release that    *)
(* finds one reference left knows no other handle holds the entry, so      *)
(* erasing it leaves no handle behind (HeldIsMapped), and a dropped entry  *)
(* it does not erase still has a holder (DroppedIsHeld).                   *)
(***************************************************************************)
EXTENDS Runtime, FiniteSetTheorems, TLAPS

(* What is not in the map has not been created, or is gone.                *)
UnmappedIsGone == \A m \in ModuleIds \ modules : data[m] \in {Absent, Deleted}

IInv == TypeOK /\ RefsMatchHolders /\ HeldIsMapped /\ DroppedIsHeld
          /\ UnmappedIsGone

-----------------------------------------------------------------------------
(* The holders of an entry are finitely many handles.                      *)
LEMMA HoldersFinite ==
    ASSUME TypeOK, NEW m
    PROVE  IsFiniteSet(Holders(m)) /\ Cardinality(Holders(m)) \in Nat
  <1>1. Holders(m) \in SUBSET Handles
    BY DEF TypeOK, Holders
  <1>. QED  BY <1>1, HandlesAssumption, FS_Subset, FS_CardinalityType

(* RefsMatchHolders without IF, the form the provers take.                 *)
LEMMA Counts ==
    ASSUME IInv, NEW m \in ModuleIds
    PROVE  /\ m \in modules => data[m].refs = 1 + Cardinality(Holders(m))
           /\ m \notin modules => data[m].refs = 0
  BY DEF IInv, RefsMatchHolders

(* What a handle that lets go leaves behind: an erased entry has no other  *)
(* holder, and every other entry's count goes down with its holders.       *)
LEMMA LettingGo ==
    ASSUME IInv, NEW h \in Handles, NEW m \in ModuleIds
    PROVE  /\ m \in Erased(h) => m \in modules /\ Holders(m) \ {h} = {}
           /\ m \in modules \ Erased(h) =>
                /\ Released(h)[m].refs = 1 + Cardinality(Holders(m) \ {h})
                /\ Released(h)[m].dropped = data[m].dropped
                /\ Released(h)[m].unpacked = data[m].unpacked
                /\ data[m].dropped => Holders(m) \ {h} # {}
           /\ m \in Erased(h) => Released(h)[m] = Deleted
           /\ m \notin modules => Released(h)[m] = data[m]
           /\ Released(h)[m] \in [refs : Nat, dropped : BOOLEAN,
                                  unpacked : BOOLEAN]
  <1>. DEFINE H == Holders(m)
  <1>1. /\ IsFiniteSet(H) /\ Cardinality(H) \in Nat
        /\ IsFiniteSet(H \ {h}) /\ Cardinality(H \ {h}) \in Nat
        /\ h \in H => Cardinality(H \ {h}) = Cardinality(H) - 1
        /\ h \notin H => H \ {h} = H
    BY HoldersFinite, FS_RemoveElement, FS_CardinalityType DEF IInv
  <1>2. data[m] \in [refs : Nat, dropped : BOOLEAN, unpacked : BOOLEAN]
    BY DEF IInv, TypeOK
  <1>3. h \in H <=> h \in held /\ id[h] = m
    BY DEF Holders
  <1>4. CASE m \in Erased(h)
    <2>1. /\ h \in H /\ data[m].refs - 1 = 1
      BY <1>3, <1>4 DEF Erased
    <2>2. m \in modules
      BY <2>1, <1>3 DEF IInv, HeldIsMapped
    <2>3. Cardinality(H \ {h}) = 0
      <3>1. data[m].refs = 1 + Cardinality(H)
        BY <2>2, Counts
      <3>. QED  BY <1>1, <2>1, <3>1
    <2>4. H \ {h} = {}
      BY <2>3, <1>1, FS_EmptySet
    <2>5. Released(h)[m] = Deleted
      BY <1>4 DEF Released
    <2>6. Released(h)[m] \in [refs : Nat, dropped : BOOLEAN,
                              unpacked : BOOLEAN]
      BY <2>5 DEF Deleted
    <2>7. m \notin modules \ Erased(h)
      BY <1>4
    <2>. QED  BY <2>2, <2>4, <2>5, <2>6, <2>7
  <1>5. CASE m \notin Erased(h) /\ h \in H
    <2>1. m \in modules
      BY <1>3, <1>5 DEF IInv, HeldIsMapped
    <2>2. data[m].refs = 1 + Cardinality(H)
      BY <2>1, Counts
    <2>3. Released(h)[m] = [data[m] EXCEPT !.refs = @ - 1]
      BY <1>3, <1>5 DEF Released
    <2>4. /\ Released(h)[m].refs = data[m].refs - 1
          /\ Released(h)[m].dropped = data[m].dropped
          /\ Released(h)[m].unpacked = data[m].unpacked
          /\ data[m].refs - 1 = 1 + Cardinality(H \ {h})
      BY <2>2, <2>3, <1>1, <1>2, <1>5
    <2>5. Released(h)[m] \in [refs : Nat, dropped : BOOLEAN,
                              unpacked : BOOLEAN]
      BY <2>3, <2>4, <1>1, <1>2
    <2>6. data[m].dropped => H \ {h} # {}
      <3>1. SUFFICES ASSUME data[m].dropped, H \ {h} = {} PROVE FALSE
        OBVIOUS
      <3>2. Cardinality(H \ {h}) = 0
        BY <3>1, FS_EmptySet
      <3>3. data[m].refs - 1 = 1
        BY <2>4, <3>2
      <3>. QED  BY <3>1, <3>3, <1>3, <1>5 DEF Erased
    <2>. QED  BY <2>1, <2>4, <2>5, <2>6, <1>5
  <1>6. CASE m \notin Erased(h) /\ h \notin H
    <2>1. Released(h)[m] = data[m]
      BY <1>3, <1>6 DEF Released
    <2>2. H \ {h} = H
      BY <1>1, <1>6
    <2>3. m \in modules => data[m].refs = 1 + Cardinality(H)
      BY Counts
    <2>4. m \in modules => (data[m].dropped => H # {})
      BY DEF IInv, DroppedIsHeld
    <2>. QED  BY <2>1, <2>2, <2>3, <2>4, <1>2, <1>6
  <1>. QED  BY <1>4, <1>5, <1>6

(* RefsMatchHolders from its two cases.                                    *)
LEMMA CountsPrime ==
    ASSUME \A m \in ModuleIds :
              /\ m \in modules' => data'[m].refs = 1 + Cardinality(Holders(m)')
              /\ m \notin modules' => data'[m].refs = 0
    PROVE  RefsMatchHolders'
  BY DEF RefsMatchHolders

(* Who holds an entry after h has let go, whatever h is bound to then.     *)
LEMMA HoldersLeft ==
    ASSUME NEW h, held' = held \ {h}, \A g \in held \ {h} : id'[g] = id[g],
           NEW m
    PROVE  Holders(m)' = Holders(m) \ {h}
  BY DEF Holders

(* What data a module has after h has let go.                              *)
LEMMA ReleasedType ==
    ASSUME IInv, NEW h \in Handles
    PROVE  Released(h) \in [ModuleIds -> [refs : Nat, dropped : BOOLEAN,
                                          unpacked : BOOLEAN]]
  <1>1. \A m \in ModuleIds :
            Released(h)[m] \in [refs : Nat, dropped : BOOLEAN,
                                unpacked : BOOLEAN]
    BY LettingGo
  <1>2. Released(h) = [m \in ModuleIds |-> Released(h)[m]]
    BY DEF Released
  <1>. QED  BY <1>1, <1>2

-----------------------------------------------------------------------------
(* A handle is destroyed or bound to another id.                           *)
LEMMA LetGoStep ==
    ASSUME IInv, NEW h \in Handles, LetGo(h),
           \A g \in held \ {h} : id'[g] = id[g]
    PROVE  /\ RefsMatchHolders' /\ HeldIsMapped' /\ DroppedIsHeld'
           /\ UnmappedIsGone'
           /\ modules' \subseteq ModuleIds /\ findable' \subseteq modules'
           /\ data' \in [ModuleIds -> [refs : Nat, dropped : BOOLEAN,
                                       unpacked : BOOLEAN]]
  <1>1. /\ data' = Released(h) /\ modules' = modules \ Erased(h)
        /\ held' = held \ {h}
    BY DEF LetGo
  <1>2. \A m : Holders(m)' = Holders(m) \ {h}
    BY <1>1, HoldersLeft
  <1>3. RefsMatchHolders'
    <2>1. ASSUME NEW m \in ModuleIds, m \in modules'
          PROVE  data'[m].refs = 1 + Cardinality(Holders(m)')
      BY <1>1, <1>2, <2>1, LettingGo
    <2>2. ASSUME NEW m \in ModuleIds, m \notin modules'
          PROVE  data'[m].refs = 0
      <3>1. CASE m \in Erased(h)
        <4>1. data'[m] = Deleted
          BY <1>1, <3>1, LettingGo
        <4>. QED  BY <4>1 DEF Deleted
      <3>2. CASE m \notin modules
        BY <1>1, <3>2, LettingGo, Counts
      <3>. QED  BY <1>1, <2>2, <3>1, <3>2
    <2>. QED  BY <2>1, <2>2, CountsPrime
  <1>4. HeldIsMapped'
    <2>1. SUFFICES ASSUME NEW g \in held \ {h} PROVE id[g] \in modules \ Erased(h)
      BY <1>1 DEF HeldIsMapped
    <2>2. id[g] \in modules /\ id[g] \in ModuleIds
      BY DEF IInv, HeldIsMapped, TypeOK
    <2>3. g \in Holders(id[g]) \ {h}
      BY DEF Holders
    <2>. QED  BY <2>2, <2>3, LettingGo
  <1>5. DroppedIsHeld'
    <2>1. SUFFICES ASSUME NEW m \in modules \ Erased(h), Released(h)[m].dropped
                   PROVE  Holders(m) \ {h} # {} /\ ~Released(h)[m].unpacked
      BY <1>1, <1>2 DEF DroppedIsHeld
    <2>2. m \in ModuleIds
      BY DEF IInv, TypeOK
    <2>3. data[m].dropped /\ Released(h)[m].unpacked = data[m].unpacked
      BY <2>1, <2>2, LettingGo
    <2>. QED  BY <2>1, <2>2, <2>3, LettingGo DEF IInv, DroppedIsHeld
  <1>6. UnmappedIsGone'
    <2>1. ASSUME NEW m \in ModuleIds \ modules'
          PROVE  data'[m] \in {Absent, Deleted}
      <3>1. CASE m \in Erased(h)
        BY <1>1, <3>1, LettingGo
      <3>2. CASE m \notin modules
        BY <1>1, <3>2, LettingGo DEF IInv, UnmappedIsGone
      <3>. QED  BY <1>1, <2>1, <3>1, <3>2
    <2>. QED  BY <2>1 DEF UnmappedIsGone, Absent, Deleted
  <1>7. modules' \subseteq ModuleIds /\ findable' \subseteq modules'
    BY <1>1 DEF IInv, TypeOK, LetGo, Rebalanced
  <1>. QED  BY <1>1, <1>3, <1>4, <1>5, <1>6, <1>7, ReleasedType

(* Destroying a handle.                                                    *)
LEMMA DestroyStep ==
    ASSUME IInv, NEW h \in Handles, DestroyHandle(h)
    PROVE  IInv'
  <1>1. LetGo(h) /\ \A g \in held \ {h} : id'[g] = id[g]
    BY DEF DestroyHandle, IInv, TypeOK
  <1>2. /\ live' \subseteq Handles /\ held' \subseteq live'
        /\ id' \in [Handles -> ModuleIds \cup {NoId}]
        /\ leaked' \subseteq ModuleIds
        /\ exc' = "ok"
    BY DEF DestroyHandle, LetGo, IInv, TypeOK, Report
  <1>. QED  BY <1>1, <1>2, LetGoStep DEF IInv, TypeOK

(* Binding a handle to another id.                                         *)
LEMMA SetIdStep ==
    ASSUME IInv, NEW h \in Handles, NEW m \in ModuleIds \cup {NoId}, SetId(h, m)
    PROVE  IInv'
  <1>1. LetGo(h) /\ \A g \in held \ {h} : id'[g] = id[g]
    BY DEF SetId, IInv, TypeOK
  <1>2. /\ live' \subseteq Handles /\ held' \subseteq live'
        /\ id' \in [Handles -> ModuleIds \cup {NoId}]
        /\ leaked' \subseteq ModuleIds
        /\ exc' = "ok"
    BY DEF SetId, LetGo, IInv, TypeOK, Report
  <1>. QED  BY <1>1, <1>2, LetGoStep DEF IInv, TypeOK

(* Constructing a handle.                                                  *)
LEMMA NewStep ==
    ASSUME IInv, NEW h \in Handles, NEW m \in ModuleIds \cup {NoId},
           NewHandle(h, m)
    PROVE  IInv'
  <1>1. /\ UNCHANGED << modules, findable, data, leaked, held >>
        /\ \A g \in held : id'[g] = id[g]
    BY DEF NewHandle, IInv, TypeOK
  <1>2. \A n : Holders(n)' = Holders(n)
    BY <1>1 DEF Holders
  <1>3. /\ live' \subseteq Handles /\ held' \subseteq live'
        /\ id' \in [Handles -> ModuleIds \cup {NoId}]
        /\ exc' = "ok"
    BY DEF NewHandle, IInv, TypeOK, Report
  <1>4. RefsMatchHolders'
    BY <1>1, <1>2, Counts, CountsPrime
  <1>5. HeldIsMapped' /\ UnmappedIsGone'
    BY <1>1 DEF IInv, HeldIsMapped, UnmappedIsGone, Absent, Deleted
  <1>6. DroppedIsHeld'
    BY <1>1, <1>2 DEF IInv, DroppedIsHeld
  <1>. QED  BY <1>1, <1>3, <1>4, <1>5, <1>6 DEF IInv, TypeOK

(* Creating a module through a handle, which lets go of the one it held.   *)
LEMMA CreateStep ==
    ASSUME IInv, NEW h \in Handles, NEW m \in ModuleIds, Create(h, m)
    PROVE  IInv'
  <1>. DEFINE New == [refs |-> 1, dropped |-> FALSE, unpacked |-> FALSE]
  <1>1. /\ data' = [Released(h) EXCEPT ![m] = New]
        /\ modules' = (modules \ Erased(h)) \cup {m}
        /\ held' = held \ {h}
        /\ id' = [id EXCEPT ![h] = m]
        /\ data[m] = Absent
    BY DEF Create
  <1>2. New \in [refs : Nat, dropped : BOOLEAN, unpacked : BOOLEAN]
    OBVIOUS
  <1>3. data' \in [ModuleIds -> [refs : Nat, dropped : BOOLEAN,
                                unpacked : BOOLEAN]]
    BY <1>1, <1>2, ReleasedType
  <1>4. data'[m] = New /\ \A n \in ModuleIds \ {m} : data'[n] = Released(h)[n]
    BY <1>1, ReleasedType
  <1>5. m \notin modules
    <2>1. SUFFICES ASSUME m \in modules PROVE FALSE
      OBVIOUS
    <2>2. data[m].refs = 1 + Cardinality(Holders(m))
      BY <2>1, Counts
    <2>3. Cardinality(Holders(m)) \in Nat
      BY HoldersFinite DEF IInv
    <2>. QED  BY <1>1, <2>2, <2>3 DEF Absent
  <1>6. \A n : Holders(n)' = Holders(n) \ {h}
    <2>1. \A g \in held \ {h} : id'[g] = id[g]
      BY <1>1 DEF IInv, TypeOK
    <2>. QED  BY <1>1, <2>1, HoldersLeft
  <1>7. Holders(m)' = {} /\ Cardinality(Holders(m)') = 0
    <2>1. Holders(m)' = {}
      BY <1>5, <1>6 DEF IInv, HeldIsMapped, Holders
    <2>. QED  BY <2>1, FS_EmptySet
  <1>8. modules' \subseteq ModuleIds /\ findable' \subseteq modules'
    <2>1. modules' \subseteq ModuleIds
      BY <1>1 DEF IInv, TypeOK
    <2>2. CASE Erased(h) # {}
      <3>1. findable' \in Rebalanced(modules')
        BY <2>2 DEF Create
      <3>. QED  BY <2>1, <3>1 DEF Rebalanced
    <2>3. CASE Erased(h) = {}
      <3>1. findable' = {m} \/ findable' \subseteq modules
        <4>1. CASE modules = {}
          BY <2>3, <4>1 DEF Create
        <4>2. CASE modules # {}
          BY <2>3, <4>2 DEF Create
        <4>. QED  BY <4>1, <4>2
      <3>. QED  BY <1>1, <2>1, <2>3, <3>1
    <2>. QED  BY <2>1, <2>2, <2>3
  <1>9. RefsMatchHolders'
    <2>1. ASSUME NEW n \in ModuleIds, n \in modules'
          PROVE  data'[n].refs = 1 + Cardinality(Holders(n)')
      <3>1. CASE n = m
        <4>1. data'[n].refs = 1
          BY <1>4, <3>1
        <4>. QED  BY <4>1, <1>7, <3>1
      <3>2. CASE n # m
        BY <1>1, <1>4, <1>6, <2>1, <3>2, LettingGo
      <3>. QED  BY <3>1, <3>2
    <2>2. ASSUME NEW n \in ModuleIds, n \notin modules'
          PROVE  data'[n].refs = 0
      <3>1. n # m /\ data'[n] = Released(h)[n]
        BY <1>1, <1>4, <2>2
      <3>2. CASE n \in Erased(h)
        <4>1. data'[n] = Deleted
          BY <3>1, <3>2, LettingGo
        <4>. QED  BY <4>1 DEF Deleted
      <3>3. CASE n \notin modules
        <4>1. Released(h)[n] = data[n] /\ data[n].refs = 0
          BY <3>3, LettingGo, Counts
        <4>. QED  BY <3>1, <4>1
      <3>. QED  BY <1>1, <2>2, <3>2, <3>3
    <2>. QED  BY <2>1, <2>2, CountsPrime
  <1>10. HeldIsMapped'
    <2>1. SUFFICES ASSUME NEW g \in held \ {h}
                   PROVE  id'[g] \in modules'
      BY <1>1 DEF HeldIsMapped
    <2>2. id[g] \in modules /\ id[g] \in ModuleIds /\ id'[g] = id[g]
      BY <1>1 DEF IInv, HeldIsMapped, TypeOK
    <2>3. id[g] \notin Erased(h)
      <3>1. g \in Holders(id[g]) \ {h}
        BY DEF Holders
      <3>. QED  BY <2>2, <3>1, LettingGo
    <2>. QED  BY <1>1, <2>2, <2>3
  <1>11. DroppedIsHeld'
    <2>1. SUFFICES ASSUME NEW n \in modules', data'[n].dropped
                   PROVE  Holders(n)' # {} /\ ~data'[n].unpacked
      BY DEF DroppedIsHeld
    <2>2. n # m
      BY <1>4, <2>1
    <2>3. /\ n \in ModuleIds /\ n \in modules \ Erased(h)
          /\ data'[n] = Released(h)[n]
      BY <1>1, <1>4, <1>8, <2>2
    <2>4. data[n].dropped /\ Released(h)[n].unpacked = data[n].unpacked
      BY <2>1, <2>3, LettingGo
    <2>. QED  BY <1>6, <2>3, <2>4, LettingGo DEF IInv, DroppedIsHeld
  <1>12. UnmappedIsGone'
    <2>1. ASSUME NEW n \in ModuleIds \ modules'
          PROVE  data'[n] \in {Absent, Deleted}
      <3>1. n # m /\ data'[n] = Released(h)[n]
        BY <1>1, <1>4, <2>1
      <3>2. CASE n \in Erased(h)
        BY <3>1, <3>2, LettingGo
      <3>3. CASE n \notin modules
        BY <3>1, <3>3, LettingGo DEF IInv, UnmappedIsGone
      <3>. QED  BY <1>1, <2>1, <3>2, <3>3
    <2>. QED  BY <2>1 DEF UnmappedIsGone, Absent, Deleted
  <1>13. /\ live' \subseteq Handles /\ held' \subseteq live'
         /\ id' \in [Handles -> ModuleIds \cup {NoId}]
         /\ leaked' \subseteq ModuleIds
         /\ exc' = "ok"
    BY DEF Create, IInv, TypeOK, Report
  <1>. QED  BY <1>3, <1>8, <1>9, <1>10, <1>11, <1>12, <1>13 DEF IInv, TypeOK

-----------------------------------------------------------------------------
(* What an operation through h leaves: h's reference and the two flags.    *)
Flagged(h, dropped, unpacked) ==
    [Retained(h) EXCEPT ![id[h]].dropped = dropped, ![id[h]].unpacked = unpacked]

(* The effect of one: only h's module changes.                              *)
OnlyTouches(h, dropped, unpacked) ==
    \E m \in ModuleIds :
        /\ m = id[h] /\ m \in modules
        /\ data' \in [ModuleIds -> [refs : Nat, dropped : BOOLEAN,
                                    unpacked : BOOLEAN]]
        /\ data'[m].refs = 1 + Cardinality(Holders(m) \cup {h})
        /\ data'[m].refs # 0
        /\ data'[m].dropped = dropped /\ data'[m].unpacked = unpacked
        /\ \A n \in ModuleIds \ {m} : data'[n] = data[n]

(* Any use of a module through a handle: the count goes up if the handle   *)
(* did not hold the entry before, the flags become whatever the operation  *)
(* makes of them, and no other module changes.                             *)
LEMMA AccessData ==
    ASSUME IInv, NEW h \in Handles, Access(h),
           NEW dropped \in BOOLEAN, NEW unpacked \in BOOLEAN,
           data' = Flagged(h, dropped, unpacked)
    PROVE  OnlyTouches(h, dropped, unpacked)
  <1>2. PICK m \in ModuleIds : m = id[h] /\ m \in modules
    BY DEF Access, Usable, IInv, TypeOK, HeldIsMapped
  <1>. DEFINE H == Holders(m)
  <1>3. /\ IsFiniteSet(H) /\ Cardinality(H) \in Nat
        /\ h \notin H => Cardinality(H \cup {h}) = Cardinality(H) + 1
        /\ h \in H => H \cup {h} = H
        /\ h \in H <=> h \in held
    <2>1. IsFiniteSet(H) /\ Cardinality(H) \in Nat
      BY HoldersFinite DEF IInv
    <2>2. h \notin H => Cardinality(H \cup {h}) = Cardinality(H) + 1
      BY <2>1, FS_AddElement
    <2>3. h \in H <=> h \in held
      BY <1>2 DEF Holders
    <2>. QED  BY <2>1, <2>2, <2>3
  <1>4. data[m].refs = 1 + Cardinality(H)
    BY <1>2, Counts
  <1>5. data \in [ModuleIds -> [refs : Nat, dropped : BOOLEAN,
                               unpacked : BOOLEAN]]
    BY DEF IInv, TypeOK
  <1>6. /\ Retained(h) \in [ModuleIds -> [refs : Nat, dropped : BOOLEAN,
                                          unpacked : BOOLEAN]]
        /\ Retained(h)[m].refs = 1 + Cardinality(H \cup {h})
        /\ \A n \in ModuleIds \ {m} : Retained(h)[n] = data[n]
    <2>1. CASE h \in held
      BY <1>3, <1>4, <1>5, <2>1 DEF Retained
    <2>2. CASE h \notin held
      <3>1. Retained(h) = [data EXCEPT ![m].refs = @ + 1]
        BY <1>2, <2>2 DEF Retained
      <3>2. Retained(h)[m].refs = data[m].refs + 1
        BY <3>1, <1>2, <1>5
      <3>. QED  BY <1>2, <1>3, <1>4, <1>5, <2>2, <3>1, <3>2
    <2>. QED  BY <2>1, <2>2
  <1>7. /\ data' \in [ModuleIds -> [refs : Nat, dropped : BOOLEAN,
                                    unpacked : BOOLEAN]]
        /\ data'[m].refs = Retained(h)[m].refs
        /\ data'[m].dropped = dropped /\ data'[m].unpacked = unpacked
        /\ \A n \in ModuleIds \ {m} : data'[n] = data[n]
    <2>. DEFINE r == [Retained(h)[m] EXCEPT !.dropped = dropped]
                q == [r EXCEPT !.unpacked = unpacked]
    <2>1. /\ r \in [refs : Nat, dropped : BOOLEAN, unpacked : BOOLEAN]
          /\ r.refs = Retained(h)[m].refs /\ r.dropped = dropped
      BY <1>6
    <2>2. data' = [Retained(h) EXCEPT ![m] = q]
      BY <1>2, <1>6 DEF Flagged
    <2>. HIDE DEF r
    <2>3. /\ q \in [refs : Nat, dropped : BOOLEAN, unpacked : BOOLEAN]
          /\ q.refs = Retained(h)[m].refs
          /\ q.dropped = dropped /\ q.unpacked = unpacked
      BY <2>1
    <2>. HIDE DEF q
    <2>4. data'[m] = q /\ \A n \in ModuleIds \ {m} : data'[n] = Retained(h)[n]
      BY <2>2, <1>6
    <2>5. data' \in [ModuleIds -> [refs : Nat, dropped : BOOLEAN,
                                  unpacked : BOOLEAN]]
      BY <2>2, <2>3, <1>6
    <2>. QED  BY <2>3, <2>4, <2>5, <1>6
  <1>8. Cardinality(H \cup {h}) \in Nat
    BY <1>3, FS_AddElement, FS_CardinalityType
  <1>9. data'[m].refs = 1 + Cardinality(Holders(m) \cup {h}) /\ data'[m].refs # 0
    BY <1>6, <1>7, <1>8
  <1>. QED  BY <1>2, <1>7, <1>9 DEF OnlyTouches

(* The handle comes to hold the entry, and the counts stay right.          *)
LEMMA AccessStep ==
    ASSUME IInv, NEW h \in Handles, Access(h),
           NEW dropped \in BOOLEAN, NEW unpacked \in BOOLEAN,
           ~(dropped /\ unpacked),
           data' = Flagged(h, dropped, unpacked),
           leaked' \subseteq ModuleIds,
           exc' \in {"ok", "NotFound", "Operation", "Environment", "Bug",
                     "Runtime"}
    PROVE  IInv'
  <1>1. /\ held' = held \cup {h} /\ h \in live
        /\ UNCHANGED << modules, findable, live, id >>
    BY DEF Access
  <1>2. PICK m \in ModuleIds :
        /\ m = id[h] /\ m \in modules
        /\ data' \in [ModuleIds -> [refs : Nat, dropped : BOOLEAN,
                                    unpacked : BOOLEAN]]
        /\ data'[m].refs = 1 + Cardinality(Holders(m) \cup {h})
        /\ data'[m].refs # 0
        /\ data'[m].dropped = dropped /\ data'[m].unpacked = unpacked
        /\ \A n \in ModuleIds \ {m} : data'[n] = data[n]
    <2>1. OnlyTouches(h, dropped, unpacked)
      BY AccessData
    <2>. QED  BY <2>1 DEF OnlyTouches
  <1>3. /\ data' \in [ModuleIds -> [refs : Nat, dropped : BOOLEAN,
                                    unpacked : BOOLEAN]]
        /\ data'[m].refs = 1 + Cardinality(Holders(m) \cup {h})
        /\ data'[m].dropped = dropped /\ data'[m].unpacked = unpacked
        /\ \A n \in ModuleIds \ {m} : data'[n] = data[n]
    BY <1>2
  <1>8. Holders(m)' = Holders(m) \cup {h} /\ \A n : n # m => Holders(n)' = Holders(n)
    BY <1>1, <1>2 DEF Holders
  <1>9. RefsMatchHolders'
    <2>1. ASSUME NEW n \in ModuleIds, n \in modules'
          PROVE  data'[n].refs = 1 + Cardinality(Holders(n)')
      <3>1. CASE n = m
        <4>1. data'[m].refs = 1 + Cardinality(Holders(m)')
          BY <1>3, <1>8
        <4>. QED  BY <3>1, <4>1
      <3>2. CASE n # m
        BY <1>1, <1>3, <1>8, <2>1, <3>2, Counts
      <3>. QED  BY <3>1, <3>2
    <2>2. ASSUME NEW n \in ModuleIds, n \notin modules'
          PROVE  data'[n].refs = 0
      BY <1>1, <1>2, <1>3, <2>2, Counts
    <2>. QED  BY <2>1, <2>2, CountsPrime
  <1>10. HeldIsMapped'
    BY <1>1, <1>2, <1>3 DEF IInv, HeldIsMapped
  <1>11. DroppedIsHeld'
    <2>1. SUFFICES ASSUME NEW n \in modules, data'[n].dropped
                   PROVE  Holders(n)' # {} /\ ~data'[n].unpacked
      BY <1>1 DEF DroppedIsHeld
    <2>2. CASE n = m
      BY <1>3, <1>8, <2>1, <2>2
    <2>3. CASE n # m
      <3>1. data'[n] = data[n] /\ Holders(n)' = Holders(n)
        BY <1>3, <1>8, <2>3 DEF IInv, TypeOK
      <3>. QED  BY <2>1, <3>1 DEF IInv, DroppedIsHeld
    <2>. QED  BY <2>2, <2>3
  <1>12. UnmappedIsGone'
    <2>1. ASSUME NEW n \in ModuleIds \ modules'
          PROVE  data'[n] \in {Absent, Deleted}
      BY <1>1, <1>2, <1>3, <2>1 DEF IInv, UnmappedIsGone
    <2>. QED  BY <2>1 DEF UnmappedIsGone, Absent, Deleted
  <1>. QED  BY <1>1, <1>3, <1>9, <1>10, <1>11, <1>12 DEF IInv, TypeOK

(* The flags an operation does not touch are those the module had: it was  *)
(* not dropped.                                                            *)
LEMMA SameFlags ==
    ASSUME IInv, NEW h \in Handles, Access(h)
    PROVE  /\ data[id[h]].unpacked \in BOOLEAN
           /\ Retained(h) = Flagged(h, FALSE, data[id[h]].unpacked)
           /\ \A u \in BOOLEAN :
                 [Retained(h) EXCEPT ![id[h]].unpacked = u] = Flagged(h, FALSE, u)
  <1>. DEFINE D == [ModuleIds -> [refs : Nat, dropped : BOOLEAN,
                                  unpacked : BOOLEAN]]
  <1>2. PICK m \in ModuleIds : m = id[h] /\ m \in modules /\ ~data[m].dropped
    BY DEF Access, Usable, IInv, TypeOK, HeldIsMapped
  <1>3. data \in D
    BY DEF IInv, TypeOK
  <1>4. data[m].dropped = FALSE /\ data[m].unpacked \in BOOLEAN
    BY <1>2, <1>3
  <1>5. PICK u \in BOOLEAN : u = data[m].unpacked
    BY <1>4
  <1>6. /\ Retained(h) \in D
        /\ Retained(h)[m].dropped = FALSE /\ Retained(h)[m].unpacked = u
    <2>1. CASE h \in held
      BY <1>3, <1>4, <1>5, <2>1 DEF Retained
    <2>2. CASE h \notin held
      <3>1. Retained(h) = [data EXCEPT ![m].refs = @ + 1]
        BY <1>2, <2>2 DEF Retained
      <3>. QED  BY <1>3, <1>4, <1>5, <3>1
    <2>. QED  BY <2>1, <2>2
  <1>7. Retained(h) = Flagged(h, FALSE, data[id[h]].unpacked)
    BY <1>2, <1>5, <1>6 DEF Flagged
  <1>8. ASSUME NEW v \in BOOLEAN
        PROVE  [Retained(h) EXCEPT ![id[h]].unpacked = v] = Flagged(h, FALSE, v)
    BY <1>2, <1>6 DEF Flagged
  <1>. QED  BY <1>2, <1>4, <1>7, <1>8

(* The operations that look the module up, each as an AccessStep: the      *)
(* flags it leaves.                                                        *)
LEMMA UseStep ==
    ASSUME IInv, NEW h \in Handles,
           \/ \E found \in BOOLEAN : Query(h, found)
           \/ Pack(h) \/ Drop(h)
           \/ \E outcome : Unpack(h, outcome)
           \/ \E found, throws \in BOOLEAN : CallProc(h, found, throws)
    PROVE  IInv'
  <1>1. Access(h)
    BY DEF Query, Pack, Drop, Unpack, CallProc
  <1>2. id[h] \in ModuleIds
    BY <1>1 DEF Access, Usable, IInv, TypeOK, HeldIsMapped
  <1>7. /\ leaked' \subseteq ModuleIds
        /\ exc' \in {"ok", "NotFound", "Operation", "Environment", "Bug",
                     "Runtime"}
    <2>1. CASE \E found \in BOOLEAN : Query(h, found)
      BY <2>1 DEF Query, Report, IInv, TypeOK
    <2>2. CASE Pack(h)
      BY <2>2 DEF Pack, Report, IInv, TypeOK
    <2>3. CASE Drop(h)
      BY <2>3 DEF Drop, Report, IInv, TypeOK
    <2>4. ASSUME NEW outcome, Unpack(h, outcome)
          PROVE  /\ leaked' \subseteq ModuleIds
                 /\ exc' \in {"ok", "Environment", "Bug"}
      BY <2>4, <1>2 DEF Unpack, Report, IInv, TypeOK
    <2>5. ASSUME NEW found \in BOOLEAN, NEW throws \in BOOLEAN,
                 CallProc(h, found, throws)
          PROVE  /\ leaked' \subseteq ModuleIds
                 /\ exc' \in {"ok", "NotFound", "Operation", "Runtime"}
      BY <2>5 DEF CallProc, Report, IInv, TypeOK
    <2>. QED  BY <2>1, <2>2, <2>3, <2>4, <2>5
  <1>8. \E d, p \in BOOLEAN : ~(d /\ p) /\ data' = Flagged(h, d, p)
    <2>1. data[id[h]].unpacked \in BOOLEAN
      BY SameFlags, <1>1
    <2>. QED  BY <1>1, <2>1, SameFlags DEF Query, Pack, Drop, Unpack, CallProc, Flagged
  <1>. QED  BY <1>1, <1>7, <1>8, AccessStep

-----------------------------------------------------------------------------
(* The empty runtime.                                                      *)
LEMMA InitIInv == Init => IInv
  <1>. SUFFICES ASSUME Init PROVE IInv
    OBVIOUS
  <1>1. Absent \in [refs : Nat, dropped : BOOLEAN, unpacked : BOOLEAN]
    BY DEF Absent
  <1>2. TypeOK
    BY <1>1 DEF Init, TypeOK
  <1>3. RefsMatchHolders /\ UnmappedIsGone
    BY DEF Init, RefsMatchHolders, UnmappedIsGone, Absent
  <1>4. HeldIsMapped /\ DroppedIsHeld
    BY DEF Init, HeldIsMapped, DroppedIsHeld
  <1>. QED  BY <1>2, <1>3, <1>4 DEF IInv

(* Every call keeps the counts right.                                      *)
LEMMA NextIInv == IInv /\ [Next]_vars => IInv'
  <1>. SUFFICES ASSUME IInv, [Next]_vars PROVE IInv'
    OBVIOUS
  <1>1. CASE UNCHANGED vars
    BY <1>1 DEF vars, IInv, TypeOK, RefsMatchHolders, Holders, HeldIsMapped,
                DroppedIsHeld, UnmappedIsGone, Absent, Deleted
  <1>2. ASSUME NEW h \in Handles, NEW m \in Known, NewHandle(h, m) PROVE IInv'
    BY <1>2, NewStep DEF Known
  <1>3. ASSUME NEW h \in Handles, NEW m \in Known, SetId(h, m) PROVE IInv'
    BY <1>3, SetIdStep DEF Known
  <1>4. ASSUME NEW h \in Handles, DestroyHandle(h) PROVE IInv'
    BY <1>4, DestroyStep
  <1>5. ASSUME NEW h \in Handles, NEW m \in ModuleIds, Create(h, m) PROVE IInv'
    BY <1>5, CreateStep
  <1>6. ASSUME NEW h \in Handles, Refused(h) PROVE IInv'
    <2>1. /\ UNCHANGED << modules, findable, data, leaked, live, id, held >>
          /\ exc' = "NotFound"
      BY <1>6 DEF Refused, handles, Report
    <2>. QED  BY <2>1 DEF IInv, TypeOK, RefsMatchHolders, Holders, HeldIsMapped,
                          DroppedIsHeld, UnmappedIsGone, Absent, Deleted
  <1>7. ASSUME NEW h \in Handles,
               \/ \E found \in BOOLEAN : Query(h, found)
               \/ Pack(h) \/ Drop(h)
               \/ \E outcome : Unpack(h, outcome)
               \/ \E found, throws \in BOOLEAN : CallProc(h, found, throws)
        PROVE  IInv'
    BY <1>7, UseStep
  <1>. QED  BY <1>1, <1>2, <1>3, <1>4, <1>5, <1>6, <1>7 DEF Next

(* The inductive invariant holds in every behaviour: the counts, what the  *)
(* handles hold and what the map keeps agree after any sequence of calls.  *)
THEOREM Invariance == Spec => []IInv
  BY InitIInv, NextIInv, PTL DEF Spec

(* The Module handles, the map and the module data keep their types.       *)
THEOREM TypeCorrect == Spec => []TypeOK
  <1>1. IInv => TypeOK
    BY DEF IInv
  <1>. QED  BY <1>1, Invariance, PTL

(* retain and release balance: the count of a mapped module is one more    *)
(* than the number of handles that hold it.                                *)
THEOREM CountsAreRight == Spec => []RefsMatchHolders
  <1>1. IInv => RefsMatchHolders
    BY DEF IInv
  <1>. QED  BY <1>1, Invariance, PTL

(* No handle's iterator outlives its map entry.                            *)
THEOREM NoDanglingIterator == Spec => []HeldIsMapped
  <1>1. IInv => HeldIsMapped
    BY DEF IInv
  <1>. QED  BY <1>1, Invariance, PTL

(* A dropped module in the map still has a holder, whose release will      *)
(* erase it, and no JIT code.                                              *)
THEOREM DroppedHasHolder == Spec => []DroppedIsHeld
  <1>1. IInv => DroppedIsHeld
    BY DEF IInv
  <1>. QED  BY <1>1, Invariance, PTL

-----------------------------------------------------------------------------
(***************************************************************************)
(* Seen through the handles, the map, the reference counts and the         *)
(* deletions of Runtime are ModuleStore, for any number of modules and     *)
(* handles.  Letting an entry go changes no module's life: a count that    *)
(* goes down stays positive (RefsMatchHolders), and the entry erased is of *)
(* a dropped module.  A use of a module changes the life of that one only. *)
(***************************************************************************)

(* LifeOf without IF, the form the provers take.                           *)
LEMMA LifeFacts ==
    ASSUME NEW d \in [refs : Nat, dropped : BOOLEAN, unpacked : BOOLEAN]
    PROVE  /\ d = Absent => LifeOf(d) = "absent"
           /\ d.dropped => LifeOf(d) = "dropped"
           /\ d.refs # 0 /\ ~d.dropped /\ d.unpacked => LifeOf(d) = "unpacked"
           /\ d.refs # 0 /\ ~d.dropped /\ ~d.unpacked => LifeOf(d) = "packed"
  BY DEF LifeOf, Absent

(* A handle that lets its entry go changes no module's life.               *)
LEMMA LettingGoIsHidden ==
    ASSUME IInv, NEW h \in Handles, NEW m \in ModuleIds
    PROVE  LifeOf(Released(h)[m]) = LifeOf(data[m])
  <1>1. /\ data[m] \in [refs : Nat, dropped : BOOLEAN, unpacked : BOOLEAN]
        /\ Released(h)[m] \in [refs : Nat, dropped : BOOLEAN, unpacked : BOOLEAN]
    BY ReleasedType DEF IInv, TypeOK
  <1>2. CASE m \in Erased(h)
    <2>1. data[m].dropped
      BY <1>2 DEF Erased
    <2>2. Released(h)[m] = Deleted
      BY <1>2 DEF Released
    <2>3. Released(h)[m].dropped
      BY <2>2 DEF Deleted
    <2>. QED  BY <1>1, <2>1, <2>3, LifeFacts
  <1>3. CASE m \notin Erased(h) /\ h \in held /\ m = id[h]
    <2>1. m \in modules
      BY <1>3 DEF IInv, HeldIsMapped
    <2>2. /\ h \in Holders(m) /\ IsFiniteSet(Holders(m))
          /\ Cardinality(Holders(m)) \in Nat
      BY <1>3, HoldersFinite DEF Holders, IInv
    <2>3. Cardinality(Holders(m)) # 0
      BY <2>2, FS_EmptySet
    <2>4. data[m].refs = 1 + Cardinality(Holders(m))
      BY <2>1, Counts
    <2>5. Released(h)[m] = [data[m] EXCEPT !.refs = @ - 1]
      BY <1>3 DEF Released
    <2>6. /\ Released(h)[m].refs # 0 /\ data[m].refs # 0
          /\ Released(h)[m].dropped = data[m].dropped
          /\ Released(h)[m].unpacked = data[m].unpacked
      BY <2>2, <2>3, <2>4, <2>5, <1>1
    <2>. QED  BY <1>1, <2>6, LifeFacts
  <1>4. CASE m \notin Erased(h) /\ ~(h \in held /\ m = id[h])
    <2>1. Released(h)[m] = data[m]
      BY <1>4 DEF Released
    <2>. QED  BY <2>1
  <1>. QED  BY <1>2, <1>3, <1>4

(* The store as its states tell it.                                        *)
LEMMA ViewFacts ==
    /\ \A m \in ModuleIds : StoreView[m] = LifeOf(data[m])
    /\ \A m \in ModuleIds : StoreView'[m] = LifeOf(data'[m])
  BY DEF StoreView

(* A use of the module of h leaves every other module's life alone.        *)
LEMMA UseView ==
    ASSUME IInv, NEW h \in Handles, Access(h),
           NEW dropped \in BOOLEAN, NEW unpacked \in BOOLEAN,
           data' = Flagged(h, dropped, unpacked), NEW life,
           \/ dropped /\ life = "dropped"
           \/ ~dropped /\ unpacked /\ life = "unpacked"
           \/ ~dropped /\ ~unpacked /\ life = "packed"
    PROVE  StoreView' = [StoreView EXCEPT ![id[h]] = life]
  <1>1. OnlyTouches(h, dropped, unpacked)
    BY AccessData
  <1>2. PICK m \in ModuleIds :
           /\ m = id[h] /\ m \in modules
           /\ data' \in [ModuleIds -> [refs : Nat, dropped : BOOLEAN,
                                       unpacked : BOOLEAN]]
           /\ data'[m].refs # 0
           /\ data'[m].dropped = dropped /\ data'[m].unpacked = unpacked
           /\ \A n \in ModuleIds \ {m} : data'[n] = data[n]
    BY <1>1 DEF OnlyTouches
  <1>3. data'[m] \in [refs : Nat, dropped : BOOLEAN, unpacked : BOOLEAN]
    BY <1>2
  <1>4. LifeOf(data'[m]) = life
    BY <1>2, <1>3, LifeFacts
  <1>5. \A n \in ModuleIds : LifeOf(data'[n]) = IF n = m THEN life ELSE LifeOf(data[n])
    BY <1>2, <1>4
  <1>6. StoreView' = [StoreView EXCEPT ![m] = life]
    BY <1>5 DEF StoreView
  <1>. QED  BY <1>2, <1>6

(* A module that can be used is accessible in the store, and its life says *)
(* whether it is unpacked.                                                 *)
LEMMA UsableView ==
    ASSUME IInv, NEW h \in Handles, Access(h)
    PROVE  /\ id[h] \in ModuleIds
           /\ data[id[h]].unpacked \in BOOLEAN
           /\ data[id[h]].unpacked => StoreView[id[h]] = "unpacked"
           /\ ~data[id[h]].unpacked => StoreView[id[h]] = "packed"
           /\ StoreView \in [ModuleIds -> {"absent", "packed", "unpacked", "dropped"}]
  <1>1. PICK m \in ModuleIds : m = id[h] /\ m \in modules /\ ~data[m].dropped
    BY DEF Access, Usable, IInv, TypeOK, HeldIsMapped
  <1>2. /\ data[m] \in [refs : Nat, dropped : BOOLEAN, unpacked : BOOLEAN]
        /\ data[m].unpacked \in BOOLEAN
    BY DEF IInv, TypeOK
  <1>3. data[m].refs = 1 + Cardinality(Holders(m)) /\ Cardinality(Holders(m)) \in Nat
    BY <1>1, Counts, HoldersFinite DEF IInv
  <1>4. data[m].refs # 0
    BY <1>3
  <1>5. /\ data[m].unpacked => LifeOf(data[m]) = "unpacked"
        /\ ~data[m].unpacked => LifeOf(data[m]) = "packed"
    BY <1>1, <1>2, <1>4, LifeFacts
  <1>6. StoreView \in [ModuleIds -> {"absent", "packed", "unpacked", "dropped"}]
    BY DEF StoreView, LifeOf
  <1>. QED  BY <1>1, <1>2, <1>5, <1>6, ViewFacts

-----------------------------------------------------------------------------
(* Steps that let go: the store is the same.                               *)
LEMMA LetGoView ==
    ASSUME IInv, NEW h \in Handles, LetGo(h)
    PROVE  StoreView' = StoreView /\ held' = held \ {h}
  <1>1. \A m \in ModuleIds : LifeOf(data'[m]) = LifeOf(data[m])
    BY LettingGoIsHidden DEF LetGo
  <1>. QED  BY <1>1 DEF StoreView, LetGo

(* Each use of a module is a use of the store.                             *)
LEMMA UseRefines ==
    ASSUME IInv, NEW h \in Handles,
           \/ \E found \in BOOLEAN : Query(h, found)
           \/ Pack(h) \/ Drop(h)
           \/ \E outcome \in {"generated", "noEngine", "notVerified"} :
                 Unpack(h, outcome)
           \/ \E found, throws \in BOOLEAN : CallProc(h, found, throws)
    PROVE  Store!Operate(h)
  <1>1. Access(h)
    BY DEF Query, Pack, Drop, Unpack, CallProc
  <1>2. PICK m, u : m = id[h] /\ u = data[m].unpacked
    OBVIOUS
  <1>3. /\ m \in ModuleIds /\ u \in BOOLEAN
        /\ u => StoreView[m] = "unpacked"
        /\ ~u => StoreView[m] = "packed"
        /\ Store!Accessible(m)
    BY <1>1, <1>2, UsableView DEF Store!Accessible
  <1>4. /\ held' = held \cup {h} /\ live' = live /\ id' = id
    BY <1>1 DEF Access
  <1>5. ASSUME NEW life, NEW reported,
               StoreView' = [StoreView EXCEPT ![m] = life], exc' \in reported
        PROVE  Store!Use(h, m, life, reported)
    BY <1>2, <1>3, <1>4, <1>5 DEF Store!Use
  <1>6. ASSUME data' = Retained(h)
        PROVE  StoreView' = [StoreView EXCEPT ![m] = StoreView[m]]
    <2>1. data' = Flagged(h, FALSE, u)
      BY <1>1, <1>2, <1>6, SameFlags
    <2>. QED  BY <2>1, <1>1, <1>2, <1>3, UseView
  <1>7. ASSUME NEW v \in BOOLEAN,
               data' = [Retained(h) EXCEPT ![id[h]].unpacked = v]
        PROVE  /\ v => StoreView' = [StoreView EXCEPT ![m] = "unpacked"]
               /\ ~v => StoreView' = [StoreView EXCEPT ![m] = "packed"]
    <2>1. data' = Flagged(h, FALSE, v)
      BY <1>1, <1>7, SameFlags
    <2>. QED  BY <2>1, <1>1, <1>2, <1>3, UseView
  <1>8. CASE \E found \in BOOLEAN : Query(h, found)
    <2>1. data' = Retained(h) /\ exc' \in {"ok", "NotFound"}
      BY <1>8 DEF Query, Report
    <2>2. Store!Use(h, m, StoreView[m], {"ok", "NotFound"})
      BY <2>1, <1>5, <1>6
    <2>. QED  BY <2>2, <1>3 DEF Store!Operate
  <1>9. CASE Pack(h)
    <2>1. data' = [Retained(h) EXCEPT ![id[h]].unpacked = FALSE] /\ exc' \in {"ok"}
      BY <1>9 DEF Pack, Report
    <2>2. Store!Use(h, m, "packed", {"ok"})
      BY <2>1, <1>5, <1>7
    <2>. QED  BY <2>2, <1>3 DEF Store!Operate
  <1>10. CASE Drop(h)
    <2>1. data' = Flagged(h, TRUE, FALSE) /\ exc' \in {"ok"}
      BY <1>10 DEF Drop, Report, Flagged
    <2>2. StoreView' = [StoreView EXCEPT ![m] = "dropped"]
      BY <2>1, <1>1, <1>2, UseView
    <2>3. Store!Use(h, m, "dropped", {"ok"})
      BY <2>1, <2>2, <1>5
    <2>. QED  BY <2>3, <1>3 DEF Store!Operate
  <1>11. ASSUME NEW outcome, Unpack(h, outcome) PROVE Store!Operate(h)
    <2>1. CASE u
      <3>1. data' = Retained(h) /\ exc' \in {"ok"}
        BY <1>2, <1>11, <2>1 DEF Unpack, Report
      <3>2. Store!Use(h, m, StoreView[m], {"ok"})
        BY <3>1, <1>5, <1>6
      <3>. QED  BY <3>2, <1>3 DEF Store!Operate
    <2>2. CASE ~u
      <3>1. \/ /\ data' = [Retained(h) EXCEPT ![id[h]].unpacked = TRUE]
               /\ exc' \in {"ok"}
            \/ data' = Retained(h) /\ exc' \in {"Environment", "Bug"}
        BY <1>2, <1>11, <2>2 DEF Unpack, Report
      <3>2. CASE /\ data' = [Retained(h) EXCEPT ![id[h]].unpacked = TRUE]
                 /\ exc' \in {"ok"}
        <4>1. Store!Use(h, m, "unpacked", {"ok"})
          BY <3>2, <1>5, <1>7
        <4>. QED  BY <4>1, <1>3 DEF Store!Operate
      <3>3. CASE data' = Retained(h) /\ exc' \in {"Environment", "Bug"}
        <4>1. StoreView[m] = "packed"
          BY <1>3, <2>2
        <4>2. Store!Use(h, m, "packed", {"Environment", "Bug"})
          BY <3>3, <4>1, <1>5, <1>6
        <4>. QED  BY <4>1, <4>2, <1>3 DEF Store!Operate
      <3>. QED  BY <3>1, <3>2, <3>3
    <2>. QED  BY <1>3, <2>1, <2>2
  <1>12. ASSUME NEW found \in BOOLEAN, NEW throws \in BOOLEAN,
                CallProc(h, found, throws)
         PROVE  Store!Operate(h)
    <2>1. data' = Retained(h)
      BY <1>12 DEF CallProc
    <2>2. StoreView' = [StoreView EXCEPT ![m] = StoreView[m]]
      BY <2>1, <1>6
    <2>3. CASE u
      <3>1. exc' \in {"ok", "NotFound", "Runtime"}
        BY <1>2, <1>12, <2>3 DEF CallProc, Report
      <3>2. Store!Use(h, m, "unpacked", {"ok", "NotFound", "Runtime"})
        BY <2>2, <2>3, <3>1, <1>3, <1>5
      <3>. QED  BY <2>3, <3>2, <1>3 DEF Store!Operate
    <2>4. CASE ~u
      <3>1. exc' \in {"Operation"}
        BY <1>2, <1>12, <2>4 DEF CallProc, Report
      <3>2. Store!Use(h, m, "packed", {"Operation"})
        BY <2>2, <2>4, <3>1, <1>3, <1>5
      <3>. QED  BY <2>4, <3>2, <1>3 DEF Store!Operate
    <2>. QED  BY <1>3, <2>3, <2>4
  <1>. QED  BY <1>8, <1>9, <1>10, <1>11, <1>12

(* Creating a module makes one more module packed.                         *)
LEMMA CreateRefines ==
    ASSUME IInv, NEW h \in Handles, NEW m \in ModuleIds, Create(h, m)
    PROVE  Store!Create(h)
  <1>. DEFINE new == [refs |-> 1, dropped |-> FALSE, unpacked |-> FALSE]
  <1>1. /\ data[m] = Absent /\ data' = [Released(h) EXCEPT ![m] = new]
        /\ held' = held \ {h} /\ live' = live /\ id' = [id EXCEPT ![h] = m]
        /\ exc' = "ok"
    BY DEF Create, Report
  <1>2. new \in [refs : Nat, dropped : BOOLEAN, unpacked : BOOLEAN]
        /\ new.refs # 0 /\ ~new.dropped /\ ~new.unpacked
    OBVIOUS
  <1>. HIDE DEF new
  <1>3. LifeOf(new) = "packed"
    BY <1>2, LifeFacts
  <1>4. Absent \in [refs : Nat, dropped : BOOLEAN, unpacked : BOOLEAN]
    BY DEF Absent
  <1>5. StoreView[m] = "absent"
    BY <1>1, <1>4, LifeFacts, ViewFacts
  <1>6. data'[m] = new /\ \A n \in ModuleIds \ {m} : data'[n] = Released(h)[n]
    BY <1>1, ReleasedType
  <1>7. \A n \in ModuleIds :
            LifeOf(data'[n]) = IF n = m THEN "packed" ELSE LifeOf(data[n])
    BY <1>3, <1>6, LettingGoIsHidden
  <1>8. StoreView' = [StoreView EXCEPT ![m] = "packed"]
    BY <1>7 DEF StoreView
  <1>. QED  BY <1>1, <1>5, <1>8 DEF Store!Create

(* A call that is refused: an attached handle is refused only when its     *)
(* module has been dropped.                                                *)
LEMMA RefusedRefines ==
    ASSUME IInv, NEW h \in Handles, Refused(h)
    PROVE  Store!NotFound(h)
  <1>1. /\ data' = data /\ live' = live /\ id' = id /\ held' = held
        /\ exc' = "NotFound"
    BY DEF Refused, Report, handles
  <1>2. StoreView' = StoreView
    BY <1>1 DEF StoreView
  <1>3. h \in held => ~Store!Accessible(id[h])
    <2>1. SUFFICES ASSUME h \in held PROVE ~Store!Accessible(id[h])
      OBVIOUS
    <2>2. data[id[h]].dropped
      BY <2>1 DEF Refused, Usable
    <2>3. /\ id[h] \in ModuleIds
          /\ data[id[h]] \in [refs : Nat, dropped : BOOLEAN, unpacked : BOOLEAN]
      BY <2>1 DEF IInv, TypeOK, HeldIsMapped
    <2>4. StoreView[id[h]] = "dropped"
      BY <2>2, <2>3, LifeFacts, ViewFacts
    <2>. QED  BY <2>4 DEF Store!Accessible
  <1>. QED  BY <1>1, <1>2, <1>3 DEF Store!NotFound

(* No module exists at first.                                              *)
LEMMA InitRefines == Init => Store!Init
  <1>. SUFFICES ASSUME Init PROVE Store!Init
    OBVIOUS
  <1>1. Absent \in [refs : Nat, dropped : BOOLEAN, unpacked : BOOLEAN]
    BY DEF Absent
  <1>2. LifeOf(Absent) = "absent"
    BY <1>1, LifeFacts
  <1>3. StoreView = [m \in ModuleIds |-> "absent"]
    BY <1>2 DEF Init, StoreView
  <1>. QED  BY <1>3 DEF Init, Store!Init

(* Every step of the runtime is a step of the store or leaves it alone.    *)
LEMMA NextRefines == IInv /\ [Next]_vars => [Store!Next]_(Store!vars)
  <1>. SUFFICES ASSUME IInv, [Next]_vars PROVE [Store!Next]_(Store!vars)
    OBVIOUS
  <1>1. CASE UNCHANGED vars
    BY <1>1 DEF vars, Store!vars, StoreView
  <1>2. ASSUME NEW h \in Handles, NEW m \in Known, NewHandle(h, m)
        PROVE  Store!Next
    <2>1. m \in ModuleIds \cup {NoId}
      BY DEF Known
    <2>2. StoreView' = StoreView
      BY <1>2 DEF NewHandle, StoreView
    <2>3. Store!New(h)
      BY <1>2, <2>1, <2>2 DEF NewHandle, Report, Store!New
    <2>. QED  BY <2>3 DEF Store!Next
  <1>3. ASSUME NEW h \in Handles, NEW m \in Known, SetId(h, m)
        PROVE  Store!Next
    <2>1. m \in ModuleIds \cup {NoId} /\ h \in live
      BY <1>3 DEF Known, SetId
    <2>2. StoreView' = StoreView /\ held' = held \ {h}
      BY <1>3, LetGoView DEF SetId
    <2>3. Store!Bind(h)
      BY <1>3, <2>1, <2>2 DEF SetId, Report, Store!Bind
    <2>. QED  BY <2>1, <2>3 DEF Store!Next
  <1>4. ASSUME NEW h \in Handles, DestroyHandle(h) PROVE Store!Next
    <2>1. StoreView' = StoreView /\ held' = held \ {h}
      BY <1>4, LetGoView DEF DestroyHandle
    <2>2. Store!Delete(h) /\ h \in live
      BY <1>4, <2>1 DEF DestroyHandle, Report, Store!Delete
    <2>. QED  BY <2>2 DEF Store!Next
  <1>5. ASSUME NEW h \in Handles, NEW m \in ModuleIds, Create(h, m)
        PROVE  Store!Next
    <2>1. h \in live
      BY <1>5 DEF Create
    <2>. QED  BY <1>5, <2>1, CreateRefines DEF Store!Next
  <1>6. ASSUME NEW h \in Handles, Refused(h) PROVE Store!Next
    <2>1. h \in live
      BY <1>6 DEF Refused
    <2>. QED  BY <1>6, <2>1, RefusedRefines DEF Store!Next
  <1>7. ASSUME NEW h \in Handles,
               \/ \E found \in BOOLEAN : Query(h, found)
               \/ Pack(h) \/ Drop(h)
               \/ \E outcome \in {"generated", "noEngine", "notVerified"} :
                     Unpack(h, outcome)
               \/ \E found, throws \in BOOLEAN : CallProc(h, found, throws)
        PROVE  Store!Next
    <2>1. h \in live
      BY <1>7 DEF Query, Pack, Drop, Unpack, CallProc, Access
    <2>2. Store!Operate(h)
      BY <1>7, UseRefines
    <2>. QED  BY <2>1, <2>2 DEF Store!Next
  <1>. QED  BY <1>1, <1>2, <1>3, <1>4, <1>5, <1>6, <1>7 DEF Next

(* The runtime implements the store: no order of calls through any number  *)
(* of handles lets a client see the map, a reference count or a deletion   *)
(* (runtime.cpp, module.cpp, mdata.cpp:194-226, 1033-1091).                *)
THEOREM RuntimeImplementsStore == Spec => ImplementsStore
  BY InitRefines, NextRefines, Invariance, PTL
     DEF Spec, ImplementsStore, Store!Spec
=============================================================================
