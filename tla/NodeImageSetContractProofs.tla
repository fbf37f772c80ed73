--------------------- MODULE NodeImageSetContractProofs ---------------------
(***************************************************************************)
(* What follows from the contract alone, for any implementation of it.     *)
(***************************************************************************)
EXTENDS NodeImageSetContract, TLAPS

LEMMA NoObjectType == NoObject \in Object /\ ~NoObject.live
  BY DEF NoObject, Object

LEMMA ObjectFields ==
  ASSUME NEW obj \in Object
  PROVE  /\ obj.uid \in Nat /\ obj.generation \in Nat /\ obj.observed \in Nat
         /\ obj.images \in SUBSET Images
         /\ obj.live \in BOOLEAN /\ obj.deleting \in BOOLEAN /\ obj.finalizer \in BOOLEAN
         /\ obj.available \in BOOLEAN
  BY DEF Object

\* The same object as obj, possibly at a later generation.
Newer(new, obj) == /\ new.uid = obj.uid
                   /\ new.generation >= obj.generation
                   /\ new.observed = obj.observed

LEMMA WriteKinds ==
  ASSUME TypeOK, NEW n \in NodeImageSets,
         Create(n) \/ Update(n) \/ Delete(n) \/ Adopt(n) \/ Finalize(n)
  PROVE  \E obj \in Object :
            /\ Write(n, obj)
            /\ \/ obj = NoObject
               \/ object[n].live /\ obj.live /\ Newer(obj, object[n])
               \/ /\ obj.live /\ obj.observed = 0 /\ obj.generation = 1
                  /\ obj.uid \notin {0, delivered[n].uid, read[n].uid}
                  /\ ~object[n].live
  <1>t. object[n] \in Object
    BY DEF TypeOK
  <1>f. object[n].generation \in Nat /\ object[n].images \in SUBSET Images
    BY <1>t, ObjectFields
  <1>1. CASE Create(n)
    <2> DEFINE new == object'[n]
               obj == [NoObject EXCEPT !.live = TRUE, !.uid = new.uid,
                                       !.generation = 1, !.images = new.images]
    <2>1. new \in Object /\ Write(n, obj) /\ ~object[n].live
          /\ new.uid \notin {0, delivered[n].uid, read[n].uid}
      BY <1>1 DEF Create
    <2>2. new.uid \in Nat /\ new.images \in SUBSET Images
      BY <2>1, ObjectFields
    <2>3. obj \in Object
      BY <2>2 DEF NoObject, Object
    <2>4. obj.live /\ obj.observed = 0 /\ obj.generation = 1 /\ obj.uid = new.uid
      BY DEF NoObject
    <2> HIDE DEF obj
    <2> QED
      BY <2>1, <2>3, <2>4
  <1>2. CASE Update(n)
    <2>1. PICK images \in SUBSET Images :
            Write(n, [object[n] EXCEPT !.images = images, !.generation = @ + 1])
      BY <1>2 DEF Update
    <2> DEFINE obj == [object[n] EXCEPT !.images = images, !.generation = @ + 1]
    <2>2. object[n].generation + 1 \in Nat
      BY <1>f
    <2>3. obj \in Object
      BY <1>t, <2>2 DEF Object
    <2>4. Newer(obj, object[n]) /\ obj.live = object[n].live
      BY <1>t, <1>f DEF Newer, Object
    <2>5. Write(n, obj) /\ object[n].live
      BY <1>2, <2>1 DEF Update
    <2> HIDE DEF obj
    <2> QED
      BY <2>3, <2>4, <2>5
  <1>3. CASE Delete(n) /\ object[n].finalizer
    <2> DEFINE obj == [object[n] EXCEPT !.deleting = TRUE, !.generation = @ + 1]
    <2>2. object[n].generation + 1 \in Nat
      BY <1>f
    <2>3. obj \in Object
      BY <1>t, <2>2 DEF Object
    <2>4. Newer(obj, object[n]) /\ obj.live = object[n].live
      BY <1>t, <1>f DEF Newer, Object
    <2>5. Write(n, obj) /\ object[n].live
      BY <1>3 DEF Delete
    <2> HIDE DEF obj
    <2> QED
      BY <2>3, <2>4, <2>5
  <1>4. CASE Adopt(n)
    <2> DEFINE obj == [object[n] EXCEPT !.finalizer = TRUE]
    <2>3. obj \in Object
      BY <1>t DEF Object
    <2>4. Newer(obj, object[n]) /\ obj.live = object[n].live
      BY <1>t, <1>f DEF Newer, Object
    <2>5. Write(n, obj) /\ object[n].live
      BY <1>4 DEF Adopt
    <2> HIDE DEF obj
    <2> QED
      BY <2>3, <2>4, <2>5
  <1>5. CASE (Delete(n) /\ ~object[n].finalizer) \/ Finalize(n)
    BY <1>5, NoObjectType DEF Delete, Finalize
  <1> QED
    BY <1>1, <1>2, <1>3, <1>4, <1>5

LEMMA ReportedObject ==
  ASSUME TypeOK, NEW n \in NodeImageSets, Report(n)
  PROVE  \E obj \in Object :
            /\ object' = [object EXCEPT ![n] = obj]
            /\ obj.uid = object[n].uid /\ obj.generation = object[n].generation
            /\ obj.live /\ obj.observed = read[n].generation
  <1> DEFINE all == (found[n] = read[n].images)
             obj == [object[n] EXCEPT !.observed = read[n].generation, !.available = all]
  <1>1. object[n] \in Object /\ read[n].generation \in Nat
    BY ObjectFields DEF TypeOK
  <1>2. all \in BOOLEAN
    OBVIOUS
  <1>3. object' = [object EXCEPT ![n] = obj] /\ object[n].live
    BY <1>1 DEF Report, TypeOK
  <1> HIDE DEF all
  <1>4. obj \in Object /\ obj.uid = object[n].uid /\ obj.generation = object[n].generation
        /\ obj.live = object[n].live /\ obj.observed = read[n].generation
    BY <1>1, <1>2 DEF Object
  <1> HIDE DEF obj
  <1> QED
    BY <1>3, <1>4

-----------------------------------------------------------------------------

\* There is an object with a uid, or none.
WellFormed(obj) == obj = NoObject \/ (obj.live /\ obj.uid # 0)

\* What is delivered, and what is read, trails the object it is about.
Trails(n) ==
    /\ object[n].observed <= object[n].generation
    /\ delivered[n].uid = object[n].uid =>
          /\ object[n].observed <= delivered[n].generation
          /\ delivered[n].generation <= object[n].generation
    /\ read[n].live /\ read[n].uid = object[n].uid =>
          /\ delivered[n].uid = object[n].uid
          /\ object[n].observed <= read[n].generation
          /\ read[n].generation <= delivered[n].generation

ContractInv ==
    /\ TypeOK
    /\ \A n \in NodeImageSets :
          /\ WellFormed(object[n]) /\ WellFormed(delivered[n]) /\ WellFormed(read[n])
          /\ Trails(n)

LEMMA InitContract == Init => ContractInv
  <1> SUFFICES ASSUME Init PROVE ContractInv
    OBVIOUS
  <1>1. TypeOK
    BY NoObjectType DEF Init, TypeOK
  <1>2. ASSUME NEW n \in NodeImageSets
        PROVE  /\ WellFormed(object[n]) /\ WellFormed(delivered[n]) /\ WellFormed(read[n])
               /\ Trails(n)
    <2>1. /\ object[n] \in Object /\ delivered[n] = object[n] /\ read[n] = NoObject
          /\ \/ object[n] = NoObject
             \/ /\ object[n].live /\ object[n].uid # 0
                /\ object[n].observed <= object[n].generation
      BY DEF Init
    <2>2. object[n].generation \in Nat /\ object[n].observed \in Nat
      BY <2>1, ObjectFields
    <2>3. object[n].observed <= object[n].generation
      BY <2>1 DEF NoObject
    <2> QED
      BY <2>1, <2>2, <2>3, NoObjectType DEF WellFormed, Trails
  <1> QED
    BY <1>1, <1>2 DEF ContractInv

LEMMA WriteContract ==
  ASSUME ContractInv, NEW n \in NodeImageSets,
         Create(n) \/ Update(n) \/ Delete(n) \/ Adopt(n) \/ Finalize(n)
  PROVE  ContractInv'
  <1>1. PICK obj \in Object :
          /\ Write(n, obj)
          /\ \/ obj = NoObject
             \/ object[n].live /\ obj.live /\ Newer(obj, object[n])
             \/ /\ obj.live /\ obj.observed = 0 /\ obj.generation = 1
                /\ obj.uid \notin {0, delivered[n].uid, read[n].uid}
                /\ ~object[n].live
    BY WriteKinds DEF ContractInv
  <1>2. UNCHANGED <<delivered, read, found, present>>
        /\ object' \in [NodeImageSets -> Object]
        /\ \A m \in NodeImageSets : object'[m] = IF m = n THEN obj ELSE object[m]
    BY <1>1 DEF Write, ContractInv, TypeOK
  <1>3. TypeOK'
    BY <1>2 DEF ContractInv, TypeOK
  <1>4. ASSUME NEW m \in NodeImageSets, m # n
        PROVE  WellFormed(object[m])' /\ Trails(m)'
    BY <1>2, <1>4 DEF ContractInv, WellFormed, Trails
  <1>5. WellFormed(obj)
    BY <1>1 DEF ContractInv, WellFormed, Newer, NoObject
  <1>6. Trails(n)'
    <2>t. /\ object[n] \in Object /\ delivered[n] \in Object /\ read[n] \in Object
          /\ WellFormed(object[n]) /\ WellFormed(delivered[n]) /\ WellFormed(read[n])
          /\ Trails(n)
      BY DEF ContractInv, TypeOK
    <2>f. /\ object[n].generation \in Nat /\ object[n].observed \in Nat
          /\ obj.generation \in Nat /\ obj.observed \in Nat
          /\ delivered[n].generation \in Nat /\ read[n].generation \in Nat
      BY <2>t, ObjectFields
    <2>1. CASE obj = NoObject
      BY <1>2, <2>t, <2>1 DEF Trails, WellFormed, NoObject
    <2>2. CASE object[n].live /\ Newer(obj, object[n])
      BY <1>2, <2>t, <2>f, <2>2 DEF Trails, Newer
    <2>3. CASE obj.observed = 0 /\ obj.generation = 1
               /\ obj.uid \notin {delivered[n].uid, read[n].uid}
      BY <1>2, <2>t, <2>f, <2>3 DEF Trails
    <2> QED
      BY <1>1, <2>1, <2>2, <2>3
  <1> QED
    BY <1>2, <1>3, <1>4, <1>5, <1>6 DEF ContractInv, WellFormed

LEMMA ReportContract ==
  ASSUME ContractInv, NEW n \in NodeImageSets, Report(n)
  PROVE  ContractInv'
  <1>1. PICK obj \in Object :
          /\ object' = [object EXCEPT ![n] = obj]
          /\ obj.uid = object[n].uid /\ obj.generation = object[n].generation
          /\ obj.live /\ obj.observed = read[n].generation
    BY ReportedObject DEF ContractInv
  <1>2. /\ object' \in [NodeImageSets -> Object]
        /\ \A m \in NodeImageSets : object'[m] = IF m = n THEN obj ELSE object[m]
        /\ \A m \in NodeImageSets : read'[m] = IF m = n THEN NoObject ELSE read[m]
        /\ read' \in [NodeImageSets -> Object] /\ found' \in [NodeImageSets -> SUBSET Images]
        /\ UNCHANGED <<delivered, present>>
    BY <1>1, NoObjectType DEF Report, Forget, ContractInv, TypeOK
  <1>3. TypeOK'
    BY <1>2 DEF ContractInv, TypeOK
  <1>4. ASSUME NEW m \in NodeImageSets, m # n
        PROVE  WellFormed(object[m])' /\ WellFormed(read[m])' /\ Trails(m)'
    BY <1>2, <1>4 DEF ContractInv, WellFormed, Trails
  <1>t. /\ object[n] \in Object /\ delivered[n] \in Object /\ read[n] \in Object
        /\ WellFormed(object[n]) /\ Trails(n)
        /\ object[n].live /\ read[n].live /\ object[n].uid = read[n].uid
    BY DEF ContractInv, TypeOK, Report
  <1>f. /\ object[n].generation \in Nat /\ delivered[n].generation \in Nat
        /\ read[n].generation \in Nat
    BY <1>t, ObjectFields
  <1>5. WellFormed(obj)
    BY <1>1, <1>t, NoObjectType DEF WellFormed
  <1>6. Trails(n)'
    BY <1>1, <1>2, <1>t, <1>f, NoObjectType DEF Trails
  <1> QED
    BY <1>2, <1>3, <1>4, <1>5, <1>6 DEF ContractInv, WellFormed

LEMMA NextContract == ContractInv /\ [Next]_vars => ContractInv'
  <1> SUFFICES ASSUME ContractInv, [Next]_vars PROVE ContractInv'
    OBVIOUS
  <1>t. /\ TypeOK
        /\ \A n \in NodeImageSets :
              /\ object[n] \in Object /\ delivered[n] \in Object /\ read[n] \in Object
              /\ WellFormed(object[n]) /\ WellFormed(delivered[n]) /\ WellFormed(read[n])
              /\ Trails(n)
              /\ object[n].generation \in Nat /\ object[n].observed \in Nat
              /\ delivered[n].generation \in Nat
    BY ObjectFields DEF ContractInv, TypeOK
  <1>1. ASSUME NEW n \in NodeImageSets,
               \/ Create(n) \/ Update(n) \/ Delete(n) \/ Adopt(n) \/ Finalize(n) \/ Report(n)
        PROVE  ContractInv'
    BY <1>1, WriteContract, ReportContract
  <1>2. ASSUME NEW n \in NodeImageSets, Deliver(n)
        PROVE  ContractInv'
    <2>1. /\ UNCHANGED <<object, read, found, present>>
          /\ delivered' \in [NodeImageSets -> Object]
          /\ \A m \in NodeImageSets : delivered'[m] = IF m = n THEN object[n] ELSE delivered[m]
      BY <1>2, <1>t DEF Deliver, TypeOK
    <2>2. TypeOK'
      BY <2>1, <1>t DEF TypeOK
    <2>3. ASSUME NEW m \in NodeImageSets
          PROVE  WellFormed(delivered[m])' /\ Trails(m)'
      <3>1. read[m].generation \in Nat
        BY ObjectFields, <1>t
      <3> QED
        BY <2>1, <1>t, <3>1 DEF Trails, WellFormed
    <2> QED
      BY <2>1, <2>2, <2>3, <1>t DEF ContractInv, WellFormed
  <1>3. ASSUME NEW n \in NodeImageSets, Read(n)
        PROVE  ContractInv'
    <2>1. /\ UNCHANGED <<object, delivered, found, present>>
          /\ read' \in [NodeImageSets -> Object]
          /\ \A m \in NodeImageSets : read'[m] = IF m = n THEN delivered[n] ELSE read[m]
      BY <1>3, <1>t DEF Read, TypeOK
    <2>2. TypeOK'
      BY <2>1, <1>t DEF TypeOK
    <2>3. ASSUME NEW m \in NodeImageSets
          PROVE  WellFormed(read[m])' /\ Trails(m)'
      BY <2>1, <1>t DEF Trails, WellFormed
    <2> QED
      BY <2>1, <2>2, <2>3, <1>t DEF ContractInv, WellFormed
  <1>4. ASSUME NEW n \in NodeImageSets, Find(n) \/ GiveUp(n)
        PROVE  ContractInv'
    <2>1. /\ UNCHANGED <<object, delivered, present>>
          /\ read' \in [NodeImageSets -> Object]
          /\ found' \in [NodeImageSets -> SUBSET Images]
          /\ \A m \in NodeImageSets : read'[m] = read[m] \/ read'[m] = NoObject
      BY <1>4, <1>t, NoObjectType DEF Find, GiveUp, Forget, TypeOK
    <2>2. TypeOK'
      BY <2>1, <1>t DEF TypeOK
    <2>3. ASSUME NEW m \in NodeImageSets
          PROVE  WellFormed(read[m])' /\ Trails(m)'
      BY <2>1, <1>t, NoObjectType DEF Trails, WellFormed
    <2> QED
      BY <2>1, <2>2, <2>3, <1>t DEF ContractInv, WellFormed
  <1>5. CASE Restart
    <2>1. /\ object' = object /\ delivered' = object
          /\ \A m \in NodeImageSets : read'[m] = NoObject
      BY <1>5 DEF Restart
    <2>2. TypeOK'
      BY <1>5, <1>t, NoObjectType DEF Restart, TypeOK
    <2>3. ASSUME NEW m \in NodeImageSets
          PROVE  WellFormed(delivered[m])' /\ WellFormed(read[m])' /\ Trails(m)'
      BY <2>1, <1>t, NoObjectType DEF Trails, WellFormed
    <2> QED
      BY <2>1, <2>2, <2>3, <1>t DEF ContractInv, WellFormed
  <1>6. CASE ImagesComeAndGo \/ UNCHANGED vars
    BY <1>6 DEF ImagesComeAndGo, vars, ContractInv, TypeOK, WellFormed, Trails
  <1> QED
    BY <1>1, <1>2, <1>3, <1>4, <1>5, <1>6 DEF Next

(***************************************************************************)
(* The inductive invariant of the contract: what the daemon was told and   *)
(* what it is working on never run ahead of the object.                    *)
(***************************************************************************)
THEOREM ContractInvariant == Spec => []ContractInv
  BY InitContract, NextContract, PTL DEF Spec

(***************************************************************************)
(* The reported generation never runs ahead of the object's.               *)
(***************************************************************************)
THEOREM StatusNeverAhead == Spec => []NeverAhead
  <1>1. ContractInv => NeverAhead
    BY DEF ContractInv, Trails, NeverAhead
  <1> QED
    BY <1>1, ContractInvariant, PTL

\* One step of NeverBack.
LEMMA StepNeverBack ==
  ASSUME ContractInv, [Next]_vars, NEW n \in NodeImageSets, object'[n].uid = object[n].uid
  PROVE  object'[n].observed >= object[n].observed
  <1>t. /\ object[n] \in Object /\ WellFormed(object[n]) /\ Trails(n)
        /\ object[n].observed \in Nat
    BY ObjectFields DEF ContractInv, TypeOK
  <1>1. CASE object'[n] = object[n]
    BY <1>1, <1>t
  <1>2. ASSUME NEW m \in NodeImageSets,
               Create(m) \/ Update(m) \/ Delete(m) \/ Adopt(m) \/ Finalize(m)
        PROVE  object'[n].observed >= object[n].observed
    <2>1. PICK obj \in Object :
            /\ Write(m, obj)
            /\ \/ obj = NoObject
               \/ object[m].live /\ obj.live /\ Newer(obj, object[m])
               \/ /\ obj.live /\ obj.observed = 0 /\ obj.generation = 1
                  /\ obj.uid \notin {0, delivered[m].uid, read[m].uid}
                  /\ ~object[m].live
      BY <1>2, WriteKinds DEF ContractInv
    <2>2. object'[n] = IF m = n THEN obj ELSE object[n]
      BY <2>1 DEF Write, ContractInv, TypeOK
    <2>3. CASE m = n /\ obj = NoObject
      BY <1>t, <2>2, <2>3 DEF WellFormed, NoObject
    <2>4. CASE m = n /\ Newer(obj, object[n])
      BY <1>t, <2>2, <2>4 DEF Newer
    <2>5. CASE m = n /\ ~object[n].live /\ obj.uid # 0
      BY <1>t, <2>2, <2>5 DEF WellFormed, NoObject
    <2> QED
      BY <1>1, <2>1, <2>2, <2>3, <2>4, <2>5
  <1>3. ASSUME NEW m \in NodeImageSets, Report(m)
        PROVE  object'[n].observed >= object[n].observed
    <2>1. PICK obj \in Object :
            /\ object' = [object EXCEPT ![m] = obj]
            /\ obj.observed = read[m].generation
      BY <1>3, ReportedObject DEF ContractInv
    <2>2. object'[n] = IF m = n THEN obj ELSE object[n]
      BY <2>1 DEF ContractInv, TypeOK
    <2>3. m = n => object[n].observed <= read[n].generation /\ read[n].generation \in Nat
      BY <1>3, <1>t, ObjectFields DEF Report, Trails, ContractInv, TypeOK
    <2> QED
      BY <1>1, <1>t, <2>1, <2>2, <2>3
  <1>4. CASE \/ ImagesComeAndGo \/ Restart \/ UNCHANGED vars
             \/ \E m \in NodeImageSets : Deliver(m) \/ Read(m) \/ Find(m) \/ GiveUp(m)
    BY <1>1, <1>4 DEF ImagesComeAndGo, Restart, vars, Deliver, Read, Find, GiveUp
  <1> QED
    BY <1>2, <1>3, <1>4 DEF Next

(***************************************************************************)
(* The reported generation of an object never returns to an older one,     *)
(* although a report is written without regard to what it replaces.        *)
(***************************************************************************)
THEOREM StatusNeverBack == Spec => NeverBack
  <1>1. ContractInv /\ [Next]_vars =>
           [\A n \in NodeImageSets :
               object'[n].uid = object[n].uid => object'[n].observed >= object[n].observed]_vars
    BY StepNeverBack
  <1> QED
    BY <1>1, ContractInvariant, PTL DEF Spec, NeverBack

=============================================================================
