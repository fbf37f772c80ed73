------------------------ MODULE NodeImageSetContract ------------------------
(***************************************************************************)
(* What a nodeimageset-controller promises to those who read the status of *)
(* its NodeImageSets, with nothing of how it pulls images.  A status is    *)
(* written in one piece, about one version of the object that the informer *)
(* delivered earlier; it says available when every image of that version   *)
(* was seen on the node in the meantime; and it is written on the very     *)
(* object that was read, never on one created later under the same name.   *)
(*                                                                         *)
(* NodeDaemon implements this specification.                               *)
(***************************************************************************)
EXTENDS Naturals

CONSTANTS NodeImageSets, Images

VARIABLES
    object,     \* [NodeImageSets -> Object]: what the API server has
    delivered,  \* [NodeImageSets -> Object]: what the daemon has been told
    read,       \* [NodeImageSets -> Object]: what it is working on, if anything
    found,      \* [NodeImageSets -> SUBSET Images]: what it has seen of that
    present     \* images on the node

vars == <<object, delivered, read, found, present>>

Object == [live : BOOLEAN, uid : Nat, generation : Nat, images : SUBSET Images,
           deleting : BOOLEAN, finalizer : BOOLEAN,
           observed : Nat, available : BOOLEAN]

NoObject == [live |-> FALSE, uid |-> 0, generation |-> 0, images |-> {},
             deleting |-> FALSE, finalizer |-> FALSE,
             observed |-> 0, available |-> FALSE]

TypeOK ==
    /\ object \in [NodeImageSets -> Object]
    /\ delivered \in [NodeImageSets -> Object]
    /\ read \in [NodeImageSets -> Object]
    /\ found \in [NodeImageSets -> SUBSET Images]
    /\ present \in SUBSET Images

\* Objects, and statuses written by an earlier process, may be there already.
Init ==
    /\ object \in [NodeImageSets -> Object]
    /\ \A n \in NodeImageSets :
          \/ object[n] = NoObject
          \/ /\ object[n].live /\ object[n].uid # 0
             /\ object[n].observed <= object[n].generation
    /\ delivered = object
    /\ read = [n \in NodeImageSets |-> NoObject]
    /\ found = [n \in NodeImageSets |-> {}]
    /\ present \in SUBSET Images

-----------------------------------------------------------------------------
(***************************************************************************)
(* Users, the API server and the node.                                     *)
(***************************************************************************)

Write(n, obj) ==
    /\ object' = [object EXCEPT ![n] = obj]
    /\ UNCHANGED <<delivered, read, found, present>>

\* The API server chooses a uid that was never seen before under this name.
Create(n) ==
    /\ ~object[n].live
    /\ LET new == object'[n] IN
          /\ new \in Object
          /\ new.uid \notin {0, delivered[n].uid, read[n].uid}
          /\ Write(n, [NoObject EXCEPT !.live = TRUE, !.uid = new.uid,
                                       !.generation = 1, !.images = new.images])

Update(n) ==
    /\ object[n].live
    /\ \E images \in SUBSET Images :
          Write(n, [object[n] EXCEPT !.images = images, !.generation = @ + 1])

Delete(n) ==
    /\ object[n].live /\ ~object[n].deleting
    /\ Write(n, IF object[n].finalizer
                THEN [object[n] EXCEPT !.deleting = TRUE, !.generation = @ + 1]
                ELSE NoObject)

ImagesComeAndGo ==
    /\ present' \in SUBSET Images
    /\ UNCHANGED <<object, delivered, read, found>>

Deliver(n) ==
    /\ delivered' = [delivered EXCEPT ![n] = object[n]]
    /\ UNCHANGED <<object, read, found, present>>

-----------------------------------------------------------------------------
(***************************************************************************)
(* The daemon.                                                             *)
(***************************************************************************)

Adopt(n) ==
    /\ object[n].live /\ ~object[n].deleting
    /\ Write(n, [object[n] EXCEPT !.finalizer = TRUE])

Read(n) ==
    /\ delivered[n].live /\ ~delivered[n].deleting /\ delivered[n].finalizer
    /\ read[n] = NoObject
    /\ read' = [read EXCEPT ![n] = delivered[n]]
    /\ UNCHANGED <<object, delivered, found, present>>

Find(n) ==
    /\ read[n].live
    /\ \E i \in read[n].images \cap present :
          found' = [found EXCEPT ![n] = @ \cup {i}]
    /\ UNCHANGED <<object, delivered, read, present>>

Forget(n) ==
    /\ read' = [read EXCEPT ![n] = NoObject]
    /\ found' = [found EXCEPT ![n] = {}]

Report(n) ==
    /\ read[n].live
    /\ object[n].live /\ object[n].finalizer /\ object[n].uid = read[n].uid
    /\ object' = [object EXCEPT ![n] = [@ EXCEPT !.observed = read[n].generation,
                                                 !.available = (found[n] = read[n].images)]]
    /\ Forget(n)
    /\ UNCHANGED <<delivered, present>>

GiveUp(n) == Forget(n) /\ UNCHANGED <<object, delivered, present>>

Finalize(n) ==
    /\ object[n].live /\ object[n].deleting
    /\ read[n] = NoObject
    /\ Write(n, NoObject)

\* The process starts again and lists all objects; images may be gone.
Restart ==
    /\ delivered' = object
    /\ read' = [n \in NodeImageSets |-> NoObject]
    /\ found' = [n \in NodeImageSets |-> {}]
    /\ present' \in SUBSET Images
    /\ UNCHANGED object

Next ==
    \/ ImagesComeAndGo
    \/ \E n \in NodeImageSets :
          \/ Create(n) \/ Update(n) \/ Delete(n) \/ Deliver(n)
          \/ Adopt(n) \/ Read(n) \/ Find(n) \/ Report(n) \/ GiveUp(n) \/ Finalize(n)
    \/ Restart

Spec == Init /\ [][Next]_vars

-----------------------------------------------------------------------------
(***************************************************************************)
(* The status of an object never speaks of a generation the object has not *)
(* had yet, ...                                                            *)
(***************************************************************************)
NeverAhead == \A n \in NodeImageSets : object[n].observed <= object[n].generation

(***************************************************************************)
(* ... and never returns to an older one.  Readers that compare observed   *)
(* with generation, like the ImagePrefetch controller, rely on both.       *)
(***************************************************************************)
NeverBack ==
    [][\A n \in NodeImageSets :
          object'[n].uid = object[n].uid => object'[n].observed >= object[n].observed]_vars

=============================================================================
