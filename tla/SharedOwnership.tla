-------------------------- MODULE SharedOwnership --------------------------
(***************************************************************************)
(* What the smart pointers of mjxsdk/memory/smart_pointer.hpp promise,     *)
(* with no counter in sight: an object belongs to the set of its holders   *)
(* ("shared object ownership semantics", smart_pointer.hpp:288, "unique    *)
(* object ownership semantics", :25).  It is destroyed once, only when     *)
(* nobody holds it, and eventually once nobody does.                       *)
(***************************************************************************)
EXTENDS FiniteSets

CONSTANTS Holders,   \* everything that can hold an object
          Objects,   \* the objects (addresses, reused after destruction)
          None       \* "holds nothing"

VARIABLES holds,     \* [Holders -> Objects \cup {None}]
          alive      \* the objects created and not yet destroyed

vars == <<holds, alive>>

TypeOK == /\ holds \in [Holders -> Objects \cup {None}]
          /\ alive \subseteq Objects

HoldersOf(o) == {h \in Holders : holds[h] = o}

\* What h alone holds goes with h; None is not an object.
Sole(h) == {o \in Objects : HoldersOf(o) = {h}}

Init == /\ holds = [h \in Holders |-> None]
        /\ alive = {}

-----------------------------------------------------------------------------
\* A new object, held by h.
Create(h, o) == /\ o \notin alive
                /\ HoldersOf(o) = {}
                /\ holds[h] = None
                /\ holds' = [holds EXCEPT ![h] = o]
                /\ alive' = alive \cup {o}

\* h becomes one more holder of what g holds.
Share(h, g) == /\ holds[h] = None
               /\ holds' = [holds EXCEPT ![h] = holds[g]]
               /\ UNCHANGED alive

\* g hands what it holds to h; what h alone held is destroyed.
Transfer(h, g) == /\ holds[h] = None \/ Sole(h) # {}
                  /\ holds' = [holds EXCEPT ![h] = holds[g], ![g] = None]
                  /\ alive' = alive \ Sole(h)

Exchange(h, g) == /\ holds' = [holds EXCEPT ![h] = holds[g], ![g] = holds[h]]
                  /\ UNCHANGED alive

\* h gives up its share.
Drop(h) == /\ holds' = [holds EXCEPT ![h] = None]
           /\ UNCHANGED alive

\* The only holder destroys what it holds.
Discard(h) == /\ Sole(h) # {}
              /\ holds' = [holds EXCEPT ![h] = None]
              /\ alive' = alive \ Sole(h)

\* An object nobody holds is destroyed.
Reclaim(o) == /\ o \in alive
              /\ HoldersOf(o) = {}
              /\ alive' = alive \ {o}
              /\ UNCHANGED holds

Next == \/ \E h \in Holders :
             \/ \E o \in Objects : Create(h, o)
             \/ \E g \in Holders \ {h} : Share(h, g) \/ Transfer(h, g) \/ Exchange(h, g)
             \/ Drop(h)
             \/ Discard(h)
        \/ \E o \in Objects : Reclaim(o)

Safe == Init /\ [][Next]_vars

Spec == Safe /\ \A o \in Objects : WF_vars(Reclaim(o))
-----------------------------------------------------------------------------
(***************************************************************************)
(* Nobody holds a destroyed object: a smart pointer that is not null can   *)
(* always be dereferenced.                                                 *)
(***************************************************************************)
HeldIsAlive == \A h \in Holders : holds[h] # None => holds[h] \in alive
=============================================================================
