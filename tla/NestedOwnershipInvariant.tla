----------------------- MODULE NestedOwnershipInvariant -----------------------
(***************************************************************************)
(* The inductive invariant of NestedOwnership, if no unique_array is moved *)
(* out of the array it is assigned to.                                     *)
(*                                                                         *)
(* What is left to do is numbered from the outermost call inwards: a       *)
(* number then keeps its meaning while calls begin and end inside, and     *)
(* what has a higher one is done earlier.                                  *)
(***************************************************************************)
EXTENDS NestedOwnership

\* The call that goes wrong is not made.
NoDescent == MayDescend => "unique_array" \notin Kinds

Depth   == Len(todo)
Step(d) == todo[Depth + 1 - d]

At(op, x) == {d \in 1..Depth : Step(d).op = op /\ Step(d).at = x}

\* What h owns, or will own when the calls underway have ended.
Lowest(S) == CHOOSE d \in S : \A e \in S : d <= e

Owns(h) == IF At("store", h) # {} THEN Step(Lowest(At("store", h))).to
           ELSE IF Busy(h) THEN Null ELSE ptr[h]

Alive(n) == n \in heap /\ At("free", n) = {}
-----------------------------------------------------------------------------
\* Calls work on what exists; unique handles are stored to, shared ones released.
StepsExist ==
  /\ \A d \in 1..Depth :
       IF Step(d).op = "store" THEN ~Shared /\ Exists(Step(d).at)
       ELSE /\ Step(d).at \in heap /\ Step(d).to = Null
            /\ Step(d).op = "release" => Shared
  /\ \A n \in Nodes \ heap : ptr[n] = Null

\* The parts of a destruction follow one another, and there is one of each object.
PartsInOrder ==
  \A d \in 1..Depth :
    /\ Step(d).op = "body"    => d > 2 /\ Step(d - 1) = Members(Step(d).at)
    /\ Step(d).op = "members" => d > 1 /\ Step(d - 1) = Free(Step(d).at)

EndsOnce ==
  \A d, e \in 1..Depth :
    Step(d).op \in {"delete", "free"} /\ Step(e).op \in {"delete", "free"}
      /\ Step(d).at = Step(e).at => d = e

\* A member is written before its own destruction begins.
StoresBeforeMembers ==
  \A d, e \in 1..Depth :
    Step(d).op = "store" /\ Step(e).op = "free" /\ Step(e).at = Step(d).at =>
      d > e + 1 /\ Step(e + 1).op = "members"

\* What a deletion reaches, when all before it is done, is written before it.
Reached(d) == IF Step(d).op = "delete" THEN Step(d).at ELSE Owns(Step(d).at)

WrittenBefore(S, d) == \A x \in S : /\ Owns(x) \in S \cup {Null}
                                    /\ \A e \in At("store", x) : e > d

StoresBeforeDeletion ==
  ~Shared => \A d \in 1..Depth : Step(d).op \in {"delete", "members"} =>
    \E S \in SUBSET Nodes : Reached(d) \in S \cup {Null} /\ WrittenBefore(S, d)

\* Unique handles: an object is owned by one handle, by the program, or is deleted.
UniqueOwner ==
  ~Shared =>
    /\ \A h, g \in Handles : Owns(h) # Null /\ Owns(h) = Owns(g) => h = g
    /\ \A h \in Handles : Owns(h) # Null =>
         Alive(Owns(h)) /\ Owns(h) \notin raw /\ At("delete", Owns(h)) = {}
    /\ \A n \in raw : Alive(n) /\ At("delete", n) = {}
    /\ \A n \in Nodes : Alive(n) /\ n \notin raw /\ At("delete", n) = {} =>
         \E h \in Handles : Owns(h) = n

\* Shared handles: those that own an object and those given up are counted.
Sharing(n) == {h \in Handles : Owns(h) = n}

CountedOwners ==
  Shared =>
    /\ raw = {}
    /\ \A n \in Nodes :
         IF Alive(n) /\ At("delete", n) = {}
         THEN /\ refs[n] = Cardinality(Sharing(n)) + Cardinality(At("release", n))
              /\ refs[n] > 0
         ELSE Sharing(n) = {} /\ At("release", n) = {}

IInv == /\ TypeOK
        /\ StepsExist /\ PartsInOrder /\ EndsOnce
        /\ StoresBeforeMembers /\ StoresBeforeDeletion
        /\ UniqueOwner /\ CountedOwners
=============================================================================
