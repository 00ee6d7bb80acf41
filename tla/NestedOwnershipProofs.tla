------------------------ MODULE NestedOwnershipProofs ------------------------
(***************************************************************************)
(* Proofs about NestedOwnership, for any number of handles and objects and *)
(* calls nested to any depth.                                              *)
(***************************************************************************)
EXTENDS NestedOwnershipInvariant, FiniteSetTheorems, WellFoundedInduction, TLAPS

Entries == [op : Ops, at : Handles, to : Nodes \cup {Null}]

(***************************************************************************)
(* The stack.                                                              *)
(***************************************************************************)
LEMMA LowestExists ==
  ASSUME NEW S, S \subseteq Nat, S # {}
  PROVE  Lowest(S) \in S /\ \A e \in S : Lowest(S) <= e
<1> DEFINE R == {ss \in Nat \X Nat : ss[1] < ss[2]}
<1>1. IsWellFoundedOn(R, Nat)
  BY NatLessThanWellFounded DEF OpToRel
<1>2. PICK d \in S : \A e \in S : <<e, d>> \notin R
  <2> HIDE DEF R
  <2>1. QED
    BY <1>1, WFMin
<1>3. ASSUME NEW e \in S PROVE d <= e
  <2>1. d \in Nat /\ e \in Nat
    OBVIOUS
  <2>2. ~(e < d)
    BY <1>2, <2>1
  <2>3. QED
    BY <2>1, <2>2
<1>4. QED
  BY <1>3 DEF Lowest

LEMMA LowestIs ==
  ASSUME NEW S, S \subseteq Nat, NEW d \in S, \A e \in S : d <= e
  PROVE  Lowest(S) = d
<1>1. Lowest(S) \in S /\ Lowest(S) <= d
  <2>1. S # {}
    OBVIOUS
  <2>2. QED
    BY <2>1, LowestExists
<1>2. d <= Lowest(S)
  BY <1>1
<1>3. d \in Nat /\ Lowest(S) \in Nat
  BY <1>1
<1>4. QED
  BY <1>1, <1>2, <1>3

LEMMA StepTypes ==
  ASSUME TypeOK
  PROVE  /\ Depth \in Nat
         /\ \A d \in 1..Depth : /\ Step(d) \in Entries /\ Step(d).op \in Ops
                                /\ Step(d).at \in Handles /\ Step(d).to \in Nodes \cup {Null}
                                /\ Depth + 1 - d \in DOMAIN todo
         /\ \A op, x : At(op, x) \subseteq 1..Depth /\ At(op, x) \subseteq Nat
<1>1. todo \in Seq(Entries)
  BY DEF TypeOK, Entries
<1>2. Depth \in Nat /\ DOMAIN todo = 1..Depth
  BY <1>1 DEF Depth
<1>3. \A d \in 1..Depth : Depth + 1 - d \in 1..Depth
  BY <1>2
<1>4. \A d \in 1..Depth : Step(d) \in Entries
  BY <1>1, <1>2, <1>3 DEF Step
<1>5. \A op, x : At(op, x) \subseteq 1..Depth
  BY DEF At
<1>6. 1..Depth \subseteq Nat
  BY <1>2
<1>7. QED
  BY <1>2, <1>3, <1>4, <1>5, <1>6 DEF Entries

\* The outermost steps stay, and what the innermost leaves to do comes on top.
LEMMA Replaced ==
  ASSUME todo \in Seq(Entries), NEW rest \in Seq(Entries),
         todo' = rest \o (IF todo = <<>> THEN <<>> ELSE Tail(todo)),
         NEW B, B = IF todo = <<>> THEN 0 ELSE Depth - 1
  PROVE  /\ B \in Nat /\ B <= Depth /\ Depth' = B + Len(rest)
         /\ todo' \in Seq(Entries)
         /\ \A d \in 1..B : Step(d)' = Step(d)
         /\ \A k \in 1..Len(rest) : Step(B + k)' = rest[Len(rest) + 1 - k]
         /\ \A d \in 1..Depth : d <= B \/ d = Depth
         /\ todo # <<>> => Depth \in 1..Depth /\ Head(todo) = Step(Depth)
<1> DEFINE tail == IF todo = <<>> THEN <<>> ELSE Tail(todo)
<1>1. tail \in Seq(Entries) /\ Len(tail) = B /\ B \in Nat /\ B <= Depth
      /\ \A i \in 1..B : tail[i] = todo[i + 1]
  <2>1. CASE todo = <<>>
    BY <2>1 DEF Depth
  <2>2. CASE todo # <<>>
    BY <2>2 DEF Depth
  <2>3. QED
    BY <2>1, <2>2
<1>2. /\ todo' \in Seq(Entries) /\ Len(todo') = B + Len(rest)
      /\ \A i \in 1..Len(rest) : todo'[i] = rest[i]
      /\ \A i \in 1..B : todo'[Len(rest) + i] = tail[i]
  <2> HIDE DEF tail
  <2>1. todo' = rest \o tail
    BY DEF tail
  <2>2. QED
    BY <1>1, <2>1
<1>3. Depth \in Nat /\ (todo # <<>> => Depth > 0 /\ B = Depth - 1) /\ (todo = <<>> => Depth = 0)
  BY DEF Depth
<1>4. Depth' = B + Len(rest) /\ Len(rest) \in Nat
  BY <1>2 DEF Depth
<1>5. ASSUME NEW d \in 1..B
      PROVE  Step(d)' = Step(d)
  <2>1. B + 1 - d \in 1..B /\ todo # <<>>
    BY <1>1, <1>3
  <2>2. (B + Len(rest)) + 1 - d = Len(rest) + (B + 1 - d) /\ (B + 1 - d) + 1 = Depth + 1 - d
    BY <1>1, <1>3, <1>4, <2>1
  <2>3. todo'[Len(rest) + (B + 1 - d)] = todo[(B + 1 - d) + 1]
    <3>1. \A i \in 1..B : todo'[Len(rest) + i] = todo[i + 1]
      BY <1>1, <1>2
    <3>2. QED
      BY <2>1, <3>1
  <2>4. QED
    BY <1>4, <2>2, <2>3 DEF Step
<1>6. ASSUME NEW k \in 1..Len(rest)
      PROVE  Step(B + k)' = rest[Len(rest) + 1 - k]
  <2>1. Len(rest) + 1 - k \in 1..Len(rest) /\ (B + Len(rest)) + 1 - (B + k) = Len(rest) + 1 - k
    BY <1>1, <1>4
  <2>2. Step(B + k)' = todo'[Depth' + 1 - (B + k)]
    BY DEF Step
  <2>3. QED
    BY <1>2, <1>4, <2>1, <2>2
<1>7. \A d \in 1..Depth : d <= B \/ d = Depth
  BY <1>1, <1>3
<1>8. todo # <<>> => Depth \in 1..Depth /\ Head(todo) = Step(Depth)
  <2>1. Depth + 1 - Depth = 1
    BY <1>3
  <2>2. QED
    BY <1>3, <2>1 DEF Step
<1>9. QED
  BY <1>1, <1>2, <1>4, <1>5, <1>6, <1>7, <1>8

\* The outermost B steps stay, and at most one more was there.
Kept(B) == /\ B \in Nat /\ B <= Depth /\ B <= Depth'
           /\ \A d \in 1..B : Step(d)' = Step(d)
           /\ \A d \in 1..Depth : d <= B \/ d = Depth

LEMMA AtSplit ==
  ASSUME TypeOK, TypeOK', NEW B, Kept(B), NEW op, NEW x
  PROVE  /\ \A d \in At(op, x) : d <= B => d \in At(op, x)'
         /\ \A d \in At(op, x)' : IF d <= B THEN d \in At(op, x)
                                  ELSE d \in (B + 1)..Depth' /\ Step(d)'.op = op /\ Step(d)'.at = x
<1>1. /\ B \in Nat /\ B <= Depth /\ B <= Depth' /\ Depth \in Nat
      /\ \A d \in 1..B : Step(d)' = Step(d)
  BY StepTypes DEF Kept
<1>2. Depth' \in Nat
  <2>1. todo' \in Seq(Entries)
    BY DEF TypeOK, Entries
  <2>2. QED
    BY <2>1 DEF Depth
<1>3. ASSUME NEW d \in At(op, x), d <= B
      PROVE  d \in At(op, x)'
  <2>1. d \in 1..Depth /\ Step(d).op = op /\ Step(d).at = x
    BY <1>3 DEF At
  <2>2. d \in 1..B /\ d \in 1..Depth'
    BY <1>1, <1>2, <1>3, <2>1
  <2>3. Step(d)' = Step(d)
    BY <1>1, <2>2
  <2>4. Step(d)'.op = op /\ Step(d)'.at = x
    BY <2>1, <2>3
  <2>5. QED
    BY <2>2, <2>4 DEF At
<1>4. ASSUME NEW d \in At(op, x)'
      PROVE  IF d <= B THEN d \in At(op, x)
             ELSE d \in (B + 1)..Depth' /\ Step(d)'.op = op /\ Step(d)'.at = x
  <2>1. d \in 1..Depth' /\ Step(d)'.op = op /\ Step(d)'.at = x
    BY <1>4 DEF At
  <2>2. CASE d <= B
    <3>1. d \in 1..B /\ d \in 1..Depth
      BY <1>1, <1>2, <2>1, <2>2
    <3>2. Step(d)' = Step(d)
      BY <1>1, <3>1
    <3>3. QED
      BY <2>1, <2>2, <3>1, <3>2 DEF At
  <2>3. CASE ~(d <= B)
    BY <1>1, <1>2, <2>1, <2>3
  <2>4. QED
    BY <2>2, <2>3
<1>5. QED
  BY <1>3, <1>4

\* No step of this kind comes or goes.
LEMMA AtKept ==
  ASSUME TypeOK, TypeOK', NEW B, Kept(B), NEW op, NEW x,
         B < Depth => ~(Step(Depth).op = op /\ Step(Depth).at = x),
         \A d \in (B + 1)..Depth' : ~(Step(d)'.op = op /\ Step(d)'.at = x)
  PROVE  At(op, x)' = At(op, x)
<1>1. \A d \in At(op, x) : d <= B
  <2>1. ASSUME NEW d \in At(op, x), ~(d <= B) PROVE FALSE
    <3>1. d \in 1..Depth /\ Step(d).op = op /\ Step(d).at = x
      BY <2>1 DEF At
    <3>2. d = Depth
      BY <2>1, <3>1 DEF Kept
    <3>3. B < Depth
      BY <2>1, <3>1, <3>2, StepTypes DEF Kept
    <3>4. QED
      BY <3>1, <3>2, <3>3
  <2>2. QED
    BY <2>1
<1>2. /\ \A d \in At(op, x) : d <= B => d \in At(op, x)'
      /\ \A d \in At(op, x)' : IF d <= B THEN d \in At(op, x)
                               ELSE d \in (B + 1)..Depth' /\ Step(d)'.op = op /\ Step(d)'.at = x
  BY AtSplit
<1>3. At(op, x) \subseteq At(op, x)'
  BY <1>1, <1>2
<1>4. At(op, x)' \subseteq At(op, x)
  BY <1>2
<1>5. QED
  BY <1>3, <1>4

(***************************************************************************)
(* What handles own, in terms of the steps.                                *)
(***************************************************************************)
LEMMA WaitsAt ==
  TypeOK => \A op, x : Waits(op, x) <=> At(op, x) # {}
<1> SUFFICES ASSUME TypeOK, NEW op, NEW x
             PROVE  Waits(op, x) <=> At(op, x) # {}
  OBVIOUS
<1>1. todo \in Seq(Entries) /\ Depth \in Nat /\ DOMAIN todo = 1..Depth
  BY DEF TypeOK, Entries, Depth
<1>2. ASSUME NEW i \in DOMAIN todo, todo[i].op = op, todo[i].at = x
      PROVE  Depth + 1 - i \in At(op, x)
  <2>1. Depth + 1 - i \in 1..Depth /\ Depth + 1 - (Depth + 1 - i) = i
    BY <1>1
  <2>2. QED
    BY <1>2, <2>1 DEF At, Step
<1>3. ASSUME NEW d \in At(op, x)
      PROVE  Depth + 1 - d \in DOMAIN todo /\ todo[Depth + 1 - d].op = op
             /\ todo[Depth + 1 - d].at = x
  BY <1>1, StepTypes DEF At, Step
<1>4. QED
  BY <1>2, <1>3 DEF Waits, Pending

LEMMA WaitsAtNext ==
  TypeOK' => \A op, x : Waits(op, x)' <=> At(op, x)' # {}
<1>1. (TypeOK => \A op, x : Waits(op, x) <=> At(op, x) # {})'
  BY WaitsAt, PTL
<1>2. QED
  BY <1>1

\* What Owns is, by cases.
LEMMA OwnsIs ==
  TypeOK => \A h \in Handles :
    /\ Busy(h) <=> At("store", h) # {} \/ (At("free", h) # {} /\ At("members", h) = {})
    /\ ~Busy(h) => Owns(h) = ptr[h]
    /\ Busy(h) /\ At("store", h) = {} => Owns(h) = Null
    /\ \A d \in At("store", h) : (\A e \in At("store", h) : d <= e) => Owns(h) = Step(d).to
    /\ At("store", h) # {} =>
         \E d \in At("store", h) : \A e \in At("store", h) : d <= e
    /\ Owns(h) \in Nodes \cup {Null}
<1> SUFFICES ASSUME TypeOK, NEW h \in Handles
             PROVE  /\ Busy(h) <=> At("store", h) # {} \/ (At("free", h) # {} /\ At("members", h) = {})
                    /\ ~Busy(h) => Owns(h) = ptr[h]
                    /\ Busy(h) /\ At("store", h) = {} => Owns(h) = Null
                    /\ \A d \in At("store", h) :
                         (\A e \in At("store", h) : d <= e) => Owns(h) = Step(d).to
                    /\ At("store", h) # {} =>
                         \E d \in At("store", h) : \A e \in At("store", h) : d <= e
                    /\ Owns(h) \in Nodes \cup {Null}
  OBVIOUS
<1>1. Busy(h) <=> At("store", h) # {} \/ (At("free", h) # {} /\ At("members", h) = {})
  BY WaitsAt DEF Busy
<1>2. ~Busy(h) => Owns(h) = ptr[h]
  BY <1>1 DEF Owns
<1>3. Busy(h) /\ At("store", h) = {} => Owns(h) = Null
  BY DEF Owns
<1>4. At("store", h) \subseteq Nat
  BY StepTypes
<1>5. ASSUME NEW d \in At("store", h), \A e \in At("store", h) : d <= e
      PROVE  Owns(h) = Step(d).to
  <2>1. Lowest(At("store", h)) = d
    BY <1>4, <1>5, LowestIs
  <2>2. QED
    BY <2>1 DEF Owns
<1>6. At("store", h) # {} =>
        \E d \in At("store", h) : \A e \in At("store", h) : d <= e
  BY <1>4, LowestExists
<1>7. \A d \in At("store", h) : Step(d).to \in Nodes \cup {Null}
  BY StepTypes
<1>8. ptr[h] \in Nodes \cup {Null}
  BY DEF TypeOK
<1>9. Owns(h) \in Nodes \cup {Null}
  BY <1>2, <1>3, <1>5, <1>6, <1>7, <1>8
<1>10. QED
  BY <1>1, <1>2, <1>3, <1>5, <1>6, <1>9

LEMMA OwnsIsNext ==
  TypeOK' => \A h \in Handles :
    /\ Busy(h)' <=> At("store", h)' # {} \/ (At("free", h)' # {} /\ At("members", h)' = {})
    /\ ~Busy(h)' => Owns(h)' = ptr'[h]
    /\ Busy(h)' /\ At("store", h)' = {} => Owns(h)' = Null
    /\ \A d \in At("store", h)' : (\A e \in At("store", h)' : d <= e) => Owns(h)' = Step(d)'.to
    /\ At("store", h)' # {} =>
         \E d \in At("store", h)' : \A e \in At("store", h)' : d <= e
    /\ Owns(h)' \in Nodes \cup {Null}
<1>1. (TypeOK => \A h \in Handles :
         /\ Busy(h) <=> At("store", h) # {} \/ (At("free", h) # {} /\ At("members", h) = {})
         /\ ~Busy(h) => Owns(h) = ptr[h]
         /\ Busy(h) /\ At("store", h) = {} => Owns(h) = Null
         /\ \A d \in At("store", h) : (\A e \in At("store", h) : d <= e) => Owns(h) = Step(d).to
         /\ At("store", h) # {} =>
              \E d \in At("store", h) : \A e \in At("store", h) : d <= e
         /\ Owns(h) \in Nodes \cup {Null})'
  BY OwnsIs, PTL
<1>2. QED
  BY <1>1

LEMMA OwnsKept ==
  ASSUME TypeOK, TypeOK', NEW B, Kept(B), NEW h \in Handles,
         At("store", h)' = At("store", h), At("store", h) \subseteq 1..B,
         Busy(h)' <=> Busy(h), ~Busy(h) => ptr'[h] = ptr[h]
  PROVE  Owns(h)' = Owns(h)
<1>1. CASE At("store", h) = {}
  BY <1>1, OwnsIs, OwnsIsNext
<1>2. CASE At("store", h) # {}
  <2>1. PICK d \in At("store", h) : \A e \in At("store", h) : d <= e
    BY <1>2, OwnsIs
  <2>2. Owns(h) = Step(d).to /\ Owns(h)' = Step(d)'.to
    BY <2>1, OwnsIs, OwnsIsNext
  <2>3. Step(d)' = Step(d)
    BY DEF Kept
  <2>4. QED
    BY <2>2, <2>3
<1>3. QED
  BY <1>1, <1>2

\* A pointer and what it owns through members.
LEMMA BelowIs ==
  ASSUME NEW p \in Nodes \cup {Null}
  PROVE  /\ Below(p) \in SUBSET Nodes
         /\ p \in Below(p) \cup {Null}
         /\ TypeOK => \A x \in Below(p) : ptr[x] \in Below(p) \cup {Null}
<1>1. Below(p) \in SUBSET Nodes /\ p \in Below(p) \cup {Null}
  BY DEF Below
<1>2. ASSUME TypeOK, NEW x \in Below(p), ptr[x] # Null
      PROVE  ptr[x] \in Below(p)
  <2>1. ptr[x] \in Nodes
    BY <1>1, <1>2 DEF TypeOK, Handles
  <2>2. ASSUME NEW S \in SUBSET Nodes, p \in S \cup {Null},
               \A y \in S : ptr[y] \in S \cup {Null}
        PROVE  ptr[x] \in S
    <3>1. x \in S
      BY <2>2 DEF Below
    <3>2. QED
      BY <1>2, <2>2, <3>1
  <2>3. QED
    BY <2>1, <2>2 DEF Below
<1>3. QED
  BY <1>1, <1>2

LEMMA QuietIs ==
  ASSUME TypeOK, NEW p \in Nodes \cup {Null}, Quiet(p)
  PROVE  \A x \in Below(p) : /\ x \in Handles /\ ~Busy(x) /\ Owns(x) = ptr[x]
                             /\ Owns(x) \in Below(p) \cup {Null}
                             /\ At("store", x) = {}
<1> SUFFICES ASSUME NEW x \in Below(p)
             PROVE  /\ x \in Handles /\ ~Busy(x) /\ Owns(x) = ptr[x]
                    /\ Owns(x) \in Below(p) \cup {Null}
                    /\ At("store", x) = {}
  OBVIOUS
<1>1. x \in Handles /\ ~Busy(x) /\ ptr[x] \in Below(p) \cup {Null}
  BY BelowIs DEF Quiet, Handles
<1>2. QED
  BY <1>1, OwnsIs

LEMMA UsableIs ==
  ASSUME TypeOK, NEW h \in Handles, Usable(h)
  PROVE  /\ Exists(h) /\ ~Busy(h) /\ Owns(h) = ptr[h] /\ At("store", h) = {}
         /\ Owns(h) \in Nodes \cup {Null} /\ Quiet(Owns(h))
         /\ ~Shared => h \notin Below(Owns(h))
BY OwnsIs DEF Usable

(***************************************************************************)
(* Calls with unique handles. X are the handles to be stored to, q is the  *)
(* object to be deleted; Q is what q reaches, and Z whatever changes hands *)
(* and what that reaches.                                                  *)
(***************************************************************************)
Outer == IF todo = <<>> THEN 0 ELSE Depth - 1

Leaves(X, q) == /\ Kept(Outer)
                /\ Outer < Depth => Step(Depth).op = "body"
                /\ \A d \in (Outer + 1)..Depth' :
                     \/ Step(d)'.op = "store" /\ Step(d)'.at \in X
                     \/ d = Depth' /\ q # Null /\ Step(d)' = Delete(q)

Settled(S) == \A x \in S : At("store", x) = {} /\ Owns(x)' \in S \cup {Null}

LEMMA UniqueCallKeeps ==
  ASSUME IInv, TypeOK', ~Shared, kind' = kind, heap \subseteq heap',
         \A n \in Nodes \ heap' : ptr'[n] = Null, UniqueOwner',
         NEW X, NEW q \in Nodes \cup {Null}, Leaves(X, q),
         \A x \in X : Exists(x) /\ ~Busy(x) /\ x \in Handles,
         q # Null => Alive(q) /\ At("delete", q) = {},
         NEW Q \in SUBSET Nodes, Settled(Q), q \in Q \cup {Null}, Q \cap X = {},
         NEW Z \in SUBSET Nodes, Settled(Z),
         \A x \in Handles : Owns(x)' = Owns(x) \/ Owns(x)' \in Z \cup {Null}
  PROVE  IInv'
<1> PICK B : /\ Kept(B) /\ (B < Depth => Step(Depth).op = "body")
             /\ \A d \in (B + 1)..Depth' :
                  \/ Step(d)'.op = "store" /\ Step(d)'.at \in X
                  \/ d = Depth' /\ q # Null /\ Step(d)' = Delete(q)
  BY DEF Leaves
<1> /\ \A x \in Q : At("store", x) = {} /\ Owns(x)' \in Q \cup {Null}
    /\ \A x \in Z : At("store", x) = {} /\ Owns(x)' \in Z \cup {Null}
  BY DEF Settled
<1>1. /\ TypeOK /\ StepsExist /\ PartsInOrder /\ EndsOnce /\ StoresBeforeMembers
      /\ StoresBeforeDeletion /\ UniqueOwner
  BY DEF IInv
<1>2. /\ B \in Nat /\ B <= Depth /\ B <= Depth' /\ Depth \in Nat /\ Depth' \in Nat
      /\ \A d \in 1..B : Step(d)' = Step(d)
      /\ \A d \in 1..Depth : d <= B \/ d = Depth
      /\ \A d \in 1..Depth' : d \in 1..B \/ d \in (B + 1)..Depth'
      /\ \A d \in 1..B : d \in 1..Depth
  <2>1. Depth' \in Nat
    BY DEF TypeOK, Depth
  <2>2. QED
    BY <1>1, <2>1, StepTypes DEF Kept
<1>3. \A n : Delete(n).op = "delete" /\ Delete(n).at = n /\ Delete(n).to = Null
  BY DEF Delete
<1>4. ~Shared' /\ (Shared' <=> Shared)
  BY DEF Shared
<1>5. \A x : Exists(x) => Exists(x)'
  BY DEF Exists
<1>6. StepsExist'
  <2>1. ASSUME NEW d \in 1..Depth'
        PROVE  (IF Step(d).op = "store" THEN ~Shared /\ Exists(Step(d).at)
                ELSE /\ Step(d).at \in heap /\ Step(d).to = Null
                     /\ Step(d).op = "release" => Shared)'
    <3>1. CASE d \in 1..B
      BY <1>1, <1>2, <1>4, <1>5, <3>1 DEF StepsExist
    <3>2. CASE d \in (B + 1)..Depth'
      BY <1>3, <1>4, <1>5, <3>2 DEF Alive
    <3>3. QED
      BY <1>2, <3>1, <3>2
  <2>2. QED
    BY <2>1 DEF StepsExist
<1>7. PartsInOrder'
  <2>1. ASSUME NEW d \in 1..Depth', Step(d)'.op \in {"body", "members"}
        PROVE  d \in 1..B /\ Step(d)' = Step(d)
    <3>1. CASE d \in 1..B
      BY <1>2, <3>1
    <3>2. CASE d \in (B + 1)..Depth'
      BY <1>3, <2>1, <3>2
    <3>3. QED
      BY <1>2, <3>1, <3>2
  <2>2. ASSUME NEW d \in 1..Depth', Step(d)'.op = "body"
        PROVE  d > 2 /\ Step(d - 1)' = Members(Step(d)'.at)
    <3>1. d \in 1..B /\ Step(d)' = Step(d)
      BY <2>1, <2>2
    <3>2. d > 2 /\ Step(d - 1) = Members(Step(d).at)
      BY <1>1, <1>2, <2>2, <3>1 DEF PartsInOrder
    <3>3. d - 1 \in 1..B
      BY <1>2, <3>1, <3>2
    <3>4. QED
      BY <1>2, <3>1, <3>2, <3>3
  <2>3. ASSUME NEW d \in 1..Depth', Step(d)'.op = "members"
        PROVE  d > 1 /\ Step(d - 1)' = Free(Step(d)'.at)
    <3>1. d \in 1..B /\ Step(d)' = Step(d)
      BY <2>1, <2>3
    <3>2. d > 1 /\ Step(d - 1) = Free(Step(d).at)
      BY <1>1, <1>2, <2>3, <3>1 DEF PartsInOrder
    <3>3. d - 1 \in 1..B
      BY <1>2, <3>1, <3>2
    <3>4. QED
      BY <1>2, <3>1, <3>2, <3>3
  <2>4. QED
    BY <2>2, <2>3 DEF PartsInOrder
<1>8. EndsOnce'
  <2>1. ASSUME NEW d \in 1..Depth', Step(d)'.op \in {"delete", "free"}
        PROVE  \/ d \in 1..B /\ Step(d)' = Step(d)
               \/ d = Depth' /\ q # Null /\ Step(d)'.at = q
    BY <1>2, <1>3, <2>1
  <2>2. ASSUME NEW d \in 1..B, Step(d).op \in {"delete", "free"}, q # Null
        PROVE  Step(d).at # q
    BY <1>2, <2>2 DEF At, Alive
  <2>3. QED
    BY <1>1, <1>2, <2>1, <2>2 DEF EndsOnce
<1>9. StoresBeforeMembers'
  <2>1. ASSUME NEW d \in 1..Depth', NEW e \in 1..Depth', Step(d)'.op = "store",
               Step(e)'.op = "free", Step(e)'.at = Step(d)'.at
        PROVE  d > e + 1 /\ Step(e + 1)'.op = "members"
    <3>1. e \in 1..B /\ Step(e)' = Step(e)
      BY <1>2, <1>3, <2>1
    <3>2. CASE d \in 1..B
      <4>1. Step(d)' = Step(d)
        BY <1>2, <3>2
      <4>2. d > e + 1 /\ Step(e + 1).op = "members"
        BY <1>1, <1>2, <2>1, <3>1, <3>2, <4>1 DEF StoresBeforeMembers
      <4>3. e + 1 \in 1..B
        BY <1>2, <3>1, <3>2, <4>2
      <4>4. QED
        BY <1>2, <4>2, <4>3
    <3>3. CASE d \in (B + 1)..Depth'
      <4>1. PICK x \in X : x = Step(d)'.at
        BY <1>3, <2>1, <3>3
      <4>2. e \in At("free", x)
        <5>1. e \in 1..Depth /\ Step(e).op = "free" /\ Step(e).at = x
          BY <1>2, <2>1, <3>1, <4>1
        <5>2. QED
          BY <5>1 DEF At
      <4>3. PICK f \in At("members", x) : TRUE
        BY <1>1, <4>1, <4>2, OwnsIs
      <4>4. f \in 1..Depth /\ Step(f).op = "members" /\ Step(f).at = x
        BY DEF At
      <4>5. f > 1 /\ Step(f - 1) = Free(x)
        BY <1>1, <4>4 DEF PartsInOrder
      <4>6. f - 1 \in 1..Depth /\ Step(f - 1).op = "free" /\ Step(f - 1).at = x
        BY <1>2, <4>4, <4>5 DEF Free
      <4>7. e \in 1..Depth /\ Step(e).op = "free" /\ Step(e).at = x
        BY <4>2 DEF At
      <4>8. f - 1 = e
        BY <1>1, <4>6, <4>7 DEF EndsOnce
      <4>9. f <= B
        BY <1>2, <4>4 DEF Kept
      <4>10. f = e + 1 /\ f \in 1..B
        BY <1>2, <4>4, <4>7, <4>8, <4>9
      <4>11. Step(f)' = Step(f)
        BY <1>2, <4>10
      <4>12. d > e + 1
        BY <1>2, <3>3, <4>10
      <4>13. QED
        BY <4>4, <4>10, <4>11, <4>12
    <3>4. QED
      BY <1>2, <3>2, <3>3
  <2>2. QED
    BY <2>1 DEF StoresBeforeMembers
<1>10. StoresBeforeDeletion'
  <2>1. ASSUME NEW x \in Handles, NEW e \in At("store", x)'
        PROVE  e \in At("store", x) \/ (e > B /\ x \in X)
    <3>1. IF e <= B THEN e \in At("store", x)
          ELSE e \in (B + 1)..Depth' /\ Step(e)'.op = "store" /\ Step(e)'.at = x
      BY <1>1, AtSplit
    <3>2. QED
      BY <1>2, <1>3, <3>1
  <2>2. ASSUME NEW d \in 1..B, Step(d).op \in {"delete", "members"}
        PROVE  \E S \in SUBSET Nodes : Reached(d)' \in S \cup {Null} /\ WrittenBefore(S, d)'
    <3>1. PICK S \in SUBSET Nodes : Reached(d) \in S \cup {Null} /\ WrittenBefore(S, d)
      BY <1>1, <1>2, <2>2 DEF StoresBeforeDeletion
    <3>2. Step(d)' = Step(d) /\ Step(d).at \in Handles
      BY <1>1, <1>2, StepTypes
    <3>3. Reached(d)' \in S \cup Z \cup {Null}
      <4>1. CASE Step(d).op = "delete"
        BY <3>1, <3>2, <4>1 DEF Reached
      <4>2. CASE Step(d).op # "delete"
        <5>1. PICK x \in Handles : x = Step(d).at
          BY <3>2
        <5>2. Reached(d) = Owns(x)
          BY <4>2, <5>1 DEF Reached
        <5>3. Reached(d)' = Owns(x)'
          BY <3>2, <4>2, <5>1 DEF Reached
        <5>4. Owns(x)' = Owns(x) \/ Owns(x)' \in Z \cup {Null}
          OBVIOUS
        <5>5. QED
          BY <3>1, <5>2, <5>3, <5>4
      <4>3. QED
        BY <4>1, <4>2
    <3>4. ASSUME NEW x \in S \cup Z
          PROVE  Owns(x)' \in S \cup Z \cup {Null} /\ \A e \in At("store", x)' : e > d
      <4>1. x \in Handles
        BY DEF Handles
      <4>2. Owns(x)' \in S \cup Z \cup {Null}
        BY <3>1, <4>1 DEF WrittenBefore
      <4>3. \A e \in At("store", x) : e > d
        BY <3>1 DEF WrittenBefore
      <4>4. ASSUME NEW e \in At("store", x)' PROVE e > d
        <5>1. e \in At("store", x) \/ e > B
          BY <2>1, <4>1
        <5>2. CASE e \in At("store", x)
          BY <4>3, <5>2
        <5>3. CASE e > B
          <6>1. e \in Nat
            BY <1>2 DEF At
          <6>2. QED
            BY <1>2, <5>3, <6>1
        <5>4. QED
          BY <5>1, <5>2, <5>3
      <4>5. QED
        BY <4>2, <4>4
    <3>5. WrittenBefore(S \cup Z, d)'
      BY <3>4 DEF WrittenBefore
    <3>6. QED
      BY <3>3, <3>5
  <2>3. ASSUME NEW d \in (B + 1)..Depth', Step(d)'.op \in {"delete", "members"}
        PROVE  \E S \in SUBSET Nodes : Reached(d)' \in S \cup {Null} /\ WrittenBefore(S, d)'
    <3>1. Step(d)'.op = "delete" /\ Step(d)'.at = q
      BY <1>3, <2>3
    <3>2. Reached(d)' = q
      BY <3>1 DEF Reached
    <3>3. ASSUME NEW x \in Q PROVE Owns(x)' \in Q \cup {Null} /\ At("store", x)' = {}
      <4>1. x \in Handles /\ x \notin X
        BY DEF Handles
      <4>2. QED
        BY <2>1, <4>1
    <3>4. WrittenBefore(Q, d)'
      BY <3>3 DEF WrittenBefore
    <3>5. QED
      BY <3>2, <3>4
  <2>4. ASSUME NEW d \in 1..Depth', Step(d)'.op \in {"delete", "members"}
        PROVE  \E S \in SUBSET Nodes : Reached(d)' \in S \cup {Null} /\ WrittenBefore(S, d)'
    <3>1. CASE d \in 1..B
      <4>1. Step(d)' = Step(d)
        BY <1>2, <3>1
      <4>2. QED
        BY <2>2, <2>4, <3>1, <4>1
    <3>2. CASE d \in (B + 1)..Depth'
      BY <2>3, <2>4, <3>2
    <3>3. QED
      BY <1>2, <3>1, <3>2
  <2>5. QED
    BY <2>4 DEF StoresBeforeDeletion
<1>11. CountedOwners'
  BY <1>4 DEF CountedOwners
<1>12. QED
  BY <1>6, <1>7, <1>8, <1>9, <1>10, <1>11 DEF IInv

(***************************************************************************)
(* What a call with unique handles changes: it deletes q, then stores.     *)
(***************************************************************************)
Targets(stores) == {stores[i].at : i \in 1..Len(stores)}

Stacks(q, stores) ==
  /\ todo # <<>> => Head(todo).op = "body"
  /\ stores \in Seq(Entries) /\ \A i \in 1..Len(stores) : stores[i].op = "store"
  /\ todo' = (Deleting(q) \o stores) \o (IF todo = <<>> THEN <<>> ELSE Tail(todo))

LEMMA UniqueCall ==
  ASSUME TypeOK, TypeOK', NEW q \in Nodes \cup {Null}, NEW stores, Stacks(q, stores),
         \A x \in Targets(stores) : At("store", x) = {}
  PROVE  /\ Leaves(Targets(stores), q)
         /\ \A n : At("delete", n)' # {} <=> At("delete", n) # {} \/ (n = q /\ q # Null)
         /\ \A n : At("free", n)' = At("free", n)
         /\ \A n : At("members", n)' = At("members", n)
         /\ \A x \in Handles \ Targets(stores) :
              /\ At("store", x)' = At("store", x)
              /\ (~Busy(x) => ptr'[x] = ptr[x]) => Owns(x)' = Owns(x)
              /\ ~Busy(x) => Owns(x)' = ptr'[x]
         /\ \A i \in 1..Len(stores) :
              (\A j \in 1..Len(stores) : j > i => stores[j].at # stores[i].at)
                => Owns(stores[i].at)' = stores[i].to
<1>a. PICK X, B :
                /\ X = Targets(stores) /\ B = Outer
                /\ X = {stores[i].at : i \in 1..Len(stores)} /\ \A x \in X : At("store", x) = {}
                /\ B = IF todo = <<>> THEN 0 ELSE Depth - 1
  BY DEF Targets, Outer
<1>b. /\ todo # <<>> => Head(todo).op = "body"
    /\ stores \in Seq(Entries) /\ \A i \in 1..Len(stores) : stores[i].op = "store"
  BY DEF Stacks
<1>c. todo' = (Deleting(q) \o stores) \o (IF todo = <<>> THEN <<>> ELSE Tail(todo))
  BY DEF Stacks
<1> DEFINE rest == Deleting(q) \o stores
<1>1. \A n : Delete(n).op = "delete" /\ Delete(n).at = n /\ Delete(n).to = Null
  BY DEF Delete
<1>2. Deleting(q) \in Seq(Entries) /\ Len(Deleting(q)) = (IF q = Null THEN 0 ELSE 1)
      /\ (q # Null => Deleting(q)[1] = Delete(q))
  <2>1. CASE q = Null
    BY <2>1 DEF Deleting
  <2>2. CASE q # Null
    <3>1. Deleting(q) = <<Delete(q)>>
      BY <2>2 DEF Deleting
    <3>2. Delete(q) \in Entries
      BY <2>2 DEF Delete, Entries, Ops, Handles
    <3> HIDE DEF rest
    <3>3. QED
      BY <2>2, <3>1, <3>2
  <2>3. QED
    BY <2>1, <2>2
<1>3. /\ rest \in Seq(Entries) /\ Len(rest) = Len(stores) + (IF q = Null THEN 0 ELSE 1)
      /\ Len(stores) \in Nat
      /\ \A i \in 1..Len(stores) : rest[Len(rest) + 1 - i] = stores[Len(stores) + 1 - i]
      /\ q # Null => rest[1] = Delete(q)
  <2> DEFINE del == Deleting(q)
  <2>1. del \in Seq(Entries) /\ Len(del) \in {0, 1}
    BY <1>2
  <2> HIDE DEF del
  <2>2. /\ del \o stores \in Seq(Entries) /\ Len(del \o stores) = Len(del) + Len(stores)
        /\ Len(stores) \in Nat
        /\ \A i \in 1..Len(stores) : (del \o stores)[Len(del) + i] = stores[i]
        /\ \A i \in 1..Len(del) : (del \o stores)[i] = del[i]
    BY <1>b, <2>1
  <2>3. \A i \in 1..Len(stores) : /\ Len(stores) + 1 - i \in 1..Len(stores)
          /\ Len(del) + (Len(stores) + 1 - i) = (Len(del) + Len(stores)) + 1 - i
    BY <2>1, <2>2
  <2>4. rest = del \o stores
    BY DEF del
  <2> HIDE DEF rest
  <2>5. \A i \in 1..Len(stores) : rest[Len(rest) + 1 - i] = stores[Len(stores) + 1 - i]
    BY <2>2, <2>3, <2>4
  <2>6. q # Null => rest[1] = Delete(q)
    BY <1>2, <2>2, <2>4 DEF del
  <2>7. QED
    BY <1>2, <2>1, <2>2, <2>4, <2>5, <2>6 DEF del
<1>4. /\ B \in Nat /\ B <= Depth /\ Depth' = B + Len(rest)
      /\ \A d \in 1..B : Step(d)' = Step(d)
      /\ \A k \in 1..Len(rest) : Step(B + k)' = rest[Len(rest) + 1 - k]
      /\ \A d \in 1..Depth : d <= B \/ d = Depth
      /\ todo # <<>> => Depth \in 1..Depth /\ Head(todo) = Step(Depth)
  <2>1. todo \in Seq(Entries)
    BY DEF TypeOK, Entries
  <2>2. todo' = rest \o (IF todo = <<>> THEN <<>> ELSE Tail(todo))
    BY <1>c
  <2> HIDE DEF rest
  <2>3. QED
    BY <1>a, <1>3, <2>1, <2>2, Replaced
<1> HIDE DEF rest
<1>5. Kept(B) /\ (B < Depth => Step(Depth).op = "body")
  <2>1. Depth \in Nat /\ (todo = <<>> => Depth = 0)
    BY StepTypes DEF Depth
  <2>2. QED
    <3>1. Depth' \in Nat /\ B <= Depth'
      BY <1>3, <1>4
    <3>2. Kept(B)
      BY <1>4, <3>1 DEF Kept
    <3>3. ASSUME B < Depth PROVE Step(Depth).op = "body"
      <4>1. todo # <<>>
        BY <1>a, <2>1, <3>3
      <4>2. QED
        BY <1>b, <1>4, <4>1
    <3>4. QED
      BY <3>2, <3>3
<1>6. \A i \in 1..Len(stores) : B + (Len(stores) + 1 - i) \in (B + 1)..Depth'
                                /\ Step(B + (Len(stores) + 1 - i))' = stores[i]
  <2> TAKE i \in 1..Len(stores)
  <2>1. Len(stores) + 1 - i \in 1..Len(stores) /\ Len(stores) + 1 - i \in 1..Len(rest)
        /\ Len(stores) + 1 - (Len(stores) + 1 - i) = i
    BY <1>3
  <2>2. Step(B + (Len(stores) + 1 - i))' = rest[Len(rest) + 1 - (Len(stores) + 1 - i)]
    BY <1>4, <2>1
  <2>3. rest[Len(rest) + 1 - (Len(stores) + 1 - i)] = stores[i]
    BY <1>3, <2>1
  <2>4. B + (Len(stores) + 1 - i) \in (B + 1)..Depth'
    BY <1>b, <1>3, <1>4, <2>1
  <2>5. QED
    BY <2>2, <2>3, <2>4
<1>7. \A d \in (B + 1)..Depth' :
         \/ \E i \in 1..Len(stores) : d = B + (Len(stores) + 1 - i)
         \/ d = Depth' /\ q # Null /\ Step(d)' = Delete(q)
  <2> TAKE d \in (B + 1)..Depth'
  <2>1. CASE d - B <= Len(stores)
    <3>1. Len(stores) \in Nat /\ B \in Nat /\ d \in Nat /\ d > B
      BY <1>3, <1>4
    <3>2. \A l, b, c \in Nat : c > b /\ c - b <= l =>
             l + 1 - (c - b) \in 1..l /\ c = b + (l + 1 - (l + 1 - (c - b)))
      OBVIOUS
    <3>3. Len(stores) + 1 - (d - B) \in 1..Len(stores)
          /\ d = B + (Len(stores) + 1 - (Len(stores) + 1 - (d - B)))
      BY <2>1, <3>1, <3>2
    <3>4. QED
      BY <3>3
  <2>2. CASE ~(d - B <= Len(stores))
    <3>1. q # Null /\ d = Depth' /\ d = B + Len(rest) /\ Len(rest) \in 1..Len(rest)
          /\ Len(rest) + 1 - Len(rest) = 1
      BY <1>3, <1>4, <2>2
    <3>2. Step(B + Len(rest))' = rest[Len(rest) + 1 - Len(rest)]
      BY <1>4, <3>1
    <3>3. QED
      BY <1>3, <3>1, <3>2
  <2>3. QED
    BY <2>1, <2>2
<1>8. \A d \in (B + 1)..Depth' :
         \/ Step(d)'.op = "store" /\ Step(d)'.at \in X
         \/ d = Depth' /\ q # Null /\ Step(d)' = Delete(q)
  BY <1>a, <1>b, <1>6, <1>7
<1>9. ASSUME q # Null
      PROVE  \E d \in (B + 1)..Depth' : Step(d)' = Delete(q)
  <2>1. Len(rest) \in 1..Len(rest) /\ Len(rest) + 1 - Len(rest) = 1
        /\ B + Len(rest) \in (B + 1)..Depth'
    BY <1>3, <1>4, <1>9
  <2>2. Step(B + Len(rest))' = rest[Len(rest) + 1 - Len(rest)]
    BY <1>4, <2>1
  <2>3. QED
    BY <1>3, <1>9, <2>1, <2>2
<1>10. \A n : At("delete", n)' # {} <=> At("delete", n) # {} \/ (n = q /\ q # Null)
  <2> TAKE n
  <2>1. /\ \A d \in At("delete", n) : d <= B => d \in At("delete", n)'
        /\ \A d \in At("delete", n)' : IF d <= B THEN d \in At("delete", n)
             ELSE d \in (B + 1)..Depth' /\ Step(d)'.op = "delete" /\ Step(d)'.at = n
    BY <1>5, AtSplit
  <2>2. \A d \in At("delete", n) : d <= B
    <3>1. \A d \in At("delete", n) : d \in 1..Depth /\ Step(d).op = "delete"
      BY DEF At
    <3>2. QED
      BY <1>4, <1>5, <3>1 DEF Kept
  <2>3. ASSUME n = q, q # Null
        PROVE  At("delete", n)' # {}
    <3>1. \A d \in (B + 1)..Depth' : d \in 1..Depth'
      BY <1>3, <1>4
    <3>2. PICK d \in (B + 1)..Depth' : Step(d)' = Delete(q)
      BY <1>9, <2>3
    <3>3. d \in 1..Depth' /\ Step(d)'.op = "delete" /\ Step(d)'.at = n
      BY <1>1, <2>3, <3>1, <3>2
    <3>4. QED
      BY <3>3 DEF At
  <2>4. ASSUME NEW d \in At("delete", n)', ~(d <= B)
        PROVE  n = q /\ q # Null
    BY <1>1, <1>8, <2>1, <2>4
  <2>5. QED
    BY <2>1, <2>2, <2>3, <2>4
<1>11. ASSUME NEW op \in {"free", "members", "store"}, NEW n, op = "store" => n \notin X
       PROVE  At(op, n)' = At(op, n)
  <2>1. B < Depth => ~(Step(Depth).op = op /\ Step(Depth).at = n)
    BY <1>5
  <2>2. \A d \in (B + 1)..Depth' : ~(Step(d)'.op = op /\ Step(d)'.at = n)
    BY <1>1, <1>8, <1>11
  <2>3. QED
    BY <1>5, <2>1, <2>2, AtKept
<1>12. ASSUME NEW x \in Handles \ X
       PROVE  /\ At("store", x)' = At("store", x)
              /\ (~Busy(x) => ptr'[x] = ptr[x]) => Owns(x)' = Owns(x)
              /\ ~Busy(x) => Owns(x)' = ptr'[x]
  <2>1. At("store", x)' = At("store", x) /\ At("free", x)' = At("free", x)
        /\ At("members", x)' = At("members", x)
    BY <1>11
  <2>2. Busy(x)' <=> Busy(x)
    BY <2>1, OwnsIs, OwnsIsNext
  <2>3. At("store", x) \subseteq 1..B
    <3>1. \A d \in At("store", x) : d \in 1..Depth /\ Step(d).op = "store"
      BY DEF At
    <3>2. \A d \in At("store", x) : d <= B
      BY <1>4, <1>5, <3>1 DEF Kept
    <3>3. Depth \in Nat
      BY StepTypes
    <3>4. QED
      BY <1>4, <3>1, <3>2, <3>3
  <2>4. (~Busy(x) => ptr'[x] = ptr[x]) => Owns(x)' = Owns(x)
    BY <1>5, <2>1, <2>2, <2>3, OwnsKept
  <2>5. ~Busy(x) => Owns(x)' = ptr'[x]
    BY <2>2, OwnsIsNext
  <2>6. QED
    BY <2>1, <2>4, <2>5
<1>13. ASSUME NEW i \in 1..Len(stores),
              \A j \in 1..Len(stores) : j > i => stores[j].at # stores[i].at
       PROVE  Owns(stores[i].at)' = stores[i].to
  <2> DEFINE d == B + (Len(stores) + 1 - i)
  <2>1. d \in (B + 1)..Depth' /\ Step(d)' = stores[i] /\ d \in 1..Depth'
    <3>1. d \in (B + 1)..Depth' /\ Step(d)' = stores[i]
      BY <1>6
    <3>2. QED
      BY <1>3, <1>4, <3>1
  <2>2. PICK x \in Handles : x = stores[i].at
    <3>1. stores[i] \in Entries
      BY <1>b
    <3>2. QED
      BY <3>1 DEF Entries
  <2>3. x \in X /\ At("store", x) = {}
    BY <1>a, <2>2
  <2>4. d \in At("store", x)'
    <3>1. Step(d)'.op = "store" /\ Step(d)'.at = x
      BY <1>b, <2>1, <2>2
    <3> HIDE DEF d
    <3>2. QED
      BY <2>1, <3>1 DEF At
  <2>5. ASSUME NEW e \in At("store", x)'
        PROVE  d <= e
    <3>1. IF e <= B THEN e \in At("store", x)
          ELSE e \in (B + 1)..Depth' /\ Step(e)'.op = "store" /\ Step(e)'.at = x
      BY <1>5, AtSplit
    <3>2. e \in (B + 1)..Depth' /\ Step(e)'.op = "store" /\ Step(e)'.at = x
      BY <2>3, <3>1
    <3>3. PICK j \in 1..Len(stores) : e = B + (Len(stores) + 1 - j)
      BY <1>1, <1>7, <3>2
    <3>4. stores[j].at = stores[i].at
      BY <1>6, <2>2, <3>2, <3>3
    <3>5. ~(j > i)
      BY <1>13, <3>4
    <3>6. QED
      BY <1>3, <1>4, <3>3, <3>5
  <2>6. Owns(x)' = Step(d)'.to
    <3> HIDE DEF d
    <3>1. QED
      BY <2>4, <2>5, OwnsIsNext
  <2>7. QED
    BY <2>1, <2>2, <2>6
<1>14. Leaves(Targets(stores), q)
  BY <1>a, <1>5, <1>8 DEF Leaves
<1>15. QED
  BY <1>a, <1>10, <1>11, <1>12, <1>13, <1>14

(***************************************************************************)
(* h takes p from whoever has it, and gives up what it held.               *)
(***************************************************************************)
Left(h, p) == IF Owns(h) = p THEN Null ELSE Owns(h)

Takes(h, p) ==
  /\ \A x \in Handles : Owns(x)' = IF x = h THEN p ELSE IF Owns(x) = p THEN Null ELSE Owns(x)
  /\ raw' = raw \ {p}
  /\ p # Null => At("delete", p) = {} /\ At("free", p) = {}

Deletes(q) == \A n \in Nodes : At("delete", n)' # {} <=> At("delete", n) # {} \/ (n = q /\ q # Null)

LEMMA OwnerTaken ==
  ASSUME TypeOK, ~Shared, UniqueOwner, NEW h \in Handles, NEW p \in Nodes \cup {Null},
         Takes(h, p), Deletes(Left(h, p)),
         \A n \in Nodes : Alive(n)' <=> Alive(n) \/ n = p
  PROVE  UniqueOwner'
<1>1. Null \notin Nodes /\ raw \subseteq Nodes
  BY NestedOwnershipAssumption DEF TypeOK
<1>2. \A x \in Handles : Owns(x) \in Nodes \cup {Null}
  BY OwnsIs
<1>3. /\ \A x, g \in Handles : Owns(x) # Null /\ Owns(x) = Owns(g) => x = g
      /\ \A x \in Handles : Owns(x) # Null =>
           Alive(Owns(x)) /\ Owns(x) \notin raw /\ At("delete", Owns(x)) = {}
      /\ \A n \in raw : Alive(n) /\ At("delete", n) = {}
      /\ \A n \in Nodes : Alive(n) /\ n \notin raw /\ At("delete", n) = {} =>
           \E x \in Handles : Owns(x) = n
  BY DEF UniqueOwner
<1>4. PICK q : /\ q = IF Owns(h) = p THEN Null ELSE Owns(h)
               /\ \A n \in Nodes :
                    At("delete", n)' # {} <=> At("delete", n) # {} \/ (n = q /\ q # Null)
  BY DEF Deletes, Left
<1>5. /\ \A x \in Handles :
           Owns(x)' = IF x = h THEN p ELSE IF Owns(x) = p THEN Null ELSE Owns(x)
      /\ raw' = raw \ {p}
      /\ p # Null => At("delete", p) = {}
  BY DEF Takes
<1>6. \A x, g \in Handles : Owns(x)' # Null /\ Owns(x)' = Owns(g)' => x = g
  BY <1>3, <1>5
<1>7. ASSUME NEW x \in Handles, NEW n \in Nodes, Owns(x)' = n
      PROVE  Alive(n)' /\ n \notin raw' /\ At("delete", n)' = {}
  <2>1. CASE x = h
    BY <1>1, <1>4, <1>5, <1>7, <2>1
  <2>2. CASE x # h
    <3>1. Owns(x) = n /\ n # p /\ n # q
      BY <1>1, <1>3, <1>4, <1>5, <1>7, <2>2
    <3>2. QED
      BY <1>1, <1>3, <1>4, <1>5, <3>1
  <2>3. QED
    BY <2>1, <2>2
<1>8. ASSUME NEW n \in raw'
      PROVE  Alive(n)' /\ At("delete", n)' = {}
  <2>1. n \in raw /\ n # p /\ n \in Nodes /\ n # Null
    BY <1>1, <1>5
  <2>2. n # q
    BY <1>3, <1>4, <2>1
  <2>3. QED
    BY <1>3, <1>4, <2>1, <2>2
<1>9. ASSUME NEW n \in Nodes, Alive(n)', n \notin raw', At("delete", n)' = {}
      PROVE  \E x \in Handles : Owns(x)' = n
  <2>1. CASE n = p
    BY <1>5, <2>1
  <2>2. CASE n # p
    <3>1. PICK x \in Handles : Owns(x) = n
      BY <1>3, <1>4, <1>5, <1>9, <2>2
    <3>2. x # h
      BY <1>1, <1>4, <1>9, <2>2, <3>1
    <3>3. QED
      BY <1>5, <2>2, <3>1, <3>2
  <2>3. QED
    BY <2>1, <2>2
<1>10. \A x \in Handles : Owns(x)' # Null =>
         (Alive(Owns(x)) /\ Owns(x) \notin raw /\ At("delete", Owns(x)) = {})'
  <2> TAKE x \in Handles
  <2> HAVE Owns(x)' # Null
  <2>1. PICK n \in Nodes : n = Owns(x)'
    BY <1>2, <1>5
  <2>2. Alive(n)' /\ n \notin raw' /\ At("delete", n)' = {}
    BY <1>7, <2>1
  <2>3. QED
    BY <2>1, <2>2 DEF Alive, At
<1>11. QED
  BY <1>6, <1>8, <1>9, <1>10 DEF UniqueOwner

LEMMA UniqueTake ==
  ASSUME IInv, TypeOK', ~Shared, kind' = kind,
         NEW h \in Handles, Usable(h), NEW p \in Nodes \cup {Null},
         Takes(h, p), NEW stores, Stacks(Left(h, p), stores),
         \A x \in Targets(stores) : x \in Handles /\ Usable(x) /\ x \notin Below(Owns(h)),
         heap' = heap \cup ({p} \ {Null}),
         \A n \in Nodes \ heap' : ptr'[n] = Null,
         NEW Z \in SUBSET Nodes, p \in Z \cup {Null},
         \A x \in Z : At("store", x) = {} /\ Owns(x) \in Z \cup {Null}
  PROVE  IInv'
<1>1. TypeOK /\ UniqueOwner /\ (\A x \in Handles : Owns(x) \in Nodes \cup {Null}) /\ Null \notin Nodes
  BY OwnsIs, NestedOwnershipAssumption DEF IInv
<1>2. PICK q \in Nodes \cup {Null} :
        q = Left(h, p) /\ q = IF Owns(h) = p THEN Null ELSE Owns(h)
  BY <1>1 DEF Left
<1>3. PICK X : /\ X = Targets(stores)
               /\ \A x \in X : Exists(x) /\ ~Busy(x) /\ At("store", x) = {} /\ x \in Handles
                               /\ x \notin Below(Owns(h))
  BY <1>1, UsableIs
<1>4. /\ Leaves(X, q)
      /\ \A n : At("delete", n)' # {} <=> At("delete", n) # {} \/ (n = q /\ q # Null)
      /\ \A n : At("free", n)' = At("free", n)
  <2>1. \A x \in Targets(stores) : At("store", x) = {}
    BY <1>3
  <2>2. Stacks(q, stores)
    BY <1>2
  <2>3. QED
    BY <1>1, <1>3, <2>1, <2>2, UniqueCall
<1>5. \A n \in Nodes : Alive(n)' <=> Alive(n) \/ n = p
  <2>1. ASSUME NEW n \in Nodes
        PROVE  n \in heap' <=> n \in heap \/ n = p
    BY <1>1
  <2>2. p # Null => At("free", p) = {}
    BY DEF Takes
  <2>3. QED
    BY <1>1, <1>4, <2>1, <2>2 DEF Alive
<1>6. UniqueOwner'
  <2>1. Deletes(Left(h, p))
    BY <1>2, <1>4 DEF Deletes
  <2>2. QED
    BY <1>1, <1>5, <2>1, OwnerTaken
<1>7. \A x \in Handles :
        Owns(x)' = IF x = h THEN p ELSE IF Owns(x) = p THEN Null ELSE Owns(x)
  BY DEF Takes
<1>8. PICK Q \in SUBSET Nodes : q \in Q \cup {Null} /\ Q \cap X = {} /\ Settled(Q)
  <2>1. CASE q = Null
    <3>1. Settled({})
      BY DEF Settled
    <3>2. QED
      BY <2>1, <3>1
  <2>2. CASE q # Null
    <3>1. q = Owns(h) /\ Quiet(q) /\ h \notin Below(q)
      BY <1>1, <1>2, <2>2, UsableIs
    <3>2. Below(q) \in SUBSET Nodes /\ q \in Below(q) \cup {Null}
      BY <2>2, BelowIs
    <3>3. \A x \in Below(q) : /\ x \in Handles /\ Owns(x) \in Below(q) \cup {Null}
                              /\ At("store", x) = {}
      BY <1>1, <3>1, QuietIs
    <3>4. Settled(Below(q))
      BY <1>7, <3>1, <3>3 DEF Settled
    <3>5. Below(q) \cap X = {}
      BY <1>3, <3>1
    <3>6. QED
      BY <3>2, <3>4, <3>5
  <2>3. QED
    BY <2>1, <2>2
<1>9. Settled(Z)
  <2>1. \A x \in Z : x \in Handles
    BY DEF Handles
  <2>2. QED
    BY <1>7, <2>1 DEF Settled
<1>10. \A x \in Handles : Owns(x)' = Owns(x) \/ Owns(x)' \in Z \cup {Null}
  BY <1>7
<1>11. q # Null => Alive(q) /\ At("delete", q) = {}
  BY <1>1, <1>2 DEF UniqueOwner
<1>12. heap \subseteq heap' /\ \A x \in X : Exists(x) /\ ~Busy(x) /\ x \in Handles
  BY <1>3
<1>13. QED
  BY <1>4, <1>6, <1>8, <1>9, <1>10, <1>11, <1>12, UniqueCallKeeps

(***************************************************************************)
(* The calls, with unique handles.                                         *)
(***************************************************************************)
LEMMA StacksTypes ==
  ASSUME TypeOK, NEW q \in Nodes \cup {Null}, NEW stores, Stacks(q, stores)
  PROVE  todo' \in Seq(Entries)
<1>1. Deleting(q) \in Seq(Entries)
  <2>1. q # Null => Delete(q) \in Entries
    BY DEF Delete, Entries, Ops, Handles
  <2>2. QED
    BY <2>1 DEF Deleting
<1>2. todo \in Seq(Entries) /\ (todo # <<>> => Tail(todo) \in Seq(Entries))
  BY DEF TypeOK, Entries
<1>3. stores \in Seq(Entries)
      /\ todo' = (Deleting(q) \o stores) \o (IF todo = <<>> THEN <<>> ELSE Tail(todo))
  BY DEF Stacks
<1>4. Deleting(q) \o stores \in Seq(Entries)
  BY <1>1, <1>3
<1>5. QED
  BY <1>2, <1>3, <1>4

\* An assignment of p through Taken.
LEMMA TakenStacks ==
  ASSUME TypeOK, ~Shared, NEW h \in Handles, NEW p \in Nodes \cup {Null},
         NEW at \in [Handles -> Nodes \cup {Null}], Calls(Taken(h, p, at))
  PROVE  /\ Stacks(at[h], <<Store(h, p)>>) /\ ptr' = at /\ kind' = kind /\ todo' \in Seq(Entries)
         /\ Targets(<<Store(h, p)>>) = {h}
<1>1. <<Store(h, p)>> \in Seq(Entries) /\ Len(<<Store(h, p)>>) = 1
      /\ <<Store(h, p)>>[1].op = "store" /\ <<Store(h, p)>>[1].at = h
  BY DEF Store, Entries, Ops
<1>2. Taken(h, p, at) = [ptr |-> at, rest |-> Deleting(at[h]) \o <<Store(h, p)>>]
  BY DEF Taken, GivenUp, Deleting
<1>3. Stacks(at[h], <<Store(h, p)>>) /\ ptr' = at /\ kind' = kind
  <2>1. PICK stores : stores = <<Store(h, p)>>
    OBVIOUS
  <2>2. PICK result : result = Taken(h, p, at)
    OBVIOUS
  <2>3. result.ptr = at /\ result.rest = Deleting(at[h]) \o stores
    BY <1>2, <2>1, <2>2
  <2>4. /\ todo # <<>> => Head(todo).op = "body"
        /\ todo' = (Deleting(at[h]) \o stores) \o (IF todo = <<>> THEN <<>> ELSE Tail(todo))
        /\ ptr' = at /\ kind' = kind
    BY <2>2, <2>3 DEF Calls
  <2>5. stores \in Seq(Entries) /\ \A i \in 1..Len(stores) : stores[i].op = "store"
    BY <1>1, <2>1
  <2>6. QED
    BY <2>1, <2>4, <2>5 DEF Stacks
<1>4. Targets(<<Store(h, p)>>) = {h}
  BY <1>1 DEF Targets
<1>5. at[h] \in Nodes \cup {Null}
  OBVIOUS
<1>6. QED
  BY <1>3, <1>4, <1>5, StacksTypes

\* What the handles own then.
LEMMA TakenOwns ==
  ASSUME TypeOK, TypeOK', NEW h \in Handles, NEW p \in Nodes \cup {Null},
         NEW q \in Nodes \cup {Null}, Stacks(q, <<Store(h, p)>>),
         Targets(<<Store(h, p)>>) = {h}, At("store", h) = {}
  PROVE  /\ Owns(h)' = p
         /\ \A x \in Handles \ {h} : /\ (~Busy(x) => ptr'[x] = ptr[x]) => Owns(x)' = Owns(x)
                                     /\ ~Busy(x) => Owns(x)' = ptr'[x]
<1>1. Len(<<Store(h, p)>>) = 1
      /\ <<Store(h, p)>>[1].op = "store" /\ <<Store(h, p)>>[1].at = h /\ <<Store(h, p)>>[1].to = p
  BY DEF Store
<1>2. PICK stores : stores = <<Store(h, p)>>
  OBVIOUS
<1>3. /\ \A x \in Handles \ {h} : /\ (~Busy(x) => ptr'[x] = ptr[x]) => Owns(x)' = Owns(x)
                                  /\ ~Busy(x) => Owns(x)' = ptr'[x]
      /\ \A i \in 1..Len(stores) :
           (\A j \in 1..Len(stores) : j > i => stores[j].at # stores[i].at)
             => Owns(stores[i].at)' = stores[i].to
  <2>1. \A x \in Targets(stores) : At("store", x) = {}
    BY <1>2
  <2>2. Targets(stores) = {h} /\ Stacks(q, stores)
    BY <1>2
  <2>3. QED
    BY <2>1, <2>2, UniqueCall
<1>4. Owns(h)' = p
  BY <1>1, <1>2, <1>3
<1>5. QED
  BY <1>3, <1>4

LEMMA UniqueReset ==
  ASSUME IInv, ~Shared, NEW h \in Handles, Reset(h)
  PROVE  IInv'
<1>1. TypeOK /\ UniqueOwner /\ StepsExist /\ Usable(h) /\ Null \notin Nodes /\ raw \subseteq Nodes
  BY NestedOwnershipAssumption DEF IInv, TypeOK, Reset
<1>2. Calls(Taken(h, Null, ptr)) /\ refs' = refs /\ heap' = heap /\ raw' = raw
      /\ ptr \in [Handles -> Nodes \cup {Null}]
  BY <1>1 DEF Reset, TypeOK
<1>3. /\ Stacks(ptr[h], <<Store(h, Null)>>) /\ ptr' = ptr /\ kind' = kind
      /\ todo' \in Seq(Entries) /\ Targets(<<Store(h, Null)>>) = {h}
  BY <1>1, <1>2, TakenStacks
<1>4. TypeOK'
  BY <1>1, <1>2, <1>3 DEF TypeOK, Entries
<1>5. /\ Owns(h) = ptr[h] /\ At("store", h) = {} /\ h \notin Below(Owns(h))
      /\ ptr[h] \in Nodes \cup {Null}
  BY <1>1, UsableIs
<1>6. Owns(h)' = Null /\ \A x \in Handles \ {h} : Owns(x)' = Owns(x)
  BY <1>1, <1>3, <1>4, <1>5, TakenOwns
<1>7. Takes(h, Null)
  BY <1>1, <1>2, <1>6 DEF Takes
<1>8. Left(h, Null) = ptr[h]
  BY <1>5 DEF Left
<1>9. PICK stores : stores = <<Store(h, Null)>>
  OBVIOUS
<1>10. \A n \in Nodes \ heap' : ptr'[n] = Null
  BY <1>1, <1>2, <1>3 DEF StepsExist
<1>11. /\ Stacks(Left(h, Null), stores)
       /\ \A x \in Targets(stores) : x \in Handles /\ Usable(x) /\ x \notin Below(Owns(h))
  BY <1>1, <1>3, <1>5, <1>8, <1>9
<1>12. heap' = heap \cup ({Null} \ {Null})
  BY <1>2
<1>13. PICK Z \in SUBSET Nodes : /\ Null \in Z \cup {Null}
                                 /\ \A x \in Z : At("store", x) = {} /\ Owns(x) \in Z \cup {Null}
  <2>1. {} \in SUBSET Nodes /\ \A x \in {} : At("store", x) = {} /\ Owns(x) \in {} \cup {Null}
    OBVIOUS
  <2>2. QED
    BY <2>1
<1>14. QED
  BY <1>1, <1>3, <1>4, <1>7, <1>10, <1>11, <1>12, <1>13, UniqueTake

LEMMA UniqueMake ==
  ASSUME IInv, ~Shared, NEW h \in Handles, Make(h)
  PROVE  IInv'
<1>1. TypeOK /\ UniqueOwner /\ StepsExist /\ Usable(h) /\ Null \notin Nodes /\ raw \subseteq heap
      /\ heap \subseteq Nodes
  BY NestedOwnershipAssumption DEF IInv, TypeOK, Make
<1>2. PICK n \in Nodes \ heap :
        /\ Calls(Taken(h, n, [ptr EXCEPT ![n] = Null]))
        /\ heap' = heap \cup {n} /\ raw' = raw
        /\ refs' = [refs EXCEPT ![n] = IF Shared THEN FirstCount ELSE 0]
  BY DEF Make
<1>3. n \in Handles /\ n # Null /\ n # h /\ ptr[n] = Null
      /\ [ptr EXCEPT ![n] = Null] = ptr /\ ptr \in [Handles -> Nodes \cup {Null}]
  <2>1. n \in Handles /\ ptr[n] = Null /\ ptr \in [Handles -> Nodes \cup {Null}]
    BY <1>1 DEF StepsExist, Handles, TypeOK
  <2>2. n # h
    BY <1>1, UsableIs, NestedOwnershipAssumption DEF Exists
  <2>3. QED
    BY <1>1, <2>1, <2>2
<1>4. /\ Stacks(ptr[h], <<Store(h, n)>>) /\ ptr' = ptr /\ kind' = kind
      /\ todo' \in Seq(Entries) /\ Targets(<<Store(h, n)>>) = {h}
  BY <1>1, <1>2, <1>3, TakenStacks
<1>5. TypeOK'
  <2>1. refs' \in [Nodes -> Nat]
    BY <1>1, <1>2 DEF TypeOK, FirstCount
  <2>2. QED
    BY <1>1, <1>2, <1>4, <2>1 DEF TypeOK, Entries
<1>6. /\ Owns(h) = ptr[h] /\ At("store", h) = {} /\ h \notin Below(Owns(h))
      /\ ptr[h] \in Nodes \cup {Null}
  BY <1>1, UsableIs
<1>7. Owns(h)' = n /\ \A x \in Handles \ {h} : Owns(x)' = Owns(x)
  BY <1>1, <1>4, <1>5, <1>6, TakenOwns
\* The new object is nobody's yet.
<1>8. \A x \in Handles : Owns(x) # n
  BY <1>1, <1>3 DEF UniqueOwner, Alive
<1>9. At("delete", n) = {} /\ At("free", n) = {} /\ At("store", n) = {}
  <2>1. \A op, d : d \in At(op, n) => d \in 1..Depth /\ Step(d).op = op /\ Step(d).at = n
    BY DEF At
  <2>2. ~Exists(n)
    BY NestedOwnershipAssumption DEF Exists
  <2>3. \A op \in {"delete", "free", "store"} : \A d : d \notin At(op, n)
    BY <1>1, <2>1, <2>2 DEF StepsExist
  <2>4. QED
    BY <2>3
<1>10. Takes(h, n)
  BY <1>1, <1>2, <1>3, <1>7, <1>8, <1>9 DEF Takes
<1>11. Left(h, n) = ptr[h]
  BY <1>6, <1>8 DEF Left
<1>12. PICK stores : stores = <<Store(h, n)>>
  OBVIOUS
<1>13. \A m \in Nodes \ heap' : ptr'[m] = Null
  BY <1>1, <1>2, <1>4 DEF StepsExist
<1>14. /\ Stacks(Left(h, n), stores)
       /\ \A x \in Targets(stores) : x \in Handles /\ Usable(x) /\ x \notin Below(Owns(h))
  BY <1>1, <1>4, <1>6, <1>11, <1>12
<1>15. heap' = heap \cup ({n} \ {Null})
  BY <1>2, <1>3
<1>16. Owns(n) = Null
  <2>1. At("free", n) = {} /\ At("store", n) = {}
    BY <1>9
  <2>2. QED
    BY <1>1, <1>3, <2>1, OwnsIs
<1>17. PICK Z \in SUBSET Nodes : /\ n \in Z \cup {Null}
                                 /\ \A x \in Z : At("store", x) = {} /\ Owns(x) \in Z \cup {Null}
  <2>1. /\ {n} \in SUBSET Nodes /\ n \in {n} \cup {Null}
        /\ \A x \in {n} : At("store", x) = {} /\ Owns(x) \in {n} \cup {Null}
    BY <1>9, <1>16
  <2>2. QED
    BY <2>1
<1>18. n \in Nodes \cup {Null}
  OBVIOUS
<1>19. QED
  BY <1>1, <1>4, <1>5, <1>10, <1>13, <1>14, <1>15, <1>17, <1>18, UniqueTake

LEMMA UniqueResetPtr ==
  ASSUME IInv, ~Shared, NEW h \in Handles, ResetPtr(h)
  PROVE  IInv'
<1>1. TypeOK /\ UniqueOwner /\ StepsExist /\ Usable(h) /\ Null \notin Nodes /\ raw \subseteq heap
      /\ heap \subseteq Nodes
  BY NestedOwnershipAssumption DEF IInv, TypeOK, ResetPtr
<1>2. PICK p \in raw : /\ Calls(Taken(h, p, ptr)) /\ Quiet(p)
                       /\ refs' = refs /\ heap' = heap /\ raw' = raw \ {p}
  BY DEF ResetPtr
<1>3. p \in Nodes /\ p # Null /\ p \in heap /\ ptr \in [Handles -> Nodes \cup {Null}]
  BY <1>1 DEF TypeOK
<1>4. /\ Stacks(ptr[h], <<Store(h, p)>>) /\ ptr' = ptr /\ kind' = kind
      /\ todo' \in Seq(Entries) /\ Targets(<<Store(h, p)>>) = {h}
  BY <1>1, <1>2, <1>3, TakenStacks
<1>5. TypeOK'
  BY <1>1, <1>2, <1>4 DEF TypeOK, Entries
<1>6. /\ Owns(h) = ptr[h] /\ At("store", h) = {} /\ h \notin Below(Owns(h))
      /\ ptr[h] \in Nodes \cup {Null}
  BY <1>1, UsableIs
<1>7. Owns(h)' = p /\ \A x \in Handles \ {h} : Owns(x)' = Owns(x)
  BY <1>1, <1>3, <1>4, <1>5, <1>6, TakenOwns
<1>8. \A x \in Handles : Owns(x) # p
  BY <1>1, <1>3 DEF UniqueOwner
<1>9. At("delete", p) = {} /\ At("free", p) = {}
  BY <1>1 DEF UniqueOwner, Alive
<1>10. Takes(h, p)
  BY <1>1, <1>2, <1>3, <1>7, <1>8, <1>9 DEF Takes
<1>11. Left(h, p) = ptr[h]
  BY <1>6, <1>8 DEF Left
<1>12. PICK stores : stores = <<Store(h, p)>>
  OBVIOUS
<1>13. \A m \in Nodes \ heap' : ptr'[m] = Null
  BY <1>1, <1>2, <1>4 DEF StepsExist
<1>14. /\ Stacks(Left(h, p), stores)
       /\ \A x \in Targets(stores) : x \in Handles /\ Usable(x) /\ x \notin Below(Owns(h))
  BY <1>1, <1>4, <1>6, <1>11, <1>12
<1>15. heap' = heap \cup ({p} \ {Null})
  BY <1>2, <1>3
<1>16. /\ Below(p) \in SUBSET Nodes /\ p \in Below(p) \cup {Null} /\ p \in Nodes \cup {Null}
       /\ \A x \in Below(p) : At("store", x) = {} /\ Owns(x) \in Below(p) \cup {Null}
  BY <1>1, <1>2, <1>3, BelowIs, QuietIs
<1>17. QED
  BY <1>1, <1>4, <1>5, <1>10, <1>13, <1>14, <1>15, <1>16, UniqueTake

\* unique_ptr, and unique_array: what moving g to h leaves to do.
LEMMA ArrayMovedStacks ==
  ASSUME TypeOK, kind = "unique_array", NEW h \in Handles, NEW g \in Handles,
         Calls(Moved(h, g)), NEW stores, stores = <<Store(h, ptr[g]), Store(g, Null)>>
  PROVE  /\ Stacks(ptr[h], stores) /\ ptr' = ptr /\ kind' = kind /\ todo' \in Seq(Entries)
         /\ Targets(stores) = {h, g} /\ 1 \in 1..Len(stores) /\ 2 \in 1..Len(stores)
         /\ \A i \in 1..Len(stores) : i = 1 \/ i = 2
         /\ stores[1].at = h /\ stores[1].to = ptr[g]
         /\ stores[2].at = g /\ stores[2].to = Null
<1>1. ptr[g] \in Nodes \cup {Null} /\ ptr[h] \in Nodes \cup {Null}
  BY DEF TypeOK
<1>2. Store(h, ptr[g]) \in Entries /\ Store(g, Null) \in Entries
  BY <1>1 DEF Store, Entries, Ops
<1>3. Len(stores) = 2 /\ stores[1] = Store(h, ptr[g]) /\ stores[2] = Store(g, Null)
      /\ stores \in Seq(Entries)
  BY <1>2
<1>4. stores[1].op = "store" /\ stores[2].op = "store" /\ stores[1].at = h /\ stores[2].at = g
      /\ stores[1].to = ptr[g] /\ stores[2].to = Null
  BY <1>3 DEF Store
<1>5. 1 \in 1..Len(stores) /\ 2 \in 1..Len(stores) /\ \A i \in 1..Len(stores) : i = 1 \/ i = 2
  BY <1>3
<1>6. PICK result : result = Moved(h, g)
  OBVIOUS
<1>7. result.ptr = ptr /\ result.rest = Deleting(ptr[h]) \o stores
  BY <1>6 DEF Moved
<1>8. /\ todo # <<>> => Head(todo).op = "body"
      /\ todo' = (Deleting(ptr[h]) \o stores) \o (IF todo = <<>> THEN <<>> ELSE Tail(todo))
      /\ ptr' = ptr /\ kind' = kind
  BY <1>6, <1>7 DEF Calls
<1>9. Stacks(ptr[h], stores)
  BY <1>3, <1>4, <1>5, <1>8 DEF Stacks
<1>10. Targets(stores) = {h, g}
  BY <1>4, <1>5 DEF Targets
<1>11. QED
  BY <1>1, <1>4, <1>5, <1>8, <1>9, <1>10, StacksTypes

LEMMA UniqueMove ==
  ASSUME IInv, ~Shared, NoDescent, NEW h \in Handles, NEW g \in Handles, Move(h, g)
  PROVE  IInv'
<1>1. TypeOK /\ UniqueOwner /\ StepsExist /\ Usable(h) /\ Usable(g) /\ Null \notin Nodes
      /\ raw \subseteq heap /\ heap \subseteq Nodes
  BY NestedOwnershipAssumption DEF IInv, TypeOK, Move
<1>2. /\ Calls(Moved(h, g)) /\ refs' = refs /\ heap' = heap /\ raw' = raw
      /\ kind = "unique_array" => g \notin Below(ptr[h])
      /\ ptr \in [Handles -> Nodes \cup {Null}]
  BY <1>1 DEF Move, TypeOK, NoDescent
<1>3. /\ Owns(h) = ptr[h] /\ At("store", h) = {} /\ h \notin Below(Owns(h)) /\ ~Busy(h)
      /\ ptr[h] \in Nodes \cup {Null}
      /\ Owns(g) = ptr[g] /\ At("store", g) = {} /\ ~Busy(g)
      /\ ptr[g] \in Nodes \cup {Null} /\ Quiet(Owns(g))
  BY <1>1, UsableIs
<1>4. \A x, y \in Handles : Owns(x) # Null /\ Owns(x) = Owns(y) => x = y
  BY <1>1 DEF UniqueOwner
<1>5. Owns(g) # Null => /\ Owns(g) \in heap /\ Owns(g) \notin raw
                        /\ At("delete", Owns(g)) = {} /\ At("free", Owns(g)) = {}
  BY <1>1 DEF UniqueOwner, Alive
<1>6. /\ Below(Owns(g)) \in SUBSET Nodes /\ Owns(g) \in Below(Owns(g)) \cup {Null}
      /\ \A x \in Below(Owns(g)) : At("store", x) = {} /\ Owns(x) \in Below(Owns(g)) \cup {Null}
  BY <1>1, <1>3, BelowIs, QuietIs
<1>7. CASE kind # "unique_array"
  <2> DEFINE at == [ptr EXCEPT ![g] = Null]
  <2>1. Calls(Taken(h, ptr[g], at)) /\ at \in [Handles -> Nodes \cup {Null}]
    BY <1>2, <1>7 DEF Moved
  <2>2. /\ Stacks(at[h], <<Store(h, ptr[g])>>) /\ ptr' = at /\ kind' = kind
        /\ todo' \in Seq(Entries) /\ Targets(<<Store(h, ptr[g])>>) = {h}
    <3> HIDE DEF at
    <3>1. QED
      BY <1>1, <1>3, <2>1, TakenStacks
  <2>3. TypeOK'
    BY <1>1, <1>2, <2>1, <2>2 DEF TypeOK, Entries
  <2>4. PICK p \in Nodes \cup {Null} : p = Owns(g) /\ p = ptr[g]
    BY <1>3
  <2>5. Left(h, p) = at[h] /\ at[h] \in Nodes \cup {Null}
    BY <1>2, <1>3, <1>4, <2>1, <2>4 DEF Left
  <2>6. Owns(h)' = p /\ \A x \in Handles \ {h} : /\ (~Busy(x) => ptr'[x] = ptr[x]) => Owns(x)' = Owns(x)
                                                 /\ ~Busy(x) => Owns(x)' = ptr'[x]
    BY <1>1, <1>3, <2>2, <2>3, <2>4, <2>5, TakenOwns
  <2>7. \A x \in Handles : Owns(x)' = IF x = h THEN p ELSE IF Owns(x) = p THEN Null ELSE Owns(x)
    <3> TAKE x \in Handles
    <3>1. CASE x = h
      BY <2>6, <3>1
    <3>2. CASE x # h /\ x = g
      BY <1>2, <1>3, <2>2, <2>4, <2>6, <3>2
    <3>3. CASE x # h /\ x # g
      <4>1. ptr'[x] = ptr[x]
        BY <1>2, <2>2, <3>3
      <4>2. Owns(x)' = Owns(x)
        BY <2>6, <3>3, <4>1
      <4>3. Owns(x) = p => p = Null
        BY <1>4, <2>4, <3>3
      <4>4. QED
        BY <3>3, <4>2, <4>3
    <3>4. QED
      BY <3>1, <3>2, <3>3
  <2>8. Takes(h, p)
    <3>1. p \notin raw /\ (p # Null => At("delete", p) = {} /\ At("free", p) = {})
      BY <1>1, <1>5, <2>4
    <3>2. raw' = raw \ {p}
      BY <1>2, <3>1
    <3>3. QED
      BY <2>7, <3>1, <3>2 DEF Takes
  <2>9. PICK stores : stores = <<Store(h, ptr[g])>>
    OBVIOUS
  <2>10. \A m \in Nodes \ heap' : ptr'[m] = Null
    <3>1. \A m \in Nodes \ heap : ptr[m] = Null /\ m \in Handles
      BY <1>1 DEF StepsExist, Handles
    <3>2. QED
      BY <1>2, <2>2, <3>1
  <2>11. /\ Stacks(Left(h, p), stores)
         /\ \A x \in Targets(stores) : x \in Handles /\ Usable(x) /\ x \notin Below(Owns(h))
    BY <1>1, <1>3, <2>2, <2>5, <2>9
  <2>12. heap' = heap \cup ({p} \ {Null})
    BY <1>2, <1>5, <2>4
  <2> HIDE DEF at
  <2>13. /\ Below(p) \in SUBSET Nodes /\ p \in Below(p) \cup {Null}
         /\ \A x \in Below(p) : At("store", x) = {} /\ Owns(x) \in Below(p) \cup {Null}
    BY <1>6, <2>4
  <2>14. QED
    BY <1>1, <2>2, <2>3, <2>8, <2>10, <2>11, <2>12, <2>13, UniqueTake
<1>8. CASE kind = "unique_array"
  <2>1. PICK stores : stores = <<Store(h, ptr[g]), Store(g, Null)>>
    OBVIOUS
  <2>2. /\ Stacks(ptr[h], stores) /\ ptr' = ptr /\ kind' = kind /\ todo' \in Seq(Entries)
        /\ Targets(stores) = {h, g} /\ 1 \in 1..Len(stores) /\ 2 \in 1..Len(stores)
        /\ \A i \in 1..Len(stores) : i = 1 \/ i = 2
        /\ stores[1].at = h /\ stores[1].to = ptr[g]
        /\ stores[2].at = g /\ stores[2].to = Null
    BY <1>1, <1>2, <1>8, <2>1, ArrayMovedStacks
  <2>3. TypeOK'
    BY <1>1, <1>2, <2>2 DEF TypeOK, Entries
  <2>4. PICK p \in Nodes \cup {Null} : p = IF g = h THEN Null ELSE Owns(g)
    BY <1>3
  <2>5. Left(h, p) = ptr[h]
    BY <1>3, <1>4, <2>4 DEF Left
  <2>6. \A x \in Handles : Owns(x)' = IF x = h THEN p ELSE IF Owns(x) = p THEN Null ELSE Owns(x)
    <3>1. /\ \A x \in Handles \ {h, g} : (~Busy(x) => ptr'[x] = ptr[x]) => Owns(x)' = Owns(x)
          /\ \A i \in 1..Len(stores) :
               (\A j \in 1..Len(stores) : j > i => stores[j].at # stores[i].at)
                 => Owns(stores[i].at)' = stores[i].to
      <4>1. \A x \in Targets(stores) : At("store", x) = {}
        BY <1>3, <2>2
      <4>2. QED
        BY <1>1, <1>3, <2>2, <2>3, <4>1, UniqueCall
    <3>2. Owns(g)' = Null
      <4>1. \A j \in 1..Len(stores) : j > 2 => stores[j].at # stores[2].at
        BY <2>2
      <4>2. QED
        BY <2>2, <3>1, <4>1
    <3>3. g # h => Owns(h)' = ptr[g]
      <4>1. g # h => \A j \in 1..Len(stores) : j > 1 => stores[j].at # stores[1].at
        BY <2>2
      <4>2. QED
        BY <2>2, <3>1, <4>1
    <3>4. \A x \in Handles \ {h, g} : Owns(x)' = Owns(x)
      BY <2>2, <3>1
    <3> TAKE x \in Handles
    <3>5. CASE x = h
      BY <1>3, <2>4, <3>2, <3>3, <3>5
    <3>6. CASE x # h /\ x = g
      BY <2>4, <3>2, <3>6
    <3>7. CASE x # h /\ x # g
      BY <1>4, <2>4, <3>4, <3>7
    <3>8. QED
      BY <3>5, <3>6, <3>7
  <2>7. Takes(h, p)
    <3>1. p \notin raw /\ (p # Null => At("delete", p) = {} /\ At("free", p) = {})
      BY <1>1, <1>5, <2>4
    <3>2. raw' = raw \ {p}
      BY <1>2, <3>1
    <3>3. QED
      BY <2>6, <3>1, <3>2 DEF Takes
  <2>8. \A m \in Nodes \ heap' : ptr'[m] = Null
    BY <1>1, <1>2, <2>2 DEF StepsExist
  <2>9. /\ Stacks(Left(h, p), stores)
        /\ \A x \in Targets(stores) : x \in Handles /\ Usable(x) /\ x \notin Below(Owns(h))
    BY <1>1, <1>2, <1>3, <1>8, <2>2, <2>5
  <2>10. heap' = heap \cup ({p} \ {Null})
    BY <1>2, <1>5, <2>4
  <2>11. PICK Z \in SUBSET Nodes : /\ p \in Z \cup {Null}
                                   /\ \A x \in Z : At("store", x) = {} /\ Owns(x) \in Z \cup {Null}
    BY <1>6, <2>4
  <2>12. QED
    BY <1>1, <2>2, <2>3, <2>7, <2>8, <2>9, <2>10, <2>11, UniqueTake
<1>9. QED
  BY <1>7, <1>8

\* A call that deletes and stores nothing.
LEMMA QuietCall ==
  ASSUME TypeOK, Calls([ptr |-> ptr', rest |-> <<>>])
  PROVE  Stacks(Null, <<>>) /\ kind' = kind /\ todo' \in Seq(Entries) /\ Targets(<<>>) = {}
<1>1. PICK stores : stores = <<>>
  OBVIOUS
<1>2. Deleting(Null) = <<>>
  BY DEF Deleting
<1>3. stores \in Seq(Entries) /\ Len(stores) = 0 /\ (1..Len(stores)) = {}
  BY <1>1
<1>4. Deleting(Null) \o stores = <<>>
  BY <1>1, <1>2
<1>5. /\ todo # <<>> => Head(todo).op = "body"
      /\ todo' = (Deleting(Null) \o stores) \o (IF todo = <<>> THEN <<>> ELSE Tail(todo))
      /\ kind' = kind
  BY <1>4 DEF Calls
<1>6. Stacks(Null, stores)
  BY <1>3, <1>5 DEF Stacks
<1>7. Targets(stores) = {}
  BY <1>3 DEF Targets
<1>8. QED
  BY <1>1, <1>5, <1>6, <1>7, StacksTypes

LEMMA QuietCallLeaves ==
  ASSUME TypeOK, TypeOK', NEW stores, Stacks(Null, stores), \A x : x \notin Targets(stores)
  PROVE  /\ Leaves(Targets(stores), Null)
         /\ \A n : At("delete", n)' # {} <=> At("delete", n) # {}
         /\ \A n : At("free", n)' = At("free", n)
         /\ \A x \in Handles : /\ (~Busy(x) => ptr'[x] = ptr[x]) => Owns(x)' = Owns(x)
                               /\ ~Busy(x) => Owns(x)' = ptr'[x]
<1>1. PICK q \in Nodes \cup {Null} : q = Null
  OBVIOUS
<1>2. PICK X : X = Targets(stores)
  OBVIOUS
<1>3. \A x \in Targets(stores) : At("store", x) = {}
  OBVIOUS
<1>4. Stacks(q, stores)
  BY <1>1
<1>5. /\ Leaves(X, q)
      /\ \A n : At("delete", n)' # {} <=> At("delete", n) # {} \/ (n = q /\ q # Null)
      /\ \A n : At("free", n)' = At("free", n)
      /\ \A x \in Handles \ X :
           /\ (~Busy(x) => ptr'[x] = ptr[x]) => Owns(x)' = Owns(x)
           /\ ~Busy(x) => Owns(x)' = ptr'[x]
  BY <1>2, <1>3, <1>4, UniqueCall, ZenonT(60)
<1>6. \A x \in Handles : x \in Handles \ X
  BY <1>2
<1>7. QED
  BY <1>1, <1>2, <1>5, <1>6

LEMMA UniqueExtract ==
  ASSUME IInv, ~Shared, NEW h \in Handles, Extract(h)
  PROVE  IInv'
<1>1. TypeOK /\ UniqueOwner /\ StepsExist /\ Usable(h) /\ Null \notin Nodes
      /\ raw \subseteq heap /\ heap \subseteq Nodes
  BY NestedOwnershipAssumption DEF IInv, TypeOK, Extract
<1>2. /\ ptr' = [ptr EXCEPT ![h] = Null] /\ Calls([ptr |-> ptr', rest |-> <<>>])
      /\ refs' = refs /\ heap' = heap /\ raw' = raw \cup {ptr[h]} /\ ptr[h] # Null
      /\ ptr \in [Handles -> Nodes \cup {Null}]
  BY <1>1 DEF Extract, TypeOK, Calls
<1>3. PICK stores : stores = <<>>
  OBVIOUS
<1>4. Stacks(Null, stores) /\ kind' = kind /\ todo' \in Seq(Entries) /\ Targets(stores) = {}
  BY <1>1, <1>2, <1>3, QuietCall
<1>5. Owns(h) = ptr[h] /\ ~Busy(h) /\ \A x \in Handles : Owns(x) \in Nodes \cup {Null}
  BY <1>1, UsableIs, OwnsIs
<1>6. PICK p \in Nodes : p = ptr[h] /\ p = Owns(h)
  BY <1>2, <1>5
<1>7. /\ \A x, g \in Handles : Owns(x) # Null /\ Owns(x) = Owns(g) => x = g
      /\ \A x \in Handles : Owns(x) # Null =>
           Alive(Owns(x)) /\ Owns(x) \notin raw /\ At("delete", Owns(x)) = {}
      /\ \A n \in raw : Alive(n) /\ At("delete", n) = {}
      /\ \A n \in Nodes : Alive(n) /\ n \notin raw /\ At("delete", n) = {} =>
           \E x \in Handles : Owns(x) = n
  BY <1>1 DEF UniqueOwner
<1>8. Alive(p) /\ p # Null /\ p \in heap
  BY <1>1, <1>6, <1>7 DEF Alive
<1>9. TypeOK'
  BY <1>1, <1>2, <1>4, <1>6, <1>8 DEF TypeOK, Entries
<1>10. /\ Leaves(Targets(stores), Null)
       /\ \A n : At("delete", n)' # {} <=> At("delete", n) # {}
       /\ \A n : At("free", n)' = At("free", n)
       /\ \A x \in Handles : /\ (~Busy(x) => ptr'[x] = ptr[x]) => Owns(x)' = Owns(x)
                             /\ ~Busy(x) => Owns(x)' = ptr'[x]
  BY <1>1, <1>4, <1>9, QuietCallLeaves
<1>11. \A n : Alive(n)' <=> Alive(n)
  BY <1>2, <1>10 DEF Alive
<1>12. \A x \in Handles : Owns(x)' = IF x = h THEN Null ELSE Owns(x)
  BY <1>2, <1>5, <1>10
<1>13. UniqueOwner'
  <2>1. \A x, g \in Handles : Owns(x)' # Null /\ Owns(x)' = Owns(g)' => x = g
    BY <1>7, <1>12
  <2>2. ASSUME NEW x \in Handles, NEW n \in Nodes, Owns(x)' = n
        PROVE  Alive(n)' /\ n \notin raw' /\ At("delete", n)' = {}
    <3>1. x # h /\ Owns(x) = n
      BY <1>1, <1>12, <2>2
    <3>2. n # p
      BY <1>1, <1>6, <1>7, <3>1
    <3>3. QED
      BY <1>1, <1>2, <1>6, <1>7, <1>10, <1>11, <3>1, <3>2
  <2>3. ASSUME NEW n \in raw'
        PROVE  Alive(n)' /\ At("delete", n)' = {}
    <3>1. n \in raw \/ n = p
      BY <1>2, <1>6
    <3>2. Alive(n) /\ At("delete", n) = {}
      BY <1>6, <1>7, <1>8, <3>1
    <3>3. QED
      BY <1>10, <1>11, <3>2
  <2>4. ASSUME NEW n \in Nodes, Alive(n)', n \notin raw', At("delete", n)' = {}
        PROVE  \E x \in Handles : Owns(x)' = n
    <3>1. n \notin raw /\ n # p /\ Alive(n) /\ At("delete", n) = {}
      BY <1>2, <1>6, <1>10, <1>11, <2>4
    <3>2. PICK x \in Handles : Owns(x) = n
      BY <1>7, <3>1
    <3>3. x # h
      BY <1>6, <3>1, <3>2
    <3>4. QED
      BY <1>12, <3>2, <3>3
  <2>5. \A x \in Handles : Owns(x)' # Null =>
          (Alive(Owns(x)) /\ Owns(x) \notin raw /\ At("delete", Owns(x)) = {})'
    <3> TAKE x \in Handles
    <3> HAVE Owns(x)' # Null
    <3>1. PICK n \in Nodes : n = Owns(x)'
      BY <1>5, <1>12
    <3>2. Alive(n)' /\ n \notin raw' /\ At("delete", n)' = {}
      BY <2>2, <3>1
    <3>3. QED
      BY <3>1, <3>2 DEF Alive, At
  <2>6. QED
    BY <2>1, <2>3, <2>4, <2>5 DEF UniqueOwner
<1>14. PICK Z \in SUBSET Nodes : Z = {} /\ Settled(Z)
  BY DEF Settled
<1>15. \A m \in Nodes \ heap' : ptr'[m] = Null
  <2>1. \A m \in Nodes \ heap : ptr[m] = Null /\ m \in Handles
    BY <1>1 DEF StepsExist, Handles
  <2>2. QED
    BY <1>2, <2>1
<1>16. PICK X : X = {} /\ Leaves(X, Null)
  BY <1>4, <1>10
<1>17. /\ \A x \in X : Exists(x) /\ ~Busy(x) /\ x \in Handles
       /\ Null \in Nodes \cup {Null} /\ Null \in Z \cup {Null} /\ Z \cap X = {}
       /\ Null # Null => Alive(Null) /\ At("delete", Null) = {}
       /\ \A x \in Handles : Owns(x)' = Owns(x) \/ Owns(x)' \in Z \cup {Null}
       /\ heap \subseteq heap'
  BY <1>2, <1>12, <1>14, <1>16
<1>18. QED
  BY <1>4, <1>9, <1>13, <1>14, <1>15, <1>16, <1>17, UniqueCallKeeps

LEMMA UniqueSwap ==
  ASSUME IInv, ~Shared, NEW h \in Handles, NEW g \in Handles, Swap(h, g)
  PROVE  IInv'
<1>1. TypeOK /\ UniqueOwner /\ StepsExist /\ Usable(h) /\ Usable(g) /\ h # g /\ Null \notin Nodes
      /\ raw \subseteq heap /\ heap \subseteq Nodes
  BY NestedOwnershipAssumption DEF IInv, TypeOK, Swap
<1>2. /\ ptr' = [ptr EXCEPT ![h] = ptr[g], ![g] = ptr[h]] /\ Calls([ptr |-> ptr', rest |-> <<>>])
      /\ refs' = refs /\ heap' = heap /\ raw' = raw
      /\ ptr \in [Handles -> Nodes \cup {Null}]
  BY <1>1 DEF Swap, TypeOK, Calls
<1>3. PICK stores : stores = <<>>
  OBVIOUS
<1>4. Stacks(Null, stores) /\ kind' = kind /\ todo' \in Seq(Entries) /\ Targets(stores) = {}
  BY <1>1, <1>2, <1>3, QuietCall
<1>5. Owns(h) = ptr[h] /\ ~Busy(h) /\ Quiet(Owns(h)) /\ Owns(g) = ptr[g] /\ ~Busy(g) /\ Quiet(Owns(g))
      /\ \A x \in Handles : Owns(x) \in Nodes \cup {Null}
  BY <1>1, UsableIs, OwnsIs
<1>6. TypeOK'
  BY <1>1, <1>2, <1>4 DEF TypeOK, Entries
<1>7. /\ \A x, y \in Handles : Owns(x) # Null /\ Owns(x) = Owns(y) => x = y
      /\ \A x \in Handles : Owns(x) # Null =>
           Alive(Owns(x)) /\ Owns(x) \notin raw /\ At("delete", Owns(x)) = {}
      /\ \A n \in raw : Alive(n) /\ At("delete", n) = {}
      /\ \A n \in Nodes : Alive(n) /\ n \notin raw /\ At("delete", n) = {} =>
           \E x \in Handles : Owns(x) = n
  BY <1>1 DEF UniqueOwner
<1>8. /\ Leaves(Targets(stores), Null)
      /\ \A n : At("delete", n)' # {} <=> At("delete", n) # {}
      /\ \A n : At("free", n)' = At("free", n)
      /\ \A x \in Handles : /\ (~Busy(x) => ptr'[x] = ptr[x]) => Owns(x)' = Owns(x)
                            /\ ~Busy(x) => Owns(x)' = ptr'[x]
  BY <1>1, <1>4, <1>6, QuietCallLeaves
<1>9. \A n : Alive(n)' <=> Alive(n)
  BY <1>2, <1>8 DEF Alive
<1>10. \A x \in Handles : Owns(x)' = IF x = h THEN Owns(g) ELSE IF x = g THEN Owns(h) ELSE Owns(x)
  BY <1>1, <1>2, <1>5, <1>8
<1>11. UniqueOwner'
  <2>1. \A x, y \in Handles : Owns(x)' # Null /\ Owns(x)' = Owns(y)' => x = y
    BY <1>7, <1>10
  <2>2. \A n \in Nodes : (\E x \in Handles : Owns(x)' = n) <=> (\E x \in Handles : Owns(x) = n)
    BY <1>10
  <2>3. \A n \in raw' : Alive(n)' /\ At("delete", n)' = {}
    BY <1>2, <1>7, <1>8, <1>9
  <2>4. \A n \in Nodes : Alive(n)' /\ n \notin raw' /\ At("delete", n)' = {} =>
          \E x \in Handles : Owns(x)' = n
    BY <1>2, <1>7, <1>8, <1>9, <2>2
  <2>5. \A x \in Handles : Owns(x)' # Null =>
          (Alive(Owns(x)) /\ Owns(x) \notin raw /\ At("delete", Owns(x)) = {})'
    <3> TAKE x \in Handles
    <3> HAVE Owns(x)' # Null
    <3>1. PICK y \in Handles : Owns(x)' = Owns(y) /\ Owns(y) # Null
      BY <1>10
    <3>2. PICK n \in Nodes : n = Owns(y) /\ n = Owns(x)'
      BY <1>5, <3>1
    <3>3. Alive(n)' /\ n \notin raw' /\ At("delete", n)' = {}
      BY <1>2, <1>7, <1>8, <1>9, <3>1, <3>2
    <3>4. QED
      BY <3>2, <3>3 DEF Alive, At
  <2>6. QED
    BY <2>1, <2>3, <2>4, <2>5 DEF UniqueOwner
<1>12. PICK Z \in SUBSET Nodes :
         Settled(Z) /\ \A x \in Handles : Owns(x)' = Owns(x) \/ Owns(x)' \in Z \cup {Null}
  <2>1. /\ Below(Owns(h)) \in SUBSET Nodes /\ Owns(h) \in Below(Owns(h)) \cup {Null}
        /\ \A x \in Below(Owns(h)) : x \in Handles /\ At("store", x) = {}
                                     /\ Owns(x) \in Below(Owns(h)) \cup {Null}
    BY <1>1, <1>5, BelowIs, QuietIs
  <2>2. /\ Below(Owns(g)) \in SUBSET Nodes /\ Owns(g) \in Below(Owns(g)) \cup {Null}
        /\ \A x \in Below(Owns(g)) : x \in Handles /\ At("store", x) = {}
                                     /\ Owns(x) \in Below(Owns(g)) \cup {Null}
    BY <1>1, <1>5, BelowIs, QuietIs
  <2> DEFINE Z == Below(Owns(h)) \cup Below(Owns(g))
  <2>3. Z \in SUBSET Nodes /\ Owns(h) \in Z \cup {Null} /\ Owns(g) \in Z \cup {Null}
        /\ \A x \in Z : x \in Handles /\ At("store", x) = {} /\ Owns(x) \in Z \cup {Null}
    BY <2>1, <2>2
  <2> HIDE DEF Z
  <2>4. Settled(Z) /\ \A x \in Handles : Owns(x)' = Owns(x) \/ Owns(x)' \in Z \cup {Null}
    BY <1>10, <2>3 DEF Settled
  <2>5. QED
    BY <2>3, <2>4
<1>13. \A m \in Nodes \ heap' : ptr'[m] = Null
  <2>1. \A m \in Nodes \ heap : ptr[m] = Null /\ m \in Handles /\ m # h /\ m # g
    BY <1>1, UsableIs, NestedOwnershipAssumption DEF StepsExist, Handles, Exists
  <2>2. QED
    BY <1>2, <2>1
<1>14. PICK X, Q \in SUBSET Nodes : X = {} /\ Q = {} /\ Leaves(X, Null) /\ Settled(Q)
  BY <1>4, <1>8 DEF Settled
<1>15. /\ \A x \in X : Exists(x) /\ ~Busy(x) /\ x \in Handles
       /\ Null \in Nodes \cup {Null} /\ Null \in Q \cup {Null} /\ Q \cap X = {}
       /\ Null # Null => Alive(Null) /\ At("delete", Null) = {}
       /\ heap \subseteq heap'
  BY <1>2, <1>14
<1>16. QED
  BY <1>4, <1>6, <1>11, <1>12, <1>13, <1>14, <1>15, UniqueCallKeeps

(***************************************************************************)
(* The innermost call goes on: the last step is replaced.                  *)
(***************************************************************************)
LEMMA ThenStack ==
  ASSUME TypeOK, NEW op, Goes(op), NEW rest \in Seq(Entries), Then(rest)
  PROVE  \E D \in Nat, n \in Handles :
           /\ D = Depth /\ D > 0 /\ n = This /\ kind' = kind /\ raw' = raw
           /\ Head(todo) = Step(D) /\ Step(D).op = op /\ Step(D).at = n
           /\ todo' \in Seq(Entries) /\ Depth' = (D - 1) + Len(rest) /\ Len(rest) \in Nat
           /\ Kept(D - 1)
           /\ \A k \in 1..Len(rest) : Step((D - 1) + k)' = rest[Len(rest) + 1 - k]
<1>1. todo # <<>> /\ Head(todo).op = op /\ kind' = kind /\ raw' = raw
      /\ todo' = rest \o Tail(todo) /\ todo \in Seq(Entries)
  BY DEF Goes, Then, TypeOK, Entries
<1>2. PICK D \in Nat : D = Depth /\ D > 0
  BY <1>1 DEF Depth
<1>3. PICK B \in Nat : B = D - 1
  BY <1>2
<1>4. B = IF todo = <<>> THEN 0 ELSE Depth - 1
  BY <1>1, <1>2, <1>3
<1>5. todo' = rest \o (IF todo = <<>> THEN <<>> ELSE Tail(todo))
  BY <1>1
<1>6. /\ B \in Nat /\ B <= Depth /\ Depth' = B + Len(rest)
      /\ todo' \in Seq(Entries)
      /\ \A d \in 1..B : Step(d)' = Step(d)
      /\ \A k \in 1..Len(rest) : Step(B + k)' = rest[Len(rest) + 1 - k]
      /\ \A d \in 1..Depth : d <= B \/ d = Depth
      /\ todo # <<>> => Depth \in 1..Depth /\ Head(todo) = Step(Depth)
  BY <1>1, <1>4, <1>5, Replaced
<1>7. Len(rest) \in Nat
  OBVIOUS
<1>8. Kept(B)
  BY <1>6, <1>7 DEF Kept
<1>9. Head(todo) = Step(D) /\ Step(D).op = op
  BY <1>1, <1>2, <1>6
<1>10. PICK n \in Handles : n = This /\ Step(D).at = n
  BY <1>2, <1>9, StepTypes DEF This
<1>11. QED
  BY <1>1, <1>2, <1>3, <1>6, <1>7, <1>8, <1>9, <1>10

\* The last step, D, is done, and at most one more has to be.
Inner(D) == D \in Nat /\ D = Depth /\ D > 0 /\ Kept(D - 1) /\ Depth' \in {D - 1, D}

LEMMA InnerKeeps ==
  ASSUME IInv, TypeOK', kind' = kind, NEW D, Inner(D),
         Depth' = D => /\ Step(D)'.op \in {"delete", "release"}
                       /\ Step(D)'.at \in heap' /\ Step(D)'.to = Null
                       /\ Step(D)'.op = "release" => Shared,
         Depth' = D /\ Step(D)'.op = "delete" =>
           /\ \A d \in 1..(D - 1) : Step(d).op \in {"delete", "free"} => Step(d).at # Step(D)'.at
           /\ ~Shared => \E S \in SUBSET Nodes : Step(D)'.at \in S \cup {Null} /\ WrittenBefore(S, D),
         \A d \in 1..(D - 1) : Step(d).at \in heap => Step(d).at \in heap',
         \A n \in Nodes \ heap' : ptr'[n] = Null,
         ~Shared => \A x \in Handles : Owns(x)' \in {Owns(x), Null}
  PROVE  StepsExist' /\ PartsInOrder' /\ EndsOnce' /\ StoresBeforeMembers' /\ StoresBeforeDeletion'
<1> D \in Nat /\ D = Depth /\ D > 0 /\ Kept(D - 1) /\ Depth' \in {D - 1, D}
  BY DEF Inner
<1>1. /\ TypeOK /\ StepsExist /\ PartsInOrder /\ EndsOnce /\ StoresBeforeMembers
      /\ StoresBeforeDeletion
  BY DEF IInv
<1>2. /\ \A d \in 1..(D - 1) : Step(d)' = Step(d) /\ d \in 1..D /\ d \in 1..Depth
      /\ \A d \in 1..Depth' : d \in 1..(D - 1) \/ (d = D /\ Depth' = D)
  BY DEF Kept
<1>3. Shared' <=> Shared
  BY DEF Shared
<1>4. StepsExist'
  <2>1. ASSUME NEW d \in 1..Depth'
        PROVE  (IF Step(d).op = "store" THEN ~Shared /\ Exists(Step(d).at)
                ELSE /\ Step(d).at \in heap /\ Step(d).to = Null
                     /\ Step(d).op = "release" => Shared)'
    <3>1. CASE d \in 1..(D - 1)
      BY <1>1, <1>2, <1>3, <3>1 DEF StepsExist, Exists
    <3>2. CASE d = D /\ Depth' = D
      BY <1>3, <3>2
    <3>3. QED
      BY <1>2, <3>1, <3>2
  <2>2. QED
    BY <2>1 DEF StepsExist
<1>5. PartsInOrder'
  <2>1. ASSUME NEW d \in 1..Depth', Step(d)'.op \in {"body", "members"}
        PROVE  d \in 1..(D - 1) /\ Step(d)' = Step(d) /\ d \in 1..Depth
    BY <1>2, <2>1
  <2>2. ASSUME NEW d \in 1..Depth', Step(d)'.op = "body"
        PROVE  d > 2 /\ Step(d - 1)' = Members(Step(d)'.at)
    <3>1. d \in 1..(D - 1) /\ Step(d)' = Step(d) /\ d \in 1..Depth
      BY <2>1, <2>2
    <3>2. d > 2 /\ Step(d - 1) = Members(Step(d).at)
      BY <1>1, <2>2, <3>1 DEF PartsInOrder
    <3>3. d - 1 \in 1..(D - 1)
      BY <3>1, <3>2
    <3>4. QED
      BY <1>2, <3>1, <3>2, <3>3
  <2>3. ASSUME NEW d \in 1..Depth', Step(d)'.op = "members"
        PROVE  d > 1 /\ Step(d - 1)' = Free(Step(d)'.at)
    <3>1. d \in 1..(D - 1) /\ Step(d)' = Step(d) /\ d \in 1..Depth
      BY <2>1, <2>3
    <3>2. d > 1 /\ Step(d - 1) = Free(Step(d).at)
      BY <1>1, <2>3, <3>1 DEF PartsInOrder
    <3>3. d - 1 \in 1..(D - 1)
      BY <3>1, <3>2
    <3>4. QED
      BY <1>2, <3>1, <3>2, <3>3
  <2>4. QED
    BY <2>2, <2>3 DEF PartsInOrder
<1>6. EndsOnce'
  BY <1>1, <1>2 DEF EndsOnce
<1>7. StoresBeforeMembers'
  <2>1. ASSUME NEW d \in 1..Depth', NEW e \in 1..Depth', Step(d)'.op = "store",
               Step(e)'.op = "free", Step(e)'.at = Step(d)'.at
        PROVE  d > e + 1 /\ Step(e + 1)'.op = "members"
    <3>1. d \in 1..(D - 1) /\ e \in 1..(D - 1)
      BY <1>2, <2>1
    <3>2. d > e + 1 /\ Step(e + 1).op = "members"
      BY <1>1, <1>2, <2>1, <3>1 DEF StoresBeforeMembers
    <3>3. e + 1 \in 1..(D - 1)
      BY <3>1, <3>2
    <3>4. QED
      BY <1>2, <3>2, <3>3
  <2>2. QED
    BY <2>1 DEF StoresBeforeMembers
<1>8. StoresBeforeDeletion'
  <2>1. CASE Shared
    BY <1>3, <2>1 DEF StoresBeforeDeletion
  <2>2. CASE ~Shared
    <3>1. ASSUME NEW x, NEW e \in At("store", x)'
          PROVE  e \in At("store", x)
      <4>1. e \in 1..Depth' /\ Step(e)'.op = "store" /\ Step(e)'.at = x
        BY DEF At
      <4>2. e \in 1..(D - 1)
        BY <1>2, <4>1
      <4>3. QED
        BY <1>2, <4>1, <4>2 DEF At
    <3>2. ASSUME NEW S \in SUBSET Nodes, NEW d, WrittenBefore(S, d)
          PROVE  WrittenBefore(S, d)'
      <4>1. \A x \in S : x \in Handles
        BY DEF Handles
      <4>2. QED
        BY <2>2, <3>1, <3>2, <4>1 DEF WrittenBefore
    <3>3. ASSUME NEW d \in 1..Depth', Step(d)'.op \in {"delete", "members"}
          PROVE  \E S \in SUBSET Nodes : Reached(d)' \in S \cup {Null} /\ WrittenBefore(S, d)'
      <4>1. CASE d \in 1..(D - 1)
        <5>1. Step(d)' = Step(d) /\ d \in 1..Depth /\ Step(d).at \in Handles
          BY <1>1, <1>2, <4>1, StepTypes
        <5>2. PICK S \in SUBSET Nodes : Reached(d) \in S \cup {Null} /\ WrittenBefore(S, d)
          BY <1>1, <2>2, <3>3, <5>1 DEF StoresBeforeDeletion
        <5>3. Reached(d)' \in S \cup {Null}
          <6>1. PICK x \in Handles : x = Step(d).at /\ x = Step(d)'.at
            BY <5>1
          <6>2. CASE Step(d).op = "delete"
            BY <5>1, <5>2, <6>2 DEF Reached
          <6>3. CASE Step(d).op # "delete"
            <7>1. Reached(d) = Owns(x) /\ Reached(d)' = Owns(x)'
              BY <5>1, <6>1, <6>3 DEF Reached
            <7>2. QED
              BY <2>2, <5>2, <7>1
          <6>4. QED
            BY <6>2, <6>3
        <5>4. QED
          BY <3>2, <5>2, <5>3
      <4>2. CASE d = D /\ Depth' = D
        <5>1. Step(D)'.op = "delete"
          BY <3>3, <4>2
        <5>2. PICK S \in SUBSET Nodes : Step(D)'.at \in S \cup {Null} /\ WrittenBefore(S, D)
          BY <2>2, <4>2, <5>1
        <5>3. Reached(D)' = Step(D)'.at
          BY <5>1 DEF Reached
        <5>4. QED
          BY <3>2, <4>2, <5>2, <5>3
      <4>3. QED
        BY <1>2, <4>1, <4>2
    <3>4. QED
      BY <3>3 DEF StoresBeforeDeletion
  <2>3. QED
    BY <2>1, <2>2
<1>9. QED
  BY <1>4, <1>5, <1>6, <1>7, <1>8

\* Nothing changes hands.
Whole(n) == Alive(n) /\ At("delete", n) = {}

LEMMA OwnersSame ==
  ASSUME IInv, kind' = kind, raw' = raw, \A x \in Handles : Owns(x)' = Owns(x),
         \A n \in Nodes : Whole(n)' <=> Whole(n),
         Shared => \A n \in Nodes : refs'[n] = refs[n] /\ At("release", n)' = At("release", n)
  PROVE  UniqueOwner' /\ CountedOwners'
<1>1. TypeOK /\ UniqueOwner /\ CountedOwners /\ raw \subseteq Nodes
      /\ \A x \in Handles : Owns(x) \in Nodes \cup {Null}
  BY OwnsIs DEF IInv, TypeOK
<1>2. Shared' <=> Shared
  BY DEF Shared
<1>3. UniqueOwner'
  <2>1. CASE Shared
    BY <1>2, <2>1 DEF UniqueOwner
  <2>2. CASE ~Shared
    <3>1. /\ \A h, g \in Handles : Owns(h) # Null /\ Owns(h) = Owns(g) => h = g
          /\ \A h \in Handles : Owns(h) # Null => Whole(Owns(h)) /\ Owns(h) \notin raw
          /\ \A n \in raw : Whole(n)
          /\ \A n \in Nodes : Whole(n) /\ n \notin raw => \E h \in Handles : Owns(h) = n
      BY <1>1, <2>2 DEF UniqueOwner, Whole
    <3>2. \A h \in Handles : Owns(h)' # Null => (Whole(Owns(h)) /\ Owns(h) \notin raw)'
      <4> TAKE h \in Handles
      <4> HAVE Owns(h)' # Null
      <4>1. PICK n \in Nodes : n = Owns(h) /\ n = Owns(h)'
        BY <1>1
      <4>2. Whole(n)' /\ n \notin raw'
        BY <3>1, <4>1
      <4>3. QED
        BY <4>1, <4>2 DEF Whole, Alive, At
    <3>3. \A h, g \in Handles : Owns(h)' # Null /\ Owns(h)' = Owns(g)' => h = g
      BY <3>1
    <3>4. \A n \in raw' : Whole(n)'
      BY <1>1, <3>1
    <3>5. \A n \in Nodes : Whole(n)' /\ n \notin raw' => \E h \in Handles : Owns(h)' = n
      BY <3>1
    <3>6. QED
      BY <3>2, <3>3, <3>4, <3>5 DEF UniqueOwner, Whole
  <2>3. QED
    BY <2>1, <2>2
<1>4. CountedOwners'
  <2>1. CASE ~Shared
    BY <1>2, <2>1 DEF CountedOwners
  <2>2. CASE Shared
    <3>1. \A n : Sharing(n)' = Sharing(n)
      BY DEF Sharing
    <3>2. raw' = {}
      BY <1>1, <2>2 DEF CountedOwners
    <3>3. ASSUME NEW n \in Nodes
          PROVE  IF Whole(n)'
                 THEN /\ refs'[n] = Cardinality(Sharing(n)') + Cardinality(At("release", n)')
                      /\ refs'[n] > 0
                 ELSE Sharing(n)' = {} /\ At("release", n)' = {}
      <4>1. IF Whole(n)
            THEN /\ refs[n] = Cardinality(Sharing(n)) + Cardinality(At("release", n))
                 /\ refs[n] > 0
            ELSE Sharing(n) = {} /\ At("release", n) = {}
        BY <1>1, <2>2 DEF CountedOwners, Whole
      <4>2. QED
        BY <2>2, <3>1, <4>1
    <3>4. QED
      BY <3>2, <3>3 DEF CountedOwners, Whole
  <2>3. QED
    BY <2>1, <2>2
<1>5. QED
  BY <1>3, <1>4

LEMMA InnerAt ==
  ASSUME TypeOK, TypeOK', NEW D, Inner(D), NEW op, NEW x,
         Depth' = D => ~(Step(D)'.op = op /\ Step(D)'.at = x)
  PROVE  /\ ~(Step(D).op = op /\ Step(D).at = x) => At(op, x)' = At(op, x)
         /\ (\A d \in 1..(D - 1) : ~(Step(d).op = op /\ Step(d).at = x)) => At(op, x)' = {}
<1>1. D \in Nat /\ D = Depth /\ D > 0 /\ Kept(D - 1) /\ Depth' \in {D - 1, D}
  BY DEF Inner
<1>2. PICK B \in Nat : B = D - 1
  BY <1>1
<1>3. \A d \in (B + 1)..Depth' : ~(Step(d)'.op = op /\ Step(d)'.at = x)
  <2>1. \A d \in (B + 1)..Depth' : d = D /\ Depth' = D
    BY <1>1, <1>2
  <2>2. QED
    BY <2>1
<1>4. ASSUME ~(Step(D).op = op /\ Step(D).at = x)
      PROVE  At(op, x)' = At(op, x)
  <2>1. Kept(B) /\ (B < Depth => ~(Step(Depth).op = op /\ Step(Depth).at = x))
    BY <1>1, <1>2, <1>4
  <2>2. QED
    BY <1>3, <2>1, AtKept
<1>5. ASSUME \A d \in 1..(D - 1) : ~(Step(d).op = op /\ Step(d).at = x)
      PROVE  At(op, x)' = {}
  <2>1. ASSUME NEW d \in At(op, x)' PROVE FALSE
    <3>1. d \in 1..Depth' /\ Step(d)'.op = op /\ Step(d)'.at = x
      BY <2>1 DEF At
    <3>2. d \in 1..B \/ d \in (B + 1)..Depth'
      BY <1>1, <1>2, <3>1
    <3>3. d \in 1..B
      BY <1>3, <3>1, <3>2
    <3>4. Step(d)' = Step(d) /\ d \in 1..(D - 1)
      BY <1>1, <1>2, <3>3 DEF Kept
    <3>5. QED
      BY <1>5, <3>1, <3>4
  <2>2. QED
    BY <2>1
<1>6. QED
  BY <1>4, <1>5

LEMMA InnerOwns ==
  ASSUME TypeOK, TypeOK', NEW D, Inner(D), Step(D).op # "store",
         Depth' = D => Step(D)'.op # "store",
         NEW x \in Handles, At("free", x)' = At("free", x), At("members", x)' = At("members", x),
         ~Busy(x) => ptr'[x] = ptr[x]
  PROVE  Owns(x)' = Owns(x)
<1>1. D \in Nat /\ D = Depth /\ D > 0 /\ Kept(D - 1)
  BY DEF Inner
<1>2. At("store", x)' = At("store", x)
  BY InnerAt
<1>3. Busy(x)' <=> Busy(x)
  BY <1>2, OwnsIs, OwnsIsNext
<1>4. At("store", x) \subseteq 1..(D - 1)
  <2>1. \A d \in At("store", x) : d \in 1..Depth /\ Step(d).op = "store"
    BY DEF At
  <2>2. \A d \in At("store", x) : d # D
    BY <2>1
  <2>3. QED
    BY <1>1, <2>1, <2>2
<1>5. PICK B : B = D - 1 /\ Kept(B) /\ At("store", x) \subseteq 1..B
  BY <1>1, <1>4
<1>6. QED
  BY <1>2, <1>3, <1>5, OwnsKept

\* An object that is being destroyed, or about to be, and the other steps.
LEMMA DestructionIs ==
  ASSUME IInv, NEW D \in 1..Depth, NEW n, Step(D).at = n
  PROVE  /\ Step(D).op \in {"delete", "free"} =>
              \A d \in 1..Depth : Step(d).op \in {"delete", "free"} /\ Step(d).at = n => d = D
         /\ D = Depth /\ Step(D).op \in {"delete", "free"} =>
              \A d \in 1..Depth : Step(d).at = n => Step(d).op \notin {"body", "members"}
         /\ D = Depth /\ Step(D).op = "free" => At("store", n) = {}
         /\ Step(D).op = "members" => D - 1 \in 1..Depth /\ Step(D - 1) = Free(n)
         /\ Step(D).op = "members" =>
              \A d \in 1..Depth : Step(d).op = "members" /\ Step(d).at = n => d = D
         /\ Step(D).op = "members" => At("delete", n) = {}
         /\ D = Depth /\ Step(D).op = "members" => At("store", n) = {}
<1>1. /\ TypeOK /\ PartsInOrder /\ EndsOnce /\ StoresBeforeMembers /\ Depth \in Nat
  BY StepTypes DEF IInv
<1>2. \A x : /\ Free(x).op = "free" /\ Free(x).at = x
             /\ Members(x).op = "members" /\ Members(x).at = x
  BY DEF Free, Members
<1>3. ASSUME NEW d \in 1..Depth, Step(d).op = "members"
      PROVE  d - 1 \in 1..Depth /\ Step(d - 1) = Free(Step(d).at)
             /\ Step(d - 1).op = "free" /\ Step(d - 1).at = Step(d).at
  <2>1. d > 1 /\ Step(d - 1) = Free(Step(d).at)
    BY <1>1, <1>3 DEF PartsInOrder
  <2>2. d - 1 \in 1..Depth
    BY <1>1, <2>1
  <2>3. QED
    BY <1>2, <2>1, <2>2
<1>4. ASSUME NEW d \in 1..Depth, Step(d).op = "body"
      PROVE  \E e \in 1..Depth : e = d - 1 /\ Step(e).op = "members" /\ Step(e).at = Step(d).at
  <2>1. d > 2 /\ Step(d - 1) = Members(Step(d).at)
    BY <1>1, <1>4 DEF PartsInOrder
  <2>2. d - 1 \in 1..Depth
    BY <1>1, <2>1
  <2>3. QED
    BY <1>2, <2>1, <2>2
<1>5. Step(D).op \in {"delete", "free"} =>
        \A d \in 1..Depth : Step(d).op \in {"delete", "free"} /\ Step(d).at = n => d = D
  BY <1>1 DEF EndsOnce
<1>6. ASSUME D = Depth, Step(D).op \in {"delete", "free"}
      PROVE  \A d \in 1..Depth : Step(d).at = n => Step(d).op \notin {"body", "members"}
  <2>1. ASSUME NEW d \in 1..Depth, Step(d).at = n, Step(d).op = "members" PROVE FALSE
    <3>1. d - 1 \in 1..Depth /\ Step(d - 1).op = "free" /\ Step(d - 1).at = n
      BY <1>3, <2>1
    <3>2. d - 1 = D
      BY <1>5, <1>6, <3>1
    <3>3. QED
      BY <1>1, <1>6, <3>2
  <2>2. ASSUME NEW d \in 1..Depth, Step(d).at = n, Step(d).op = "body" PROVE FALSE
    BY <1>4, <2>1, <2>2
  <2>3. QED
    BY <2>1, <2>2
<1>7. ASSUME D = Depth, Step(D).op = "free", NEW d \in At("store", n)
      PROVE  FALSE
  <2>1. d \in 1..Depth /\ Step(d).op = "store" /\ Step(d).at = n
    BY <1>7 DEF At
  <2>2. d > D + 1
    BY <1>1, <1>7, <2>1 DEF StoresBeforeMembers
  <2>3. QED
    BY <1>1, <1>7, <2>1, <2>2
<1>8. Step(D).op = "members" => D - 1 \in 1..Depth /\ Step(D - 1) = Free(n)
                                /\ Step(D - 1).op = "free" /\ Step(D - 1).at = n
  BY <1>3
<1>9. ASSUME Step(D).op = "members", NEW d \in 1..Depth, Step(d).op = "members", Step(d).at = n
      PROVE  d = D
  <2>1. d - 1 \in 1..Depth /\ Step(d - 1).op = "free" /\ Step(d - 1).at = n
    BY <1>3, <1>9
  <2>2. d - 1 = D - 1
    BY <1>1, <1>8, <1>9, <2>1 DEF EndsOnce
  <2>3. QED
    BY <1>1, <2>2
<1>10. ASSUME Step(D).op = "members", NEW d \in At("delete", n)
       PROVE  FALSE
  <2>1. d \in 1..Depth /\ Step(d).op = "delete" /\ Step(d).at = n
    BY <1>10 DEF At
  <2>2. d = D - 1
    BY <1>1, <1>8, <1>10, <2>1 DEF EndsOnce
  <2>3. QED
    BY <1>8, <1>10, <2>1, <2>2
<1>11. ASSUME D = Depth, Step(D).op = "members", NEW d \in At("store", n)
       PROVE  FALSE
  <2>1. d \in 1..Depth /\ Step(d).op = "store" /\ Step(d).at = n
    BY <1>11 DEF At
  <2>2. d > (D - 1) + 1
    BY <1>1, <1>8, <1>11, <2>1 DEF StoresBeforeMembers
  <2>3. QED
    BY <1>1, <1>11, <2>1, <2>2
<1>12. QED
  BY <1>5, <1>6, <1>7, <1>8, <1>9, <1>10, <1>11

LEMMA EndBodyKeeps ==
  ASSUME IInv, EndBody
  PROVE  IInv'
<1>1. TypeOK /\ Goes("body") /\ Then(<<>>) /\ ptr' = ptr /\ refs' = refs /\ heap' = heap
      /\ Null \notin Nodes
  BY NestedOwnershipAssumption DEF IInv, EndBody
<1>2. PICK rest \in Seq(Entries) : Len(rest) = 0 /\ Then(rest)
  <2>1. <<>> \in Seq(Entries) /\ Len(<<>>) = 0
    OBVIOUS
  <2>2. QED
    BY <1>1, <2>1, Zenon
<1>3. PICK D \in Nat, n \in Handles :
           /\ D = Depth /\ D > 0 /\ n = This /\ kind' = kind /\ raw' = raw
           /\ Head(todo) = Step(D) /\ Step(D).op = "body" /\ Step(D).at = n
           /\ todo' \in Seq(Entries) /\ Depth' = (D - 1) + Len(rest) /\ Len(rest) \in Nat
           /\ Kept(D - 1)
  BY <1>1, <1>2, ThenStack
<1>4. Inner(D) /\ ~(Depth' = D)
  BY <1>2, <1>3 DEF Inner
<1>5. TypeOK'
  BY <1>1, <1>3 DEF TypeOK, Entries
<1>6. \A op, x : op # "body" => At(op, x)' = At(op, x)
  BY <1>1, <1>3, <1>4, <1>5, InnerAt
<1>7. \A x \in Handles : Owns(x)' = Owns(x)
  BY <1>1, <1>3, <1>4, <1>5, <1>6, InnerOwns
<1>8. \A n1 \in Nodes : Whole(n1)' <=> Whole(n1)
  BY <1>1, <1>6 DEF Whole, Alive
<1>9. UniqueOwner' /\ CountedOwners'
  BY <1>1, <1>3, <1>6, <1>7, <1>8, OwnersSame
<1>10. \A n1 \in Nodes \ heap' : ptr'[n1] = Null
  BY <1>1 DEF IInv, StepsExist
<1>11. StepsExist' /\ PartsInOrder' /\ EndsOnce' /\ StoresBeforeMembers' /\ StoresBeforeDeletion'
  BY <1>1, <1>3, <1>4, <1>5, <1>7, <1>10, InnerKeeps
<1>12. QED
  BY <1>5, <1>9, <1>11 DEF IInv

LEMMA DeleteObjectKeeps ==
  ASSUME IInv, DeleteObject
  PROVE  IInv'
<1>1. /\ TypeOK /\ StepsExist /\ PartsInOrder /\ EndsOnce /\ StoresBeforeMembers
      /\ StoresBeforeDeletion /\ Goes("delete") /\ Then(<<Body(This), Members(This), Free(This)>>)
      /\ ptr' = ptr /\ refs' = refs /\ heap' = heap /\ Null \notin Nodes
  BY NestedOwnershipAssumption DEF IInv, DeleteObject
<1>2. PICK n \in Handles : n = This /\ Then(<<Body(n), Members(n), Free(n)>>)
  <2>1. Depth \in Nat /\ Depth > 0 /\ Head(todo) = Step(Depth)
    <3>1. todo \in Seq(Entries) /\ todo # <<>>
      BY <1>1 DEF TypeOK, Entries, Goes
    <3>2. Depth + 1 - Depth = 1 /\ Depth \in Nat /\ Depth > 0
      BY <3>1 DEF Depth
    <3>3. QED
      BY <3>1, <3>2 DEF Step
  <2>2. This \in Handles
    BY <1>1, <2>1, StepTypes DEF This
  <2>3. QED
    BY <1>1, <2>2
<1>3. PICK rest \in Seq(Entries) : /\ Len(rest) = 3 /\ Then(rest) /\ rest[1] = Body(n)
                                   /\ rest[2] = Members(n) /\ rest[3] = Free(n)
  <2>1. Body(n) \in Entries /\ Members(n) \in Entries /\ Free(n) \in Entries
    BY DEF Body, Members, Free, Entries, Ops
  <2>2. PICK rest : rest = <<Body(n), Members(n), Free(n)>>
    OBVIOUS
  <2>3. rest \in Seq(Entries) /\ Len(rest) = 3 /\ rest[1] = Body(n)
        /\ rest[2] = Members(n) /\ rest[3] = Free(n)
    BY <2>1, <2>2
  <2>4. Then(rest)
    BY <1>2, <2>2
  <2>5. QED
    BY <2>3, <2>4
<1>4. PICK D \in Nat, m \in Handles :
           /\ D = Depth /\ D > 0 /\ m = This /\ kind' = kind /\ raw' = raw
           /\ Head(todo) = Step(D) /\ Step(D).op = "delete" /\ Step(D).at = m
           /\ todo' \in Seq(Entries) /\ Depth' = (D - 1) + Len(rest) /\ Len(rest) \in Nat
           /\ Kept(D - 1)
           /\ \A k \in 1..Len(rest) : Step((D - 1) + k)' = rest[Len(rest) + 1 - k]
  <2>1. TypeOK /\ Goes("delete") /\ Then(rest)
    BY <1>1, <1>3
  <2>2. QED
    BY <2>1, ThenStack
<1>5. m = n
  BY <1>2, <1>4
<1>6. PICK B \in Nat : B = D - 1 /\ Kept(B) /\ D = B + 1
  BY <1>4
<1>7. /\ Depth' = B + 3
      /\ Step(B + 1)' = Free(n) /\ Step(B + 2)' = Members(n) /\ Step(B + 3)' = Body(n)
  <2>1. Depth' = B + 3 /\ 1 \in 1..Len(rest) /\ 2 \in 1..Len(rest) /\ 3 \in 1..Len(rest)
        /\ Len(rest) + 1 - 1 = 3 /\ Len(rest) + 1 - 2 = 2 /\ Len(rest) + 1 - 3 = 1
    BY <1>3, <1>4, <1>6
  <2>2. QED
    BY <1>3, <1>4, <1>6, <2>1
<1>8. \A x : /\ Free(x).op = "free" /\ Free(x).at = x /\ Free(x).to = Null
             /\ Members(x).op = "members" /\ Members(x).at = x /\ Members(x).to = Null
             /\ Body(x).op = "body" /\ Body(x).at = x /\ Body(x).to = Null
  BY DEF Free, Members, Body
<1>9. /\ \A d \in 1..B : Step(d)' = Step(d) /\ d \in 1..Depth /\ d < D
      /\ \A d \in 1..Depth' : d \in 1..B \/ d = B + 1 \/ d = B + 2 \/ d = B + 3
      /\ B + 1 \in 1..Depth' /\ B + 2 \in 1..Depth' /\ B + 3 \in 1..Depth'
      /\ D \in 1..Depth /\ n \in heap
  <2>1. D \in 1..Depth /\ n \in heap
    BY <1>1, <1>4, <1>5 DEF StepsExist
  <2>2. QED
    BY <1>4, <1>6, <1>7, <2>1 DEF Kept
<1>10. TypeOK'
  BY <1>1, <1>4 DEF TypeOK, Entries
<1>11. /\ \A d \in 1..Depth : Step(d).op \in {"delete", "free"} /\ Step(d).at = n => d = D
       /\ \A d \in 1..Depth : Step(d).at = n => Step(d).op \notin {"body", "members"}
  BY <1>4, <1>5, <1>9, DestructionIs
<1>12. ASSUME NEW op, NEW x, x # n \/ op \in {"store", "release"}
       PROVE  At(op, x)' = At(op, x)
  <2>1. ~(Step(Depth).op = op /\ Step(Depth).at = x)
    BY <1>4, <1>5, <1>12
  <2>2. \A d \in (B + 1)..Depth' : ~(Step(d)'.op = op /\ Step(d)'.at = x)
    <3>1. \A d \in (B + 1)..Depth' : d = B + 1 \/ d = B + 2 \/ d = B + 3
      BY <1>7
    <3>2. QED
      BY <1>7, <1>8, <1>12, <3>1
  <2>3. QED
    BY <1>1, <1>6, <1>10, <2>1, <2>2, AtKept
<1>13. At("free", n) = {} /\ At("delete", n) # {}
  BY <1>4, <1>5, <1>9, <1>11 DEF At
<1>14. At("free", n)' # {} /\ At("members", n)' # {}
  <2>1. B + 1 \in At("free", n)' /\ B + 2 \in At("members", n)'
    BY <1>7, <1>8, <1>9 DEF At
  <2>2. QED
    BY <2>1
<1>15. \A x \in Handles : Owns(x)' = Owns(x)
  <2> TAKE x \in Handles
  <2>1. At("store", x)' = At("store", x) /\ ptr'[x] = ptr[x]
    BY <1>1, <1>12
  <2>2. Busy(x)' <=> Busy(x)
    <3>1. CASE x = n
      BY <1>1, <1>10, <1>13, <1>14, <2>1, <3>1, OwnsIs, OwnsIsNext
    <3>2. CASE x # n
      <4>1. At("free", x)' = At("free", x) /\ At("members", x)' = At("members", x)
        BY <1>12, <3>2
      <4>2. QED
        BY <1>1, <1>10, <2>1, <4>1, OwnsIs, OwnsIsNext
    <3>3. QED
      BY <3>1, <3>2
  <2>3. At("store", x) \subseteq 1..B
    <3>1. \A d \in At("store", x) : d \in 1..Depth /\ Step(d).op = "store"
      BY DEF At
    <3>2. \A d \in At("store", x) : d # D
      BY <1>4, <3>1
    <3>3. QED
      BY <1>4, <1>6, <3>1, <3>2
  <2>4. QED
    BY <1>1, <1>6, <1>10, <2>1, <2>2, <2>3, OwnsKept
<1>16. \A x \in Nodes : Whole(x)' <=> Whole(x)
  <2> TAKE x \in Nodes
  <2>1. CASE x = n
    BY <1>13, <1>14, <2>1 DEF Whole, Alive
  <2>2. CASE x # n
    <3>1. At("free", x)' = At("free", x) /\ At("delete", x)' = At("delete", x)
      BY <1>12, <2>2
    <3>2. QED
      BY <1>1, <3>1 DEF Whole, Alive
  <2>3. QED
    BY <2>1, <2>2
<1>17. UniqueOwner' /\ CountedOwners'
  BY <1>1, <1>4, <1>12, <1>15, <1>16, OwnersSame
<1>18. Shared' <=> Shared
  BY <1>4 DEF Shared
<1>19. StepsExist'
  <2>1. ASSUME NEW d \in 1..Depth'
        PROVE  (IF Step(d).op = "store" THEN ~Shared /\ Exists(Step(d).at)
                ELSE /\ Step(d).at \in heap /\ Step(d).to = Null
                     /\ Step(d).op = "release" => Shared)'
    <3>1. CASE d \in 1..B
      BY <1>1, <1>9, <1>18, <3>1 DEF StepsExist, Exists
    <3>2. CASE d \notin 1..B
      BY <1>1, <1>7, <1>8, <1>9, <3>2
    <3>3. QED
      BY <3>1, <3>2
  <2>2. \A x \in Nodes \ heap' : ptr'[x] = Null
    BY <1>1 DEF StepsExist
  <2>3. QED
    BY <2>1, <2>2 DEF StepsExist
<1>20. PartsInOrder'
  <2>1. ASSUME NEW d \in 1..Depth', Step(d)'.op = "body"
        PROVE  d > 2 /\ Step(d - 1)' = Members(Step(d)'.at)
    <3>1. CASE d \in 1..B
      <4>1. d > 2 /\ Step(d - 1) = Members(Step(d).at)
        BY <1>1, <1>9, <2>1, <3>1 DEF PartsInOrder
      <4>2. d - 1 \in 1..B
        BY <3>1, <4>1
      <4>3. QED
        BY <1>9, <3>1, <4>1, <4>2
    <3>2. CASE d \notin 1..B
      <4>1. d = B + 3
        BY <1>7, <1>8, <1>9, <2>1, <3>2
      <4>2. d > 2 /\ d - 1 = B + 2
        BY <4>1
      <4>3. QED
        BY <1>7, <1>8, <4>1, <4>2
    <3>3. QED
      BY <3>1, <3>2
  <2>2. ASSUME NEW d \in 1..Depth', Step(d)'.op = "members"
        PROVE  d > 1 /\ Step(d - 1)' = Free(Step(d)'.at)
    <3>1. CASE d \in 1..B
      <4>1. d > 1 /\ Step(d - 1) = Free(Step(d).at)
        BY <1>1, <1>9, <2>2, <3>1 DEF PartsInOrder
      <4>2. d - 1 \in 1..B
        BY <3>1, <4>1
      <4>3. QED
        BY <1>9, <3>1, <4>1, <4>2
    <3>2. CASE d \notin 1..B
      <4>1. d = B + 2
        BY <1>7, <1>8, <1>9, <2>2, <3>2
      <4>2. d > 1 /\ d - 1 = B + 1
        BY <4>1
      <4>3. QED
        BY <1>7, <1>8, <4>1, <4>2
    <3>3. QED
      BY <3>1, <3>2
  <2>3. QED
    BY <2>1, <2>2 DEF PartsInOrder
<1>21. EndsOnce'
  <2>1. ASSUME NEW d \in 1..Depth', Step(d)'.op \in {"delete", "free"}
        PROVE  \/ d \in 1..B /\ Step(d)' = Step(d) /\ Step(d).at # n
               \/ d = B + 1 /\ Step(d)'.at = n
    <3>1. CASE d \in 1..B
      BY <1>9, <1>11, <2>1, <3>1
    <3>2. CASE d \notin 1..B
      BY <1>7, <1>8, <1>9, <2>1, <3>2
    <3>3. QED
      BY <3>1, <3>2
  <2>2. QED
    BY <1>1, <1>9, <2>1 DEF EndsOnce
\* What n reaches is written before the deletion began.
<1>22. ~Shared => \E S \in SUBSET Nodes : /\ n \in S \cup {Null} /\ WrittenBefore(S, D)
                                          /\ \A x \in S : At("store", x) = {}
  <2>1. ASSUME ~Shared
        PROVE  \E S \in SUBSET Nodes : n \in S \cup {Null} /\ WrittenBefore(S, D)
    BY <1>1, <1>4, <1>5, <1>9, <2>1 DEF StoresBeforeDeletion, Reached
  <2>2. ASSUME NEW S, WrittenBefore(S, D), NEW x \in S
        PROVE  At("store", x) = {}
    <3>1. \A e \in At("store", x) : e > D /\ e \in 1..Depth
      BY <2>2 DEF WrittenBefore, At
    <3>2. QED
      BY <1>4, <3>1
  <2>3. QED
    BY <2>1, <2>2
<1>23. n \in Nodes /\ n # Null
  BY <1>1, <1>9 DEF TypeOK
<1>24. At("store", n) = {}
  <2>1. CASE Shared
    BY <1>1, <2>1 DEF StepsExist, At
  <2>2. CASE ~Shared
    BY <1>22, <1>23, <2>2
  <2>3. QED
    BY <2>1, <2>2
<1>25. StoresBeforeMembers'
  <2>1. ASSUME NEW d \in 1..Depth', NEW e \in 1..Depth', Step(d)'.op = "store",
               Step(e)'.op = "free", Step(e)'.at = Step(d)'.at
        PROVE  d > e + 1 /\ Step(e + 1)'.op = "members"
    <3>1. d \in 1..B /\ Step(d)' = Step(d)
      BY <1>7, <1>8, <1>9, <2>1
    <3>2. Step(d).at # n
      BY <1>9, <1>24, <2>1, <3>1 DEF At
    <3>3. e \in 1..B /\ Step(e)' = Step(e)
      BY <1>7, <1>8, <1>9, <2>1, <3>1, <3>2
    <3>4. d > e + 1 /\ Step(e + 1).op = "members"
      BY <1>1, <1>9, <2>1, <3>1, <3>3 DEF StoresBeforeMembers
    <3>5. e + 1 \in 1..B
      BY <3>1, <3>3, <3>4
    <3>6. QED
      BY <1>9, <3>4, <3>5
  <2>2. QED
    BY <2>1 DEF StoresBeforeMembers
<1>26. StoresBeforeDeletion'
  <2>1. CASE Shared
    BY <1>18, <2>1 DEF StoresBeforeDeletion
  <2>2. CASE ~Shared
    <3>1. ASSUME NEW S \in SUBSET Nodes, NEW d, WrittenBefore(S, d)
          PROVE  WrittenBefore(S, d)'
      <4>1. \A x \in S : x \in Handles /\ At("store", x)' = At("store", x)
        BY <1>12 DEF Handles
      <4>2. QED
        BY <1>15, <3>1, <4>1 DEF WrittenBefore
    <3>2. ASSUME NEW d \in 1..Depth', Step(d)'.op \in {"delete", "members"}
          PROVE  \E S \in SUBSET Nodes : Reached(d)' \in S \cup {Null} /\ WrittenBefore(S, d)'
      <4>1. CASE d \in 1..B
        <5>1. Step(d)' = Step(d) /\ d \in 1..Depth /\ Step(d).at \in Handles
          BY <1>1, <1>9, <4>1, StepTypes
        <5>2. PICK S \in SUBSET Nodes : Reached(d) \in S \cup {Null} /\ WrittenBefore(S, d)
          BY <1>1, <2>2, <3>2, <5>1 DEF StoresBeforeDeletion
        <5>3. Reached(d)' \in S \cup {Null}
          <6>1. PICK x \in Handles : x = Step(d).at /\ x = Step(d)'.at
            BY <5>1
          <6>2. CASE Step(d).op = "delete"
            BY <5>1, <5>2, <6>2 DEF Reached
          <6>3. CASE Step(d).op # "delete"
            <7>1. Reached(d) = Owns(x) /\ Reached(d)' = Owns(x)'
              BY <5>1, <6>1, <6>3 DEF Reached
            <7>2. QED
              BY <1>15, <5>2, <7>1
          <6>4. QED
            BY <6>2, <6>3
        <5>4. QED
          BY <3>1, <5>2, <5>3
      <4>2. CASE d \notin 1..B
        <5>1. d = B + 2 /\ Step(d)'.op = "members" /\ Step(d)'.at = n
          BY <1>7, <1>8, <1>9, <3>2, <4>2
        <5>2. PICK S \in SUBSET Nodes : /\ n \in S \cup {Null} /\ WrittenBefore(S, D)
                                        /\ \A x \in S : At("store", x) = {}
          BY <1>22, <2>2
        <5>3. Reached(d)' = Owns(n)'
          BY <5>1 DEF Reached
        <5>4. Owns(n) \in S \cup {Null}
          BY <1>23, <5>2 DEF WrittenBefore
        <5>5. Reached(d)' \in S \cup {Null}
          BY <1>15, <5>3, <5>4
        <5>6. WrittenBefore(S, d)
          BY <5>2 DEF WrittenBefore
        <5>7. QED
          BY <3>1, <5>2, <5>5, <5>6
      <4>3. QED
        BY <4>1, <4>2
    <3>3. QED
      BY <3>2 DEF StoresBeforeDeletion
  <2>3. QED
    BY <2>1, <2>2
<1>27. QED
  BY <1>10, <1>17, <1>19, <1>20, <1>21, <1>25, <1>26 DEF IInv

LEMMA StorePtrKeeps ==
  ASSUME IInv, StorePtr
  PROVE  IInv'
<1>1. /\ TypeOK /\ StepsExist /\ PartsInOrder /\ StoresBeforeMembers /\ Goes("store") /\ Then(<<>>)
      /\ refs' = refs /\ heap' = heap /\ Null \notin Nodes
  BY NestedOwnershipAssumption DEF IInv, StorePtr
<1>2. PICK rest \in Seq(Entries) : Len(rest) = 0 /\ Then(rest)
  <2>1. <<>> \in Seq(Entries) /\ Len(<<>>) = 0
    OBVIOUS
  <2>2. QED
    BY <1>1, <2>1, Zenon
<1>3. PICK D \in Nat, h \in Handles :
           /\ D = Depth /\ D > 0 /\ h = This /\ kind' = kind /\ raw' = raw
           /\ Head(todo) = Step(D) /\ Step(D).op = "store" /\ Step(D).at = h
           /\ todo' \in Seq(Entries) /\ Depth' = (D - 1) + Len(rest) /\ Len(rest) \in Nat
           /\ Kept(D - 1)
  <2>1. TypeOK /\ Goes("store") /\ Then(rest)
    BY <1>1, <1>2
  <2>2. QED
    BY <2>1, ThenStack
<1>4. Inner(D) /\ ~(Depth' = D) /\ D \in 1..Depth
  BY <1>2, <1>3 DEF Inner
<1>5. PICK p \in Nodes \cup {Null} : p = Step(D).to
  BY <1>1, <1>4, StepTypes
<1>6. ptr' = [ptr EXCEPT ![h] = p] /\ ptr \in [Handles -> Nodes \cup {Null}]
  BY <1>1, <1>3, <1>5 DEF StorePtr, TypeOK
<1>7. TypeOK'
  BY <1>1, <1>3, <1>6 DEF TypeOK, Entries
<1>8. ~Shared /\ Exists(h)
  BY <1>1, <1>3, <1>4 DEF StepsExist
<1>9. \A op, x : op # "store" \/ x # h => At(op, x)' = At(op, x)
  BY <1>1, <1>3, <1>4, <1>7, InnerAt
<1>10. PICK B \in Nat : B = D - 1 /\ Kept(B)
  BY <1>3
<1>11. \A x \in Handles : Owns(x)' = Owns(x)
  <2> TAKE x \in Handles
  <2>1. CASE x # h
    <3>1. At("store", x)' = At("store", x) /\ At("free", x)' = At("free", x)
          /\ At("members", x)' = At("members", x) /\ ptr'[x] = ptr[x]
      BY <1>6, <1>9, <2>1
    <3>2. Busy(x)' <=> Busy(x)
      BY <1>1, <1>7, <3>1, OwnsIs, OwnsIsNext
    <3>3. At("store", x) \subseteq 1..B
      <4>1. \A d \in At("store", x) : d \in 1..Depth /\ Step(d).at = x
        BY DEF At
      <4>2. \A d \in At("store", x) : d # D
        BY <1>3, <2>1, <4>1
      <4>3. QED
        BY <1>3, <1>10, <4>1, <4>2
    <3>4. QED
      BY <1>1, <1>7, <1>10, <3>1, <3>2, <3>3, OwnsKept
  <2>2. CASE x = h
    <3>1. D \in At("store", h)
      BY <1>3, <1>4 DEF At
    <3>2. /\ \A d \in At("store", h) : d <= B => d \in At("store", h)'
          /\ \A d \in At("store", h)' : d \in At("store", h) /\ d \in 1..B /\ d < D /\ Step(d)' = Step(d)
      <4>1. /\ \A d \in At("store", h) : d <= B => d \in At("store", h)'
            /\ \A d \in At("store", h)' : IF d <= B THEN d \in At("store", h)
                 ELSE d \in (B + 1)..Depth' /\ Step(d)'.op = "store" /\ Step(d)'.at = h
        BY <1>1, <1>7, <1>10, AtSplit
      <4>2. \A d \in At("store", h)' : d <= B /\ d \in 1..B
        BY <1>2, <1>3, <1>10 DEF At
      <4>3. \A d \in 1..B : d < D /\ Step(d)' = Step(d)
        BY <1>3, <1>10 DEF Kept
      <4>4. QED
        BY <4>1, <4>2, <4>3
    <3>3. CASE At("store", h)' # {}
      <4>1. PICK d \in At("store", h)' : \A e \in At("store", h)' : d <= e
        BY <1>7, <3>3, OwnsIsNext
      <4>2. Owns(h)' = Step(d)'.to
        BY <1>7, <4>1, OwnsIsNext
      <4>3. \A e \in At("store", h) : d <= e
        <5>1. \A e \in At("store", h) : e \in 1..Depth
          BY DEF At
        <5>2. \A e \in At("store", h) : e <= B \/ e = D
          BY <1>3, <1>10, <5>1
        <5>3. QED
          BY <1>3, <3>2, <4>1, <5>2
      <4>4. Owns(h) = Step(d).to
        BY <1>1, <3>2, <4>3, OwnsIs
      <4>5. QED
        BY <2>2, <3>2, <4>2, <4>4
    <3>4. CASE At("store", h)' = {}
      <4>1. \A e \in At("store", h) : e = D
        <5>1. \A e \in At("store", h) : e \in 1..Depth /\ ~(e <= B)
          BY <3>2, <3>4 DEF At
        <5>2. QED
          BY <1>3, <1>10, <5>1
      <4>2. Owns(h) = p
        <5>1. \A e \in At("store", h) : D <= e
          BY <1>3, <4>1
        <5>2. QED
          BY <1>1, <1>5, <3>1, <5>1, OwnsIs
      <4>3. At("free", h) # {} => At("members", h) # {}
        <5>1. ASSUME NEW e \in At("free", h)
              PROVE  e + 1 \in At("members", h)
          <6>1. e \in 1..Depth /\ Step(e).op = "free" /\ Step(e).at = h
            BY DEF At
          <6>2. D > e + 1 /\ Step(e + 1).op = "members"
            BY <1>1, <1>3, <1>4, <6>1 DEF StoresBeforeMembers
          <6>3. e + 1 \in 1..Depth
            BY <1>3, <6>1, <6>2
          <6>4. Step((e + 1) - 1) = Free(Step(e + 1).at) /\ (e + 1) - 1 = e
            BY <1>1, <6>1, <6>2, <6>3 DEF PartsInOrder
          <6>5. Step(e + 1).at = h
            BY <6>1, <6>4 DEF Free
          <6>6. QED
            BY <6>2, <6>3, <6>5 DEF At
        <5>2. QED
          BY <5>1
      <4>4. At("free", h)' = At("free", h) /\ At("members", h)' = At("members", h)
        BY <1>9
      <4>5. ~Busy(h)'
        BY <1>7, <3>4, <4>3, <4>4, OwnsIsNext
      <4>6. Owns(h)' = ptr'[h]
        BY <1>7, <4>5, OwnsIsNext
      <4>7. QED
        BY <1>6, <2>2, <4>2, <4>6
    <3>5. QED
      BY <3>3, <3>4
  <2>3. QED
    BY <2>1, <2>2
<1>12. \A n \in Nodes : Whole(n)' <=> Whole(n)
  BY <1>1, <1>9 DEF Whole, Alive
<1>13. UniqueOwner' /\ CountedOwners'
  BY <1>3, <1>8, <1>11, <1>12, OwnersSame
<1>14. \A n \in Nodes \ heap' : ptr'[n] = Null
  <2>1. \A n \in Nodes \ heap : ptr[n] = Null /\ n \in Handles /\ n # h
    BY <1>1, <1>8, NestedOwnershipAssumption DEF StepsExist, Handles, Exists
  <2>2. QED
    BY <1>1, <1>6, <2>1
<1>15. StepsExist' /\ PartsInOrder' /\ EndsOnce' /\ StoresBeforeMembers' /\ StoresBeforeDeletion'
  BY <1>1, <1>3, <1>4, <1>7, <1>11, <1>14, InnerKeeps
<1>16. QED
  BY <1>7, <1>13, <1>15 DEF IInv

LEMMA DeallocateKeeps ==
  ASSUME IInv, Deallocate
  PROVE  IInv'
<1>1. /\ TypeOK /\ StepsExist /\ UniqueOwner /\ CountedOwners /\ Goes("free") /\ Then(<<>>)
      /\ refs' = refs /\ heap' = heap \ {This} /\ ptr' = [ptr EXCEPT ![This] = Null]
      /\ Null \notin Nodes
  BY NestedOwnershipAssumption DEF IInv, Deallocate
<1>2. PICK rest \in Seq(Entries) : Len(rest) = 0 /\ Then(rest)
  <2>1. <<>> \in Seq(Entries) /\ Len(<<>>) = 0
    OBVIOUS
  <2>2. QED
    BY <1>1, <2>1, Zenon
<1>3. PICK D \in Nat, n \in Handles :
           /\ D = Depth /\ D > 0 /\ n = This /\ kind' = kind /\ raw' = raw
           /\ Head(todo) = Step(D) /\ Step(D).op = "free" /\ Step(D).at = n
           /\ todo' \in Seq(Entries) /\ Depth' = (D - 1) + Len(rest) /\ Len(rest) \in Nat
           /\ Kept(D - 1)
  <2>1. TypeOK /\ Goes("free") /\ Then(rest)
    BY <1>1, <1>2
  <2>2. QED
    BY <2>1, ThenStack
<1>4. Inner(D) /\ ~(Depth' = D) /\ D \in 1..Depth
  BY <1>2, <1>3 DEF Inner
<1>5. heap' = heap \ {n} /\ ptr' = [ptr EXCEPT ![n] = Null] /\ ptr \in [Handles -> Nodes \cup {Null}]
      /\ heap \subseteq Nodes /\ raw \subseteq heap /\ n \in heap /\ refs \in [Nodes -> Nat]
  BY <1>1, <1>3, <1>4 DEF TypeOK, StepsExist
<1>6. D \in At("free", n) /\ ~Whole(n)
  BY <1>3, <1>4 DEF At, Whole, Alive
<1>7. n \notin raw
  <2>1. CASE Shared
    BY <1>1, <2>1 DEF CountedOwners
  <2>2. CASE ~Shared
    BY <1>1, <1>6, <2>2 DEF UniqueOwner, Whole
  <2>3. QED
    BY <2>1, <2>2
<1>8. TypeOK'
  BY <1>1, <1>3, <1>5, <1>7 DEF TypeOK, Entries
<1>9. /\ \A d \in 1..Depth : Step(d).op \in {"delete", "free"} /\ Step(d).at = n => d = D
      /\ \A d \in 1..Depth : Step(d).at = n => Step(d).op \notin {"body", "members"}
      /\ At("store", n) = {}
  BY <1>3, <1>4, DestructionIs
<1>10. \A op, x : op # "free" \/ x # n => At(op, x)' = At(op, x)
  BY <1>1, <1>3, <1>4, <1>8, InnerAt
<1>11. At("free", n)' = {} /\ At("members", n) = {} /\ At("store", n)' = {}
  <2>1. \A d \in 1..(D - 1) : ~(Step(d).op = "free" /\ Step(d).at = n)
    BY <1>3, <1>9
  <2>2. At("members", n) = {}
    BY <1>9 DEF At
  <2>3. At("store", n)' = At("store", n)
    BY <1>10
  <2>4. QED
    BY <1>1, <1>4, <1>8, <1>9, <2>1, <2>2, <2>3, InnerAt
<1>12. \A x \in Handles : Owns(x)' = Owns(x)
  <2> TAKE x \in Handles
  <2>1. CASE x = n
    <3>1. Owns(n) = Null
      BY <1>1, <1>6, <1>9, <1>11, OwnsIs
    <3>2. ~Busy(n)'
      BY <1>8, <1>11, OwnsIsNext
    <3>3. Owns(n)' = ptr'[n]
      BY <1>8, <3>2, OwnsIsNext
    <3>4. QED
      BY <1>5, <2>1, <3>1, <3>3
  <2>2. CASE x # n
    <3>1. At("free", x)' = At("free", x) /\ At("members", x)' = At("members", x) /\ ptr'[x] = ptr[x]
      BY <1>5, <1>10, <2>2
    <3>2. QED
      BY <1>1, <1>3, <1>4, <1>8, <3>1, InnerOwns
  <2>3. QED
    BY <2>1, <2>2
<1>13. \A x \in Nodes : Whole(x)' <=> Whole(x)
  <2> TAKE x \in Nodes
  <2>1. CASE x = n
    BY <1>5, <1>6, <2>1 DEF Whole, Alive
  <2>2. CASE x # n
    <3>1. At("free", x)' = At("free", x) /\ At("delete", x)' = At("delete", x)
      BY <1>10, <2>2
    <3>2. QED
      BY <1>5, <2>2, <3>1 DEF Whole, Alive
  <2>3. QED
    BY <2>1, <2>2
<1>14. UniqueOwner' /\ CountedOwners'
  BY <1>1, <1>3, <1>10, <1>12, <1>13, OwnersSame
<1>15. \A x \in Nodes \ heap' : ptr'[x] = Null
  BY <1>1, <1>5 DEF StepsExist
<1>16. \A d \in 1..(D - 1) : Step(d).at # n
  <2> SUFFICES ASSUME NEW d \in 1..(D - 1), Step(d).at = n
               PROVE  FALSE
    OBVIOUS
  <2>1. d \in 1..Depth /\ d # D
    BY <1>3
  <2>2. Step(d).op \notin {"delete", "free", "body", "members"}
    BY <1>9, <2>1
  <2>3. Step(d).op # "store"
    BY <1>9, <2>1 DEF At
  <2>4. Step(d).op # "release"
    <3>1. ASSUME Step(d).op = "release" PROVE FALSE
      <4>1. Shared /\ d \in At("release", n)
        BY <1>1, <2>1, <2>2, <3>1 DEF StepsExist, At
      <4>2. At("release", n) = {}
        BY <1>1, <1>5, <1>6, <4>1 DEF CountedOwners, Whole
      <4>3. QED
        BY <4>1, <4>2
    <3>2. QED
      BY <3>1
  <2>5. Step(d).op \in Ops
    BY <1>1, <2>1, StepTypes
  <2>6. QED
    BY <2>2, <2>3, <2>4, <2>5 DEF Ops
<1>17. \A d \in 1..(D - 1) : Step(d).at \in heap => Step(d).at \in heap'
  BY <1>5, <1>16
<1>18. StepsExist' /\ PartsInOrder' /\ EndsOnce' /\ StoresBeforeMembers' /\ StoresBeforeDeletion'
  BY <1>3, <1>4, <1>8, <1>12, <1>15, <1>17, InnerKeeps
<1>19. QED
  BY <1>8, <1>14, <1>18 DEF IInv

(***************************************************************************)
(* Counting owners.                                                        *)
(***************************************************************************)
One(a, b) == IF a = b THEN 1 ELSE 0

LEMMA FiniteAt ==
  ASSUME TypeOK, NEW op, NEW n
  PROVE  /\ IsFiniteSet(At(op, n)) /\ Cardinality(At(op, n)) \in Nat
         /\ Cardinality(At(op, n)) = 0 <=> At(op, n) = {}
<1>1. Depth \in Nat /\ At(op, n) \subseteq 1..Depth
  BY StepTypes
<1>2. IsFiniteSet(1..Depth)
  BY <1>1, FS_Interval
<1>3. QED
  BY <1>1, <1>2, FS_Subset, FS_CardinalityType, FS_EmptySet

LEMMA FiniteAtNext ==
  TypeOK' => \A op, n : /\ Cardinality(At(op, n)') \in Nat
                        /\ Cardinality(At(op, n)') = 0 => At(op, n)' = {}
<1>1. TypeOK => \A op, n : /\ Cardinality(At(op, n)) \in Nat
                           /\ Cardinality(At(op, n)) = 0 => At(op, n) = {}
  BY FiniteAt
<1>2. (TypeOK => \A op, n : /\ Cardinality(At(op, n)) \in Nat
                            /\ Cardinality(At(op, n)) = 0 => At(op, n) = {})'
  BY <1>1, PTL
<1>3. QED
  BY <1>2

LEMMA FiniteOwners ==
  ASSUME NEW S \in SUBSET Handles
  PROVE  IsFiniteSet(S) /\ Cardinality(S) \in Nat /\ (Cardinality(S) = 0 <=> S = {})
BY NestedOwnershipAssumption, FS_Subset, FS_CardinalityType, FS_EmptySet DEF Handles

\* One more step of this kind, on top.
LEMMA AtAdded ==
  ASSUME TypeOK, TypeOK', NEW B, Kept(B), NEW op, NEW n, NEW d, d = B + 1, d = Depth',
         Step(d)'.op = op, Step(d)'.at = n,
         B < Depth => ~(Step(Depth).op = op /\ Step(Depth).at = n)
  PROVE  /\ At(op, n)' # {}
         /\ Cardinality(At(op, n)') = Cardinality(At(op, n)) + 1
<1>1. /\ \A e \in At(op, n) : e <= B => e \in At(op, n)'
      /\ \A e \in At(op, n)' : IF e <= B THEN e \in At(op, n)
           ELSE e \in (B + 1)..Depth' /\ Step(e)'.op = op /\ Step(e)'.at = n
  BY AtSplit
<1>2. \A e \in At(op, n) : e <= B
  <2>1. ASSUME NEW e \in At(op, n), ~(e <= B) PROVE FALSE
    <3>1. e \in 1..Depth /\ Step(e).op = op /\ Step(e).at = n
      BY <2>1 DEF At
    <3>2. e = Depth
      BY <2>1, <3>1 DEF Kept
    <3>3. B < Depth
      BY <2>1, <3>1, <3>2, StepTypes DEF Kept
    <3>4. QED
      BY <3>1, <3>2, <3>3
  <2>2. QED
    BY <2>1
<1>3. d \in At(op, n)' /\ d \notin At(op, n) /\ B \in Nat
  BY <1>2 DEF At, Kept
<1>4. \A e \in At(op, n)' : e \in At(op, n) \/ e = d
  <2> TAKE e \in At(op, n)'
  <2>1. CASE e <= B
    BY <1>1, <2>1
  <2>2. CASE ~(e <= B)
    <3>1. e \in (B + 1)..Depth'
      BY <1>1, <2>2
    <3>2. e \in d..d /\ d \in Int
      BY <1>3, <3>1
    <3>3. QED
      BY <3>2
  <2>3. QED
    BY <2>1, <2>2
<1>5. At(op, n)' = At(op, n) \cup {d}
  BY <1>1, <1>2, <1>3, <1>4
<1>6. QED
  BY <1>3, <1>5, FiniteAt, FS_AddElement

\* The owners of n, if f tells what each handle owns.
OwnersIn(f, n)   == {x \in Handles : f[x] = n}
Changed(f, h, p) == [f EXCEPT ![h] = p]

LEMMA OneChanges ==
  ASSUME NEW f \in [Handles -> Nodes \cup {Null}], NEW h \in Handles, NEW p \in Nodes \cup {Null},
         NEW n \in Nodes, NEW g, g = Changed(f, h, p)
  PROVE  /\ g \in [Handles -> Nodes \cup {Null}]
         /\ Cardinality(OwnersIn(f, n)) \in Nat /\ Cardinality(OwnersIn(g, n)) \in Nat
         /\ Cardinality(OwnersIn(g, n)) + One(f[h], n) = Cardinality(OwnersIn(f, n)) + One(p, n)
<1>1. g \in [Handles -> Nodes \cup {Null}] /\ g[h] = p /\ \A x \in Handles \ {h} : g[x] = f[x]
  BY DEF Changed
<1>2. /\ OwnersIn(f, n) \in SUBSET Handles /\ OwnersIn(g, n) \in SUBSET Handles
      /\ h \in OwnersIn(f, n) <=> f[h] = n
      /\ OwnersIn(g, n) = IF p = n THEN OwnersIn(f, n) \cup {h} ELSE OwnersIn(f, n) \ {h}
  BY <1>1 DEF OwnersIn
<1>3. IsFiniteSet(OwnersIn(f, n)) /\ Cardinality(OwnersIn(f, n)) \in Nat
      /\ Cardinality(OwnersIn(g, n)) \in Nat
  BY <1>2, FiniteOwners
<1>4. Cardinality(OwnersIn(f, n) \cup {h}) = IF f[h] = n THEN Cardinality(OwnersIn(f, n))
                                             ELSE Cardinality(OwnersIn(f, n)) + 1
  BY <1>2, <1>3, FS_AddElement
<1>5. Cardinality(OwnersIn(f, n) \ {h}) = IF f[h] = n THEN Cardinality(OwnersIn(f, n)) - 1
                                          ELSE Cardinality(OwnersIn(f, n))
  BY <1>2, <1>3, FS_RemoveElement
<1>6. Cardinality(OwnersIn(g, n)) + One(f[h], n) = Cardinality(OwnersIn(f, n)) + One(p, n)
  <2>1. CASE p = n
    <3>1. Cardinality(OwnersIn(g, n)) = Cardinality(OwnersIn(f, n) \cup {h})
      BY <1>2, <2>1
    <3>2. QED
      BY <1>3, <1>4, <2>1, <3>1 DEF One
  <2>2. CASE p # n
    <3>1. Cardinality(OwnersIn(g, n)) = Cardinality(OwnersIn(f, n) \ {h})
      BY <1>2, <2>2
    <3>2. QED
      BY <1>3, <1>5, <2>2, <3>1 DEF One
  <2>3. QED
    BY <2>1, <2>2
<1>7. QED
  BY <1>1, <1>3, <1>6

Own == [x \in Handles |-> Owns(x)]

LEMMA OwnIs ==
  ASSUME TypeOK
  PROVE  /\ Own \in [Handles -> Nodes \cup {Null}]
         /\ \A x \in Handles : Own[x] = Owns(x)
         /\ \A n : OwnersIn(Own, n) = Sharing(n)
<1>1. \A x \in Handles : Owns(x) \in Nodes \cup {Null}
  BY OwnsIs
<1>2. \A x \in Handles : Own[x] = Owns(x)
  BY DEF Own
<1>3. Own \in [Handles -> Nodes \cup {Null}]
  BY <1>1 DEF Own
<1>4. \A n : OwnersIn(Own, n) = Sharing(n)
  BY <1>2 DEF OwnersIn, Sharing
<1>5. QED
  BY <1>2, <1>3, <1>4

\* The handles come to own f: what they give up and gain is counted.
LEMMA SharingNext ==
  ASSUME NEW f \in [Handles -> Nodes \cup {Null}], \A x \in Handles : Owns(x)' = f[x]
  PROVE  \A n : Sharing(n)' = OwnersIn(f, n)
BY DEF Sharing, OwnersIn

(***************************************************************************)
(* The calls, with shared handles: they release o.                         *)
(***************************************************************************)
SharedStacks(o) ==
  /\ todo # <<>> => Head(todo).op = "body"
  /\ todo' = GivenUp(o) \o (IF todo = <<>> THEN <<>> ELSE Tail(todo))

LEMMA SharedStack ==
  ASSUME TypeOK, Shared, NEW o \in Nodes \cup {Null}, SharedStacks(o)
  PROVE  /\ todo' \in Seq(Entries)
         /\ \E B : /\ B = Outer /\ Kept(B) /\ (B < Depth => Step(Depth).op = "body")
                   /\ IF o = Null THEN Depth' = B
                      ELSE Depth' = B + 1 /\ Step(B + 1)' = Release(o)
<1>1. PICK B : B = Outer /\ B = IF todo = <<>> THEN 0 ELSE Depth - 1
  BY DEF Outer
<1>2. PICK rest \in Seq(Entries) :
        /\ Len(rest) = IF o = Null THEN 0 ELSE 1
        /\ o # Null => rest[1] = Release(o)
        /\ todo' = rest \o (IF todo = <<>> THEN <<>> ELSE Tail(todo))
  <2>1. CASE o = Null
    <3>1. GivenUp(o) \in Seq(Entries) /\ Len(GivenUp(o)) = 0
      BY <2>1 DEF GivenUp
    <3>2. QED
      BY <2>1, <3>1 DEF SharedStacks
  <2>2. CASE o # Null
    <3>1. Release(o) \in Entries
      BY <2>2 DEF Release, Entries, Ops, Handles
    <3>2. GivenUp(o) = <<Release(o)>>
      BY <2>2 DEF GivenUp
    <3>3. GivenUp(o) \in Seq(Entries) /\ Len(GivenUp(o)) = 1 /\ GivenUp(o)[1] = Release(o)
      BY <3>1, <3>2
    <3>4. QED
      BY <2>2, <3>3 DEF SharedStacks
  <2>3. QED
    BY <2>1, <2>2
<1>3. todo \in Seq(Entries)
  BY DEF TypeOK, Entries
<1>4. /\ B \in Nat /\ B <= Depth /\ Depth' = B + Len(rest)
      /\ todo' \in Seq(Entries)
      /\ \A d \in 1..B : Step(d)' = Step(d)
      /\ \A k \in 1..Len(rest) : Step(B + k)' = rest[Len(rest) + 1 - k]
      /\ \A d \in 1..Depth : d <= B \/ d = Depth
      /\ todo # <<>> => Depth \in 1..Depth /\ Head(todo) = Step(Depth)
  BY <1>1, <1>2, <1>3, Replaced
<1>5. Kept(B)
  BY <1>2, <1>4 DEF Kept
<1>6. ASSUME B < Depth
      PROVE  Step(Depth).op = "body"
  <2>1. todo # <<>>
    BY <1>1, <1>6 DEF Depth
  <2>2. QED
    BY <1>4, <2>1 DEF SharedStacks
<1>7. o = Null => Depth' = B
  BY <1>2, <1>4
<1>8. ASSUME o # Null
      PROVE  Depth' = B + 1 /\ Step(B + 1)' = Release(o)
  <2>1. Len(rest) = 1 /\ rest[1] = Release(o) /\ 1 \in 1..Len(rest) /\ Len(rest) + 1 - 1 = 1
    BY <1>2, <1>8
  <2>2. QED
    BY <1>4, <2>1
<1>9. QED
  BY <1>1, <1>4, <1>5, <1>6, <1>7, <1>8

\* The handles now own f, o is given up and p gained, and the counters know.
Counts(f, o, p) ==
  \A n \in Nodes :
    /\ Cardinality(OwnersIn(f, n)) + One(o, n) = Cardinality(Sharing(n)) + One(p, n)
    /\ n \in heap' => refs'[n] = (IF n \in heap THEN refs[n] ELSE 0) + One(p, n)

LEMMA SharedCallKeeps ==
  ASSUME IInv, TypeOK', Shared, kind' = kind, raw' = raw,
         NEW o \in Nodes \cup {Null}, SharedStacks(o), o # Null => Sharing(o) # {},
         NEW p \in Nodes \cup {Null}, p \in heap => Whole(p),
         heap' = heap \cup ({p} \ {Null}), \A n \in Nodes \ heap' : ptr'[n] = Null,
         NEW f \in [Handles -> Nodes \cup {Null}], Counts(f, o, p),
         \A x \in Handles : IF Busy(x) THEN f[x] = Owns(x) ELSE f[x] = ptr'[x]
  PROVE  IInv'
<1>1. /\ TypeOK /\ StepsExist /\ PartsInOrder /\ EndsOnce /\ CountedOwners /\ Null \notin Nodes
      /\ heap \subseteq Nodes /\ refs \in [Nodes -> Nat]
  BY NestedOwnershipAssumption DEF IInv, TypeOK
<1>2. PICK B : /\ B = Outer /\ Kept(B) /\ (B < Depth => Step(Depth).op = "body")
               /\ IF o = Null THEN Depth' = B ELSE Depth' = B + 1 /\ Step(B + 1)' = Release(o)
  BY <1>1, SharedStack
<1>3. /\ B \in Nat /\ B <= Depth /\ Depth \in Nat /\ Depth' \in Nat
      /\ \A d \in 1..B : Step(d)' = Step(d) /\ d \in 1..Depth
      /\ \A d \in 1..Depth' : d \in 1..B \/ (d = B + 1 /\ o # Null /\ Step(d)' = Release(o))
  <2>1. Depth \in Nat
    BY <1>1, StepTypes
  <2>2. QED
    BY <1>2, <2>1 DEF Kept
<1>4. Release(o).op = "release" /\ Release(o).at = o /\ Release(o).to = Null
  BY DEF Release
<1>5. Shared'
  BY DEF Shared
<1>6. \A n \in Nodes : /\ Whole(n) => /\ refs[n] = Cardinality(Sharing(n)) + Cardinality(At("release", n))
                                      /\ refs[n] > 0
                       /\ ~Whole(n) => Sharing(n) = {} /\ At("release", n) = {}
  BY <1>1 DEF CountedOwners, Whole
<1>7. o # Null => Whole(o) /\ o \in heap
  BY <1>6 DEF Whole, Alive
<1>8. ASSUME NEW op, NEW x, op # "body", op # "release" \/ x # o \/ o = Null
      PROVE  At(op, x)' = At(op, x)
  <2>1. B < Depth => ~(Step(Depth).op = op /\ Step(Depth).at = x)
    BY <1>2, <1>8
  <2>2. \A d \in (B + 1)..Depth' : ~(Step(d)'.op = op /\ Step(d)'.at = x)
    <3>1. \A d \in (B + 1)..Depth' : d \in 1..Depth' /\ d \notin 1..B
      BY <1>3
    <3>2. QED
      BY <1>3, <1>4, <1>8, <3>1
  <2>3. QED
    BY <1>1, <1>2, <2>1, <2>2, AtKept
<1>9. o # Null => Cardinality(At("release", o)') = Cardinality(At("release", o)) + 1
  <2>1. ASSUME o # Null
        PROVE  /\ B + 1 = Depth' /\ Step(B + 1)'.op = "release" /\ Step(B + 1)'.at = o
               /\ B < Depth => ~(Step(Depth).op = "release" /\ Step(Depth).at = o)
    BY <1>2, <1>4, <2>1
  <2>2. QED
    BY <1>1, <1>2, <2>1, AtAdded
<1>10. \A x \in Handles : Owns(x)' = f[x]
  <2> TAKE x \in Handles
  <2>1. At("store", x) = {} /\ At("store", x)' = {}
    <3>1. At("store", x) = {}
      BY <1>1 DEF StepsExist, At
    <3>2. QED
      BY <1>8, <3>1
  <2>2. Busy(x)' <=> Busy(x)
    <3>1. At("free", x)' = At("free", x) /\ At("members", x)' = At("members", x)
      BY <1>8
    <3>2. QED
      BY <1>1, <2>1, <3>1, OwnsIs, OwnsIsNext
  <2>3. CASE Busy(x)
    BY <1>1, <2>1, <2>2, <2>3, OwnsIs, OwnsIsNext
  <2>4. CASE ~Busy(x)
    BY <2>2, <2>4, OwnsIsNext
  <2>5. QED
    BY <2>3, <2>4
<1>11. \A n : Sharing(n)' = OwnersIn(f, n)
  BY <1>10, SharingNext
<1>12. \A n \in Nodes : Whole(n)' <=> Whole(n) \/ n = p
  <2> TAKE n \in Nodes
  <2>1. At("free", n)' = At("free", n) /\ At("delete", n)' = At("delete", n)
    BY <1>8
  <2>2. CASE n = p
    <3>1. n \in heap'
      BY <1>1, <2>2
    <3>2. CASE n \in heap
      BY <2>1, <2>2, <3>1, <3>2 DEF Whole, Alive
    <3>3. CASE n \notin heap
      <4>1. At("free", n) = {} /\ At("delete", n) = {}
        BY <1>1, <3>3 DEF StepsExist, At
      <4>2. QED
        BY <2>1, <2>2, <3>1, <4>1 DEF Whole, Alive
    <3>4. QED
      BY <3>2, <3>3
  <2>3. CASE n # p
    BY <2>1, <2>3 DEF Whole, Alive
  <2>4. QED
    BY <2>2, <2>3
<1>13. CountedOwners'
  <2>1. ASSUME NEW n \in Nodes
        PROVE  IF Whole(n)'
               THEN /\ refs'[n] = Cardinality(Sharing(n)') + Cardinality(At("release", n)')
                    /\ refs'[n] > 0
               ELSE Sharing(n)' = {} /\ At("release", n)' = {}
    <3>1. /\ Cardinality(Sharing(n)') + One(o, n) = Cardinality(Sharing(n)) + One(p, n)
          /\ n \in heap' => refs'[n] = (IF n \in heap THEN refs[n] ELSE 0) + One(p, n)
      BY <1>11 DEF Counts
    <3>2. Cardinality(At("release", n)') = Cardinality(At("release", n)) + One(o, n)
      <4>1. CASE o = n
        <5>1. o # Null
          BY <1>1, <4>1
        <5>2. QED
          BY <1>9, <4>1, <5>1 DEF One
      <4>2. CASE o # n
        <5>1. At("release", n)' = At("release", n)
          BY <1>8, <4>2
        <5>2. QED
          BY <1>1, <4>2, <5>1, FiniteAt DEF One
      <4>3. QED
        BY <4>1, <4>2
    <3>3. /\ Cardinality(Sharing(n)) \in Nat /\ Cardinality(Sharing(n)') \in Nat
          /\ Cardinality(Sharing(n)) = 0 <=> Sharing(n) = {}
          /\ Cardinality(Sharing(n)') = 0 <=> Sharing(n)' = {}
      <4>1. Sharing(n) \in SUBSET Handles /\ Sharing(n)' \in SUBSET Handles
        BY <1>11 DEF Sharing, OwnersIn
      <4>2. QED
        BY <4>1, FiniteOwners
    <3>4. /\ Cardinality(At("release", n)) \in Nat
          /\ Cardinality(At("release", n)) = 0 <=> At("release", n) = {}
      BY <1>1, FiniteAt
    <3>5. One(o, n) \in {0, 1} /\ One(p, n) \in {0, 1} /\ (One(o, n) = 1 <=> o = n)
          /\ (One(p, n) = 1 <=> p = n)
      BY DEF One
    <3>6. CASE Whole(n)'
      <4>1. n \in heap' /\ refs'[n] = (IF n \in heap THEN refs[n] ELSE 0) + One(p, n)
        BY <3>1, <3>6 DEF Whole, Alive
      <4>2. CASE Whole(n)
        <5>1. n \in heap /\ refs'[n] = refs[n] + One(p, n) /\ refs[n] \in Nat
          BY <1>1, <4>1, <4>2 DEF Whole, Alive
        <5>2. refs[n] = Cardinality(Sharing(n)) + Cardinality(At("release", n)) /\ refs[n] > 0
          BY <1>6, <4>2
        <5>3. QED
          BY <3>1, <3>2, <3>3, <3>4, <3>5, <3>6, <5>1, <5>2
      <4>3. CASE ~Whole(n)
        <5>1. n = p
          BY <1>12, <3>6, <4>3
        <5>2. n \notin heap
          BY <4>3, <5>1
        <5>3. Cardinality(Sharing(n)) = 0 /\ Cardinality(At("release", n)) = 0
          BY <1>6, <3>3, <3>4, <4>3
        <5>4. refs'[n] = One(p, n) /\ One(p, n) = 1
          BY <3>5, <4>1, <5>1, <5>2
        <5>5. QED
          BY <3>1, <3>2, <3>3, <3>4, <3>5, <3>6, <5>3, <5>4
      <4>4. QED
        BY <4>2, <4>3
    <3>7. CASE ~Whole(n)'
      <4>1. ~Whole(n) /\ n # p
        BY <1>12, <3>7
      <4>2. Sharing(n) = {} /\ At("release", n) = {}
        BY <1>6, <4>1
      <4>3. o # n
        BY <1>1, <1>7, <4>1
      <4>4. At("release", n)' = {}
        BY <1>8, <4>2, <4>3
      <4>5. Cardinality(Sharing(n)') = 0
        BY <3>1, <3>3, <3>5, <4>1, <4>2, <4>3
      <4>6. QED
        BY <3>3, <3>7, <4>4, <4>5
    <3>8. QED
      BY <3>6, <3>7
  <2>2. raw' = {}
    BY <1>1 DEF CountedOwners
  <2>3. QED
    BY <2>1, <2>2 DEF CountedOwners, Whole
<1>14. StepsExist'
  <2>1. ASSUME NEW d \in 1..Depth'
        PROVE  (IF Step(d).op = "store" THEN ~Shared /\ Exists(Step(d).at)
                ELSE /\ Step(d).at \in heap /\ Step(d).to = Null
                     /\ Step(d).op = "release" => Shared)'
    <3>1. CASE d \in 1..B
      BY <1>1, <1>3, <1>5, <3>1 DEF StepsExist, Exists
    <3>2. CASE d \notin 1..B
      BY <1>3, <1>4, <1>5, <1>7, <3>2
    <3>3. QED
      BY <3>1, <3>2
  <2>2. QED
    BY <2>1 DEF StepsExist
<1>15. \A d \in 1..Depth' : Step(d)'.op # "release" => d \in 1..B /\ Step(d)' = Step(d) /\ d \in 1..Depth
  BY <1>3, <1>4
<1>16. PartsInOrder'
  <2>1. ASSUME NEW d \in 1..Depth', Step(d)'.op = "body"
        PROVE  d > 2 /\ Step(d - 1)' = Members(Step(d)'.at)
    <3>1. d \in 1..B /\ Step(d)' = Step(d) /\ d \in 1..Depth
      BY <1>15, <2>1
    <3>2. d > 2 /\ Step(d - 1) = Members(Step(d).at)
      BY <1>1, <2>1, <3>1 DEF PartsInOrder
    <3>3. d - 1 \in 1..B
      BY <1>3, <3>1, <3>2
    <3>4. QED
      BY <1>3, <3>1, <3>2, <3>3
  <2>2. ASSUME NEW d \in 1..Depth', Step(d)'.op = "members"
        PROVE  d > 1 /\ Step(d - 1)' = Free(Step(d)'.at)
    <3>1. d \in 1..B /\ Step(d)' = Step(d) /\ d \in 1..Depth
      BY <1>15, <2>2
    <3>2. d > 1 /\ Step(d - 1) = Free(Step(d).at)
      BY <1>1, <2>2, <3>1 DEF PartsInOrder
    <3>3. d - 1 \in 1..B
      BY <1>3, <3>1, <3>2
    <3>4. QED
      BY <1>3, <3>1, <3>2, <3>3
  <2>3. QED
    BY <2>1, <2>2 DEF PartsInOrder
<1>17. EndsOnce'
  BY <1>1, <1>15 DEF EndsOnce
<1>18. StoresBeforeMembers'
  <2>1. \A d \in 1..Depth' : Step(d)'.op # "store"
    BY <1>1, <1>15 DEF StepsExist
  <2>2. QED
    BY <2>1 DEF StoresBeforeMembers
<1>19. StoresBeforeDeletion' /\ UniqueOwner'
  BY <1>5 DEF StoresBeforeDeletion, UniqueOwner
<1>20. QED
  BY <1>13, <1>14, <1>16, <1>17, <1>18, <1>19 DEF IInv

\* h takes p: f is what the handles own once at has been written.
LEMMA SharedTaken ==
  ASSUME TypeOK, Shared, NEW h \in Handles, NEW p \in Nodes \cup {Null},
         NEW at \in [Handles -> Nodes \cup {Null}], Calls(Taken(h, p, at))
  PROVE  SharedStacks(at[h]) /\ ptr' = [at EXCEPT ![h] = p] /\ kind' = kind
<1>1. PICK result : result = Taken(h, p, at)
  OBVIOUS
<1>2. result.ptr = [at EXCEPT ![h] = p] /\ result.rest = GivenUp(at[h])
  BY <1>1 DEF Taken
<1>3. QED
  BY <1>1, <1>2 DEF Calls, SharedStacks

\* Every object a usable handle owns is whole.
LEMMA SharedUsable ==
  ASSUME IInv, Shared, NEW h \in Handles, Usable(h)
  PROVE  /\ Owns(h) = ptr[h] /\ ~Busy(h) /\ Exists(h) /\ Own[h] = Owns(h)
         /\ Owns(h) \in Nodes \cup {Null}
         /\ Owns(h) # Null => /\ h \in Sharing(Owns(h)) /\ Sharing(Owns(h)) # {}
                              /\ Whole(Owns(h)) /\ Owns(h) \in heap
<1>1. TypeOK /\ CountedOwners
  BY DEF IInv
<1>2. Owns(h) = ptr[h] /\ ~Busy(h) /\ Exists(h) /\ Own[h] = Owns(h) /\ Owns(h) \in Nodes \cup {Null}
  BY <1>1, UsableIs, OwnIs
<1>3. h \in Sharing(Owns(h))
  BY DEF Sharing
<1>4. ASSUME Owns(h) # Null
      PROVE  Whole(Owns(h)) /\ Owns(h) \in heap
  <2>1. PICK n \in Nodes : n = Owns(h)
    BY <1>2, <1>4
  <2>2. Whole(n)
    BY <1>1, <1>3, <2>1 DEF CountedOwners, Whole
  <2>3. QED
    BY <2>1, <2>2 DEF Whole, Alive
<1>5. QED
  BY <1>2, <1>3, <1>4

LEMMA SharedTake ==
  ASSUME IInv, Shared, NEW h \in Handles, Usable(h), NEW p \in Nodes \cup {Null},
         Calls(Taken(h, p, ptr)), raw' = raw, p \in heap => Whole(p),
         heap' = heap \cup ({p} \ {Null}),
         refs' \in [Nodes -> Nat],
         \A n \in Nodes : n \in heap' =>
           refs'[n] = (IF n \in heap THEN refs[n] ELSE 0) + One(p, n)
  PROVE  IInv'
<1>1. /\ TypeOK /\ StepsExist /\ ptr \in [Handles -> Nodes \cup {Null}] /\ Null \notin Nodes
      /\ heap \subseteq Nodes /\ raw \subseteq heap
  BY NestedOwnershipAssumption DEF IInv, TypeOK
<1>2. /\ Owns(h) = ptr[h] /\ ~Busy(h) /\ Exists(h) /\ Own[h] = Owns(h)
      /\ Owns(h) \in Nodes \cup {Null} /\ (Owns(h) # Null => Sharing(Owns(h)) # {})
  BY SharedUsable
<1>3. SharedStacks(ptr[h]) /\ ptr' = [ptr EXCEPT ![h] = p] /\ kind' = kind
  BY <1>1, SharedTaken
<1>4. PICK o \in Nodes \cup {Null} : o = Owns(h) /\ o = ptr[h] /\ SharedStacks(o)
  BY <1>2, <1>3
<1>5. todo' \in Seq(Entries)
  BY <1>1, <1>4, SharedStack
<1>6. TypeOK'
  BY <1>1, <1>3, <1>5 DEF TypeOK, Entries
<1>7. PICK f : f = Changed(Own, h, p) /\ f = [Own EXCEPT ![h] = p]
  BY DEF Changed
<1>8. /\ Own \in [Handles -> Nodes \cup {Null}] /\ \A x \in Handles : Own[x] = Owns(x)
      /\ \A n : OwnersIn(Own, n) = Sharing(n)
  BY <1>1, OwnIs
<1>9. f \in [Handles -> Nodes \cup {Null}]
  BY <1>7, <1>8
<1>10. Counts(f, o, p)
  <2>1. ASSUME NEW n \in Nodes
        PROVE  Cardinality(OwnersIn(f, n)) + One(o, n) = Cardinality(Sharing(n)) + One(p, n)
    <3>1. Cardinality(OwnersIn(f, n)) + One(Own[h], n) = Cardinality(OwnersIn(Own, n)) + One(p, n)
      <4>1. f = Changed(Own, h, p) /\ Own \in [Handles -> Nodes \cup {Null}]
        BY <1>7, <1>8
      <4>2. QED
        BY <4>1, OneChanges
    <3>2. QED
      BY <1>2, <1>4, <1>8, <3>1
  <2>2. QED
    BY <2>1 DEF Counts
<1>11. \A x \in Handles : IF Busy(x) THEN f[x] = Owns(x) ELSE f[x] = ptr'[x]
  <2> TAKE x \in Handles
  <2>1. CASE x = h
    BY <1>1, <1>2, <1>3, <1>7, <1>8, <2>1
  <2>2. CASE x # h
    <3>1. f[x] = Owns(x) /\ ptr'[x] = ptr[x]
      BY <1>1, <1>3, <1>7, <1>8, <2>2
    <3>2. ~Busy(x) => Owns(x) = ptr[x]
      BY <1>1, OwnsIs
    <3>3. QED
      BY <3>1, <3>2
  <2>3. QED
    BY <2>1, <2>2
<1>12. \A n \in Nodes \ heap' : ptr'[n] = Null
  <2>1. \A n \in Nodes \ heap : ptr[n] = Null /\ n \in Handles /\ n # h
    BY <1>1, <1>2, NestedOwnershipAssumption DEF StepsExist, Handles, Exists
  <2>2. QED
    BY <1>1, <1>3, <2>1
<1>13. o # Null => Sharing(o) # {}
  BY <1>2, <1>4
<1>14. QED
  BY <1>3, <1>4, <1>6, <1>9, <1>10, <1>11, <1>12, <1>13, SharedCallKeeps

LEMMA SharedMake ==
  ASSUME IInv, Shared, NEW h \in Handles, Make(h)
  PROVE  IInv'
<1>1. /\ TypeOK /\ StepsExist /\ ptr \in [Handles -> Nodes \cup {Null}] /\ Null \notin Nodes
      /\ heap \subseteq Nodes /\ refs \in [Nodes -> Nat] /\ Usable(h)
  BY NestedOwnershipAssumption DEF IInv, TypeOK, Make
<1>2. PICK n \in Nodes \ heap :
        /\ Calls(Taken(h, n, [ptr EXCEPT ![n] = Null]))
        /\ heap' = heap \cup {n} /\ raw' = raw
        /\ refs' = [refs EXCEPT ![n] = 1]
  BY DEF Make, FirstCount
<1>3. [ptr EXCEPT ![n] = Null] = ptr
  <2>1. n \in Handles /\ ptr[n] = Null
    BY <1>1 DEF StepsExist, Handles
  <2>2. QED
    BY <1>1, <2>1
<1>4. Calls(Taken(h, n, ptr))
  BY <1>2, <1>3
<1>5. refs' \in [Nodes -> Nat] /\ heap' = heap \cup ({n} \ {Null}) /\ n \in Nodes \cup {Null}
  BY <1>1, <1>2
<1>6. \A m \in Nodes : m \in heap' =>
        refs'[m] = (IF m \in heap THEN refs[m] ELSE 0) + One(n, m)
  <2> TAKE m \in Nodes
  <2> HAVE m \in heap'
  <2>1. CASE m = n
    BY <1>1, <1>2, <2>1 DEF One
  <2>2. CASE m # n
    BY <1>1, <1>2, <2>2 DEF One
  <2>3. QED
    BY <2>1, <2>2
<1>7. n \in heap => Whole(n)
  OBVIOUS
<1>8. QED
  BY <1>1, <1>2, <1>4, <1>5, <1>6, <1>7, SharedTake

LEMMA SharedReset ==
  ASSUME IInv, Shared, NEW h \in Handles, Reset(h)
  PROVE  IInv'
<1>1. /\ Null \notin Nodes /\ heap \subseteq Nodes /\ refs \in [Nodes -> Nat] /\ Usable(h)
      /\ Calls(Taken(h, Null, ptr)) /\ refs' = refs /\ heap' = heap /\ raw' = raw
  BY NestedOwnershipAssumption DEF IInv, TypeOK, Reset
<1>2. PICK p \in Nodes \cup {Null} : p = Null
  OBVIOUS
<1>3. refs' \in [Nodes -> Nat] /\ heap' = heap \cup ({p} \ {Null}) /\ (p \in heap => Whole(p))
      /\ Calls(Taken(h, p, ptr))
  BY <1>1, <1>2
<1>4. \A m \in Nodes : m \in heap' => refs'[m] = (IF m \in heap THEN refs[m] ELSE 0) + One(p, m)
  BY <1>1, <1>2 DEF One
<1>5. QED
  BY <1>1, <1>3, <1>4, SharedTake

LEMMA SharedCopy ==
  ASSUME IInv, NEW h \in Handles, NEW g \in Handles, Copy(h, g)
  PROVE  IInv'
<1>1. /\ Null \notin Nodes /\ heap \subseteq Nodes /\ refs \in [Nodes -> Nat] /\ Usable(h) /\ Usable(g)
      /\ Calls(Taken(h, ptr[g], ptr)) /\ refs' = Incremented(ptr[g]) /\ heap' = heap /\ raw' = raw
      /\ Shared
  BY NestedOwnershipAssumption DEF IInv, TypeOK, Copy
<1>2. PICK p \in Nodes \cup {Null} : p = ptr[g] /\ (p # Null => Whole(p) /\ p \in heap)
  BY <1>1, SharedUsable
<1>3. refs' = IF p = Null THEN refs ELSE [refs EXCEPT ![p] = refs[p] + 1]
  BY <1>1, <1>2 DEF Incremented
<1>4. refs' \in [Nodes -> Nat] /\ heap' = heap \cup ({p} \ {Null}) /\ (p \in heap => Whole(p))
      /\ Calls(Taken(h, p, ptr))
  <2>1. refs' \in [Nodes -> Nat]
    BY <1>1, <1>3
  <2>2. QED
    BY <1>1, <1>2, <2>1
<1>5. \A m \in Nodes : m \in heap' => refs'[m] = (IF m \in heap THEN refs[m] ELSE 0) + One(p, m)
  <2> TAKE m \in Nodes
  <2> HAVE m \in heap'
  <2>1. CASE m = p
    BY <1>1, <1>3, <2>1 DEF One
  <2>2. CASE m # p
    BY <1>1, <1>3, <2>2 DEF One
  <2>3. QED
    BY <2>1, <2>2
<1>6. QED
  BY <1>1, <1>4, <1>5, SharedTake

\* Two handles change: what is counted in the end.
Recounted(f, g, q, e, h, p, k, n) ==
  /\ e[h] = IF h = g THEN q ELSE f[h]
  /\ Cardinality(OwnersIn(k, n)) + One(e[h], n) + One(f[g], n)
       = Cardinality(OwnersIn(f, n)) + One(q, n) + One(p, n)

LEMMA TwoChange ==
  ASSUME NEW f \in [Handles -> Nodes \cup {Null}], NEW h \in Handles, NEW p \in Nodes \cup {Null},
         NEW g \in Handles, NEW q \in Nodes \cup {Null}, NEW n \in Nodes,
         NEW e, e = Changed(f, g, q), NEW k, k = Changed(e, h, p)
  PROVE  Recounted(f, g, q, e, h, p, k, n)
<1>1. e = Changed(f, g, q) /\ k = Changed(e, h, p)
  OBVIOUS
<1>2. /\ e \in [Handles -> Nodes \cup {Null}] /\ Cardinality(OwnersIn(e, n)) \in Nat
      /\ Cardinality(OwnersIn(f, n)) \in Nat
      /\ Cardinality(OwnersIn(e, n)) + One(f[g], n) = Cardinality(OwnersIn(f, n)) + One(q, n)
  BY <1>1, OneChanges
<1>3. /\ k \in [Handles -> Nodes \cup {Null}] /\ Cardinality(OwnersIn(k, n)) \in Nat
      /\ Cardinality(OwnersIn(k, n)) + One(e[h], n) = Cardinality(OwnersIn(e, n)) + One(p, n)
  BY <1>1, <1>2, OneChanges
<1>4. \A a, b : One(a, b) \in {0, 1}
  BY DEF One
<1>5. Cardinality(OwnersIn(k, n)) + One(e[h], n) + One(f[g], n)
        = Cardinality(OwnersIn(f, n)) + One(q, n) + One(p, n)
  <2>1. PICK a, b, c, d : a = One(e[h], n) /\ b = One(f[g], n) /\ c = One(q, n) /\ d = One(p, n)
    OBVIOUS
  <2>2. a \in {0, 1} /\ b \in {0, 1} /\ c \in {0, 1} /\ d \in {0, 1}
    BY <1>4, <2>1
  <2>3. QED
    BY <1>2, <1>3, <2>1, <2>2
<1>6. e[h] = IF h = g THEN q ELSE f[h]
  BY DEF Changed
<1>7. QED
  BY <1>5, <1>6 DEF Recounted

LEMMA SharedMove ==
  ASSUME IInv, Shared, NEW h \in Handles, NEW g \in Handles, Move(h, g)
  PROVE  IInv'
<1>1. /\ TypeOK /\ StepsExist /\ ptr \in [Handles -> Nodes \cup {Null}] /\ Null \notin Nodes
      /\ heap \subseteq Nodes /\ Usable(h) /\ Usable(g) /\ raw \subseteq heap
      /\ refs \in [Nodes -> Nat] /\ refs' = refs /\ heap' = heap /\ raw' = raw
  BY NestedOwnershipAssumption DEF IInv, TypeOK, Move
<1>2. /\ Owns(h) = ptr[h] /\ ~Busy(h) /\ Exists(h) /\ Own[h] = Owns(h)
      /\ Owns(h) \in Nodes \cup {Null} /\ (Owns(h) # Null => Sharing(Owns(h)) # {})
      /\ Owns(g) = ptr[g] /\ ~Busy(g) /\ Exists(g) /\ Own[g] = Owns(g)
      /\ Owns(g) \in Nodes \cup {Null}
  BY <1>1, SharedUsable
<1>3. PICK at : at = [ptr EXCEPT ![g] = Null]
  OBVIOUS
<1>4. Calls(Taken(h, ptr[g], at)) /\ at \in [Handles -> Nodes \cup {Null}] /\ ptr[g] \in Nodes \cup {Null}
  BY <1>1, <1>3 DEF Move, Moved, Shared
<1>5. SharedStacks(at[h]) /\ ptr' = [at EXCEPT ![h] = ptr[g]] /\ kind' = kind
  BY <1>1, <1>4, SharedTaken
<1>6. PICK o \in Nodes \cup {Null} : o = at[h] /\ o = IF h = g THEN Null ELSE Owns(h)
  BY <1>1, <1>2, <1>3, <1>4
<1>7. SharedStacks(o)
  BY <1>5, <1>6
<1>8. todo' \in Seq(Entries)
  BY <1>1, <1>7, SharedStack
<1>9. ptr' \in [Handles -> Nodes \cup {Null}]
      /\ \A x \in Handles : ptr'[x] = IF x = h THEN ptr[g] ELSE IF x = g THEN Null ELSE ptr[x]
  BY <1>1, <1>3, <1>4, <1>5
<1>10. TypeOK'
  BY <1>1, <1>5, <1>8, <1>9 DEF TypeOK, Entries
<1>11. /\ Own \in [Handles -> Nodes \cup {Null}] /\ \A x \in Handles : Own[x] = Owns(x)
       /\ \A n : OwnersIn(Own, n) = Sharing(n)
  BY <1>1, OwnIs
<1>12. PICK p, z \in Nodes \cup {Null} : p = Owns(g) /\ z = Null
  BY <1>2
<1>13. PICK e, f : e = Changed(Own, g, z) /\ f = Changed(e, h, p)
  OBVIOUS
<1>14. f \in [Handles -> Nodes \cup {Null}]
       /\ \A x \in Handles : f[x] = IF x = h THEN p ELSE IF x = g THEN z ELSE Own[x]
  <2>1. e \in [Handles -> Nodes \cup {Null}] /\ \A x \in Handles : e[x] = IF x = g THEN z ELSE Own[x]
    BY <1>11, <1>13 DEF Changed
  <2>2. QED
    BY <1>13, <2>1 DEF Changed
<1>15. Counts(f, o, z)
  <2>1. ASSUME NEW n \in Nodes
        PROVE  Cardinality(OwnersIn(f, n)) + One(o, n) = Cardinality(Sharing(n)) + One(z, n)
    <3>1. /\ e[h] = IF h = g THEN z ELSE Own[h]
          /\ Cardinality(OwnersIn(f, n)) + One(e[h], n) + One(Own[g], n)
               = Cardinality(OwnersIn(Own, n)) + One(z, n) + One(p, n)
      <4>1. /\ Own \in [Handles -> Nodes \cup {Null}]
            /\ e = Changed(Own, g, z) /\ f = Changed(e, h, p)
        BY <1>11, <1>13
      <4>2. Recounted(Own, g, z, e, h, p, f, n)
        BY <4>1, TwoChange
      <4>3. QED
        BY <4>2 DEF Recounted
    <3>2. e[h] = o /\ Own[g] = p /\ OwnersIn(Own, n) = Sharing(n)
      BY <1>2, <1>6, <1>11, <1>12, <3>1
    <3>3. Cardinality(OwnersIn(f, n)) \in Nat /\ Cardinality(Sharing(n)) \in Nat
      BY FiniteOwners DEF OwnersIn, Sharing
    <3>4. One(o, n) \in {0, 1} /\ One(p, n) \in {0, 1} /\ One(z, n) \in {0, 1}
      BY DEF One
    <3>5. QED
      BY <3>1, <3>2, <3>3, <3>4
  <2>2. \A n \in Nodes : n \in heap' => refs'[n] = (IF n \in heap THEN refs[n] ELSE 0) + One(z, n)
    BY <1>1, <1>12 DEF One
  <2>3. QED
    BY <2>1, <2>2 DEF Counts
<1>16. \A x \in Handles : IF Busy(x) THEN f[x] = Owns(x) ELSE f[x] = ptr'[x]
  <2> TAKE x \in Handles
  <2>1. CASE x = h \/ x = g
    BY <1>2, <1>9, <1>12, <1>14, <2>1
  <2>2. CASE x # h /\ x # g
    <3>1. f[x] = Owns(x) /\ ptr'[x] = ptr[x]
      BY <1>9, <1>11, <1>14, <2>2
    <3>2. ~Busy(x) => Owns(x) = ptr[x]
      BY <1>1, OwnsIs
    <3>3. QED
      BY <3>1, <3>2
  <2>3. QED
    BY <2>1, <2>2
<1>17. \A n \in Nodes \ heap' : ptr'[n] = Null
  <2>1. \A n \in Nodes \ heap : ptr[n] = Null /\ n \in Handles /\ n # h
    BY <1>1, <1>2, NestedOwnershipAssumption DEF StepsExist, Handles, Exists
  <2>2. QED
    BY <1>1, <1>9, <2>1
<1>18. (o # Null => Sharing(o) # {}) /\ heap' = heap \cup ({z} \ {Null}) /\ (z \in heap => Whole(z))
  BY <1>1, <1>2, <1>6, <1>12
<1>19. QED
  BY <1>1, <1>5, <1>7, <1>10, <1>14, <1>15, <1>16, <1>17, <1>18, SharedCallKeeps

LEMMA SharedSwap ==
  ASSUME IInv, Shared, NEW h \in Handles, NEW g \in Handles, Swap(h, g)
  PROVE  IInv'
<1>1. /\ TypeOK /\ StepsExist /\ ptr \in [Handles -> Nodes \cup {Null}] /\ Null \notin Nodes
      /\ heap \subseteq Nodes /\ h # g /\ Usable(h) /\ Usable(g) /\ raw \subseteq heap
      /\ refs \in [Nodes -> Nat] /\ refs' = refs /\ heap' = heap /\ raw' = raw
  BY NestedOwnershipAssumption DEF IInv, TypeOK, Swap
<1>2. /\ Owns(h) = ptr[h] /\ ~Busy(h) /\ Exists(h) /\ Own[h] = Owns(h)
      /\ Owns(h) \in Nodes \cup {Null}
      /\ Owns(g) = ptr[g] /\ ~Busy(g) /\ Exists(g) /\ Own[g] = Owns(g)
      /\ Owns(g) \in Nodes \cup {Null}
  BY <1>1, SharedUsable
<1>3. ptr' = [ptr EXCEPT ![h] = ptr[g], ![g] = ptr[h]] /\ Calls([ptr |-> ptr', rest |-> <<>>])
  BY DEF Swap, Calls
<1>4. PICK z \in Nodes \cup {Null} : z = Null
  OBVIOUS
<1>5. SharedStacks(z) /\ kind' = kind
  BY <1>3, <1>4 DEF Calls, SharedStacks, GivenUp
<1>6. todo' \in Seq(Entries)
  BY <1>1, <1>5, SharedStack
<1>7. ptr' \in [Handles -> Nodes \cup {Null}]
      /\ \A x \in Handles : ptr'[x] = IF x = h THEN ptr[g] ELSE IF x = g THEN ptr[h] ELSE ptr[x]
  BY <1>1, <1>3
<1>8. TypeOK'
  BY <1>1, <1>5, <1>6, <1>7 DEF TypeOK, Entries
<1>9. /\ Own \in [Handles -> Nodes \cup {Null}] /\ \A x \in Handles : Own[x] = Owns(x)
      /\ \A n : OwnersIn(Own, n) = Sharing(n)
  BY <1>1, OwnIs
<1>10. PICK p, q \in Nodes \cup {Null} : p = Owns(g) /\ q = Owns(h)
  BY <1>2
<1>11. PICK e, f : e = Changed(Own, g, q) /\ f = Changed(e, h, p)
  OBVIOUS
<1>12. f \in [Handles -> Nodes \cup {Null}]
       /\ \A x \in Handles : f[x] = IF x = h THEN p ELSE IF x = g THEN q ELSE Own[x]
  <2>1. e \in [Handles -> Nodes \cup {Null}] /\ \A x \in Handles : e[x] = IF x = g THEN q ELSE Own[x]
    BY <1>9, <1>11 DEF Changed
  <2>2. QED
    BY <1>11, <2>1 DEF Changed
<1>13. Counts(f, z, z)
  <2>1. ASSUME NEW n \in Nodes
        PROVE  Cardinality(OwnersIn(f, n)) + One(z, n) = Cardinality(Sharing(n)) + One(z, n)
    <3>1. /\ e[h] = IF h = g THEN q ELSE Own[h]
          /\ Cardinality(OwnersIn(f, n)) + One(e[h], n) + One(Own[g], n)
               = Cardinality(OwnersIn(Own, n)) + One(q, n) + One(p, n)
      <4>1. /\ Own \in [Handles -> Nodes \cup {Null}]
            /\ e = Changed(Own, g, q) /\ f = Changed(e, h, p)
        BY <1>9, <1>11
      <4>2. Recounted(Own, g, q, e, h, p, f, n)
        BY <4>1, TwoChange
      <4>3. QED
        BY <4>2 DEF Recounted
    <3>2. e[h] = q /\ Own[g] = p /\ OwnersIn(Own, n) = Sharing(n)
      BY <1>1, <1>2, <1>9, <1>10, <3>1
    <3>3. Cardinality(OwnersIn(f, n)) \in Nat /\ Cardinality(Sharing(n)) \in Nat
      BY FiniteOwners DEF OwnersIn, Sharing
    <3>4. One(q, n) \in {0, 1} /\ One(p, n) \in {0, 1} /\ One(z, n) \in {0, 1}
      BY DEF One
    <3>5. QED
      BY <3>1, <3>2, <3>3, <3>4
  <2>2. \A n \in Nodes : n \in heap' => refs'[n] = (IF n \in heap THEN refs[n] ELSE 0) + One(z, n)
    BY <1>1, <1>4 DEF One
  <2>3. QED
    BY <2>1, <2>2 DEF Counts
<1>14. \A x \in Handles : IF Busy(x) THEN f[x] = Owns(x) ELSE f[x] = ptr'[x]
  <2> TAKE x \in Handles
  <2>1. CASE x = h \/ x = g
    BY <1>2, <1>7, <1>10, <1>12, <2>1
  <2>2. CASE x # h /\ x # g
    <3>1. f[x] = Owns(x) /\ ptr'[x] = ptr[x]
      BY <1>7, <1>9, <1>12, <2>2
    <3>2. ~Busy(x) => Owns(x) = ptr[x]
      BY <1>1, OwnsIs
    <3>3. QED
      BY <3>1, <3>2
  <2>3. QED
    BY <2>1, <2>2
<1>15. \A n \in Nodes \ heap' : ptr'[n] = Null
  <2>1. \A n \in Nodes \ heap : ptr[n] = Null /\ n \in Handles /\ n # h /\ n # g
    BY <1>1, <1>2, NestedOwnershipAssumption DEF StepsExist, Handles, Exists
  <2>2. QED
    BY <1>1, <1>7, <2>1
<1>16. (z # Null => Sharing(z) # {}) /\ heap' = heap \cup ({z} \ {Null}) /\ (z \in heap => Whole(z))
  BY <1>1, <1>4
<1>17. QED
  BY <1>1, <1>5, <1>8, <1>12, <1>13, <1>14, <1>15, <1>16, SharedCallKeeps

\* The last step is done.
LEMMA AtRemoved ==
  ASSUME TypeOK, TypeOK', NEW D, Inner(D), NEW op, NEW n, Step(D).op = op, Step(D).at = n,
         Depth' = D => ~(Step(D)'.op = op /\ Step(D)'.at = n)
  PROVE  /\ At(op, n) # {}
         /\ Cardinality(At(op, n)') + 1 = Cardinality(At(op, n))
<1>1. D \in Nat /\ D = Depth /\ D > 0 /\ Kept(D - 1) /\ Depth' \in {D - 1, D}
  BY DEF Inner
<1>2. PICK B \in Nat : B = D - 1 /\ Kept(B)
  BY <1>1
<1>3. D \in At(op, n)
  BY <1>1 DEF At
<1>4. At(op, n)' = At(op, n) \ {D}
  <2>1. /\ \A d \in At(op, n) : d <= B => d \in At(op, n)'
        /\ \A d \in At(op, n)' : IF d <= B THEN d \in At(op, n)
                                 ELSE d \in (B + 1)..Depth' /\ Step(d)'.op = op /\ Step(d)'.at = n
    BY <1>2, AtSplit
  <2>2. \A d \in At(op, n) : d \in 1..Depth
    BY DEF At
  <2>3. ASSUME NEW d \in At(op, n)', ~(d <= B)
        PROVE  FALSE
    <3>1. d \in (B + 1)..Depth' /\ Step(d)'.op = op /\ Step(d)'.at = n
      BY <2>1, <2>3
    <3>2. d = D /\ Depth' = D
      BY <1>1, <1>2, <3>1
    <3>3. QED
      BY <3>1, <3>2
  <2>4. ASSUME NEW d \in At(op, n)'
        PROVE  d \in At(op, n) \ {D}
    <3>1. d <= B /\ d \in At(op, n)
      BY <2>1, <2>3, <2>4
    <3>2. d # D
      BY <1>1, <1>2, <3>1
    <3>3. QED
      BY <3>1, <3>2
  <2>5. ASSUME NEW d \in At(op, n) \ {D}
        PROVE  d \in At(op, n)'
    <3>1. d <= B
      BY <1>1, <1>2, <2>2, <2>5
    <3>2. QED
      BY <2>1, <2>5, <3>1
  <2>6. QED
    BY <2>4, <2>5
<1>5. IsFiniteSet(At(op, n)) /\ Cardinality(At(op, n)) \in Nat
  BY FiniteAt
<1>6. Cardinality(At(op, n) \ {D}) = Cardinality(At(op, n)) - 1
  BY <1>3, <1>5, FS_RemoveElement
<1>7. QED
  BY <1>3, <1>4, <1>5, <1>6

LEMMA ReleaseShareKeeps ==
  ASSUME IInv, ReleaseShare
  PROVE  IInv'
<1>1. /\ TypeOK /\ StepsExist /\ CountedOwners /\ Goes("release") /\ ptr' = ptr /\ heap' = heap
      /\ Null \notin Nodes /\ heap \subseteq Nodes /\ refs \in [Nodes -> Nat]
      /\ Then(IF IsLast(This) THEN <<Delete(This)>> ELSE <<>>)
      /\ refs' = [refs EXCEPT ![This] = refs[This] - 1]
  BY NestedOwnershipAssumption DEF IInv, ReleaseShare, TypeOK
<1>2. This \in Handles
  <2>1. Depth \in Nat /\ Depth > 0 /\ Head(todo) = Step(Depth)
    <3>1. todo \in Seq(Entries) /\ todo # <<>>
      BY <1>1 DEF TypeOK, Entries, Goes
    <3>2. Depth + 1 - Depth = 1 /\ Depth \in Nat /\ Depth > 0
      BY <3>1 DEF Depth
    <3>3. QED
      BY <3>1, <3>2 DEF Step
  <2>2. QED
    BY <1>1, <2>1, StepTypes DEF This
<1>3. PICK last \in BOOLEAN, n \in Handles : n = This /\ (last <=> refs[n] = 1)
  BY <1>2
<1>4. PICK rest \in Seq(Entries) : /\ Then(rest)
                                   /\ IF last THEN Len(rest) = 1 /\ rest[1] = Delete(n)
                                      ELSE Len(rest) = 0
  <2>1. CASE last
    <3>1. Delete(n) \in Entries
      BY DEF Delete, Entries, Ops
    <3>2. PICK rest : rest = <<Delete(n)>>
      OBVIOUS
    <3>3. rest \in Seq(Entries) /\ Len(rest) = 1 /\ rest[1] = Delete(n)
      BY <3>1, <3>2
    <3>4. IsLast(This)
      BY <1>3, <2>1 DEF IsLast
    <3>5. Then(rest)
      BY <1>1, <1>3, <3>2, <3>4
    <3>6. QED
      BY <2>1, <3>3, <3>5
  <2>2. CASE ~last
    <3>1. PICK rest : rest = <<>>
      OBVIOUS
    <3>2. rest \in Seq(Entries) /\ Len(rest) = 0
      BY <3>1
    <3>3. ~IsLast(This)
      BY <1>3, <2>2 DEF IsLast
    <3>4. Then(rest)
      BY <1>1, <3>1, <3>3
    <3>5. QED
      BY <2>2, <3>2, <3>4
  <2>3. QED
    BY <2>1, <2>2
<1>5. PICK D \in Nat, m \in Handles :
           /\ D = Depth /\ D > 0 /\ m = This /\ kind' = kind /\ raw' = raw
           /\ Head(todo) = Step(D) /\ Step(D).op = "release" /\ Step(D).at = m
           /\ todo' \in Seq(Entries) /\ Depth' = (D - 1) + Len(rest) /\ Len(rest) \in Nat
           /\ Kept(D - 1)
           /\ \A k \in 1..Len(rest) : Step((D - 1) + k)' = rest[Len(rest) + 1 - k]
  <2>1. TypeOK /\ Goes("release") /\ Then(rest)
    BY <1>1, <1>4
  <2>2. QED
    BY <2>1, ThenStack
<1>6. m = n /\ D \in 1..Depth
  BY <1>3, <1>5
<1>7. IF last THEN Depth' = D /\ Step(D)' = Delete(n) ELSE Depth' = D - 1
  <2>1. CASE last
    <3>1. Len(rest) = 1 /\ rest[1] = Delete(n)
      BY <1>4, <2>1
    <3>2. 1 \in 1..1 /\ (D - 1) + 1 = D /\ 1 + 1 - 1 = 1
      OBVIOUS
    <3>3. Depth' = D /\ Step((D - 1) + 1)' = rest[1 + 1 - 1]
      BY <1>5, <3>1, <3>2
    <3>4. QED
      BY <2>1, <3>1, <3>2, <3>3
  <2>2. CASE ~last
    BY <1>4, <1>5, <2>2
  <2>3. QED
    BY <2>1, <2>2
<1>8. Inner(D) /\ (Depth' = D => last /\ Step(D)' = Delete(n))
  BY <1>5, <1>7 DEF Inner
<1>9. Delete(n).op = "delete" /\ Delete(n).at = n /\ Delete(n).to = Null
  BY DEF Delete
<1>10. Shared /\ n \in heap /\ n \in Nodes
  BY <1>1, <1>5, <1>6 DEF StepsExist
<1>11. TypeOK'
  <2>1. \A k \in Nodes : refs[k] - 1 \in Nat \/ refs[k] = 0
    BY <1>1
  <2>2. refs[n] # 0
    <3>1. At("release", n) # {}
      BY <1>5, <1>6 DEF At
    <3>2. QED
      BY <1>1, <1>10, <3>1 DEF CountedOwners
  <2>3. refs' \in [Nodes -> Nat]
    BY <1>1, <1>3, <1>10, <2>1, <2>2
  <2>4. QED
    BY <1>1, <1>5, <2>3 DEF TypeOK, Entries
<1>12. /\ At("release", n) # {}
       /\ Cardinality(At("release", n)') + 1 = Cardinality(At("release", n))
  <2>1. Depth' = D => ~(Step(D)'.op = "release" /\ Step(D)'.at = n)
    BY <1>8, <1>9
  <2>2. QED
    BY <1>1, <1>5, <1>6, <1>8, <1>11, <2>1, AtRemoved
<1>13. Whole(n) /\ refs[n] = Cardinality(Sharing(n)) + Cardinality(At("release", n))
  BY <1>1, <1>10, <1>12 DEF CountedOwners, Whole
<1>14. ASSUME NEW op, NEW x, op # "release" \/ x # n, ~(last /\ op = "delete" /\ x = n)
       PROVE  At(op, x)' = At(op, x)
  <2>1. Depth' = D => ~(Step(D)'.op = op /\ Step(D)'.at = x)
    BY <1>8, <1>9, <1>14
  <2>2. ~(Step(D).op = op /\ Step(D).at = x)
    BY <1>5, <1>6, <1>14
  <2>3. QED
    BY <1>1, <1>8, <1>11, <2>1, <2>2, InnerAt
<1>15. \A x \in Handles : Owns(x)' = Owns(x)
  <2> TAKE x \in Handles
  <2>1. At("free", x)' = At("free", x) /\ At("members", x)' = At("members", x)
    BY <1>14
  <2>2. Step(D).op # "store" /\ (Depth' = D => Step(D)'.op # "store") /\ ptr'[x] = ptr[x]
    BY <1>1, <1>5, <1>8, <1>9
  <2>3. QED
    BY <1>1, <1>8, <1>11, <2>1, <2>2, InnerOwns
<1>16. \A k : Sharing(k)' = Sharing(k)
  BY <1>15 DEF Sharing
<1>17. last => At("delete", n)' # {}
  <2>1. ASSUME last
        PROVE  D \in At("delete", n)'
    BY <1>5, <1>7, <1>9, <2>1 DEF At
  <2>2. QED
    BY <2>1
<1>18. Shared' /\ raw' = {}
  BY <1>1, <1>5, <1>10 DEF Shared, CountedOwners
<1>19. CountedOwners'
  <2>1. ASSUME NEW k \in Nodes
        PROVE  (IF Whole(k)
                THEN /\ refs[k] = Cardinality(Sharing(k)) + Cardinality(At("release", k))
                     /\ refs[k] > 0
                ELSE Sharing(k) = {} /\ At("release", k) = {})'
    <3>1. CASE k # n
      <4>1. At("release", k)' = At("release", k) /\ At("delete", k)' = At("delete", k)
            /\ At("free", k)' = At("free", k) /\ refs'[k] = refs[k]
        BY <1>1, <1>3, <1>14, <3>1
      <4>2. Whole(k)' <=> Whole(k)
        BY <1>1, <4>1 DEF Whole, Alive
      <4>3. IF Whole(k) THEN /\ refs[k] = Cardinality(Sharing(k)) + Cardinality(At("release", k))
                             /\ refs[k] > 0
            ELSE Sharing(k) = {} /\ At("release", k) = {}
        BY <1>1, <1>10 DEF CountedOwners, Whole
      <4>4. QED
        BY <1>16, <4>1, <4>2, <4>3
    <3>2. CASE k = n /\ last
      <4>1. ~Whole(k)'
        BY <1>17, <3>2 DEF Whole
      <4>2. PICK a, b, c \in Nat : /\ a = Cardinality(Sharing(n)) /\ b = Cardinality(At("release", n))
                                    /\ c = Cardinality(At("release", n)')
                                    /\ (a = 0 => Sharing(n) = {}) /\ (c = 0 => At("release", n)' = {})
        <5>1. Cardinality(Sharing(n)) \in Nat /\ (Cardinality(Sharing(n)) = 0 => Sharing(n) = {})
          BY FiniteOwners DEF Sharing
        <5>2. Cardinality(At("release", n)) \in Nat
          BY <1>1, FiniteAt
        <5>3. /\ Cardinality(At("release", n)') \in Nat
              /\ Cardinality(At("release", n)') = 0 => At("release", n)' = {}
          BY <1>11, FiniteAtNext
        <5>4. QED
          BY <5>1, <5>2, <5>3
      <4>3. a + b = 1 /\ c + 1 = b
        BY <1>3, <1>12, <1>13, <3>2, <4>2
      <4>4. a = 0 /\ c = 0
        BY <4>3
      <4>5. QED
        BY <1>16, <3>2, <4>1, <4>2, <4>4
    <3>3. CASE k = n /\ ~last
      <4>1. At("delete", n)' = At("delete", n) /\ At("free", n)' = At("free", n)
        BY <1>14, <3>3
      <4>2. Whole(n)'
        BY <1>1, <1>13, <4>1 DEF Whole, Alive
      <4>3. refs[n] \in Nat /\ refs'[n] = refs[n] - 1 /\ refs[n] # 1 /\ refs[n] > 0
        BY <1>1, <1>3, <1>10, <1>13, <3>3 DEF CountedOwners, Whole
      <4>4. Cardinality(Sharing(n)) \in Nat /\ Cardinality(At("release", n)) \in Nat
        BY <1>1, FiniteOwners, FiniteAt DEF Sharing
      <4>5. Cardinality(At("release", n)') = Cardinality(At("release", n)) - 1
        <5>1. Cardinality(At("release", n)') \in Nat
          BY <1>11, FiniteAtNext
        <5>2. QED
          BY <1>12, <4>4, <5>1
      <4>6. refs'[n] = Cardinality(Sharing(n)) + Cardinality(At("release", n)') /\ refs'[n] > 0
        BY <1>13, <4>3, <4>4, <4>5
      <4>7. QED
        BY <1>16, <3>3, <4>2, <4>6
    <3>4. QED
      BY <3>1, <3>2, <3>3
  <2>2. QED
    BY <1>18, <2>1 DEF CountedOwners, Whole
<1>20. StepsExist' /\ PartsInOrder' /\ EndsOnce' /\ StoresBeforeMembers' /\ StoresBeforeDeletion'
  <2>1. Depth' = D => /\ Step(D)'.op \in {"delete", "release"}
                      /\ Step(D)'.at \in heap' /\ Step(D)'.to = Null
                      /\ Step(D)'.op = "release" => Shared
    BY <1>1, <1>8, <1>9, <1>10
  <2>2. \A d \in 1..(D - 1) : Step(d).op \in {"delete", "free"} => Step(d).at # n
    <3>1. At("delete", n) = {} /\ At("free", n) = {}
      BY <1>13 DEF Whole, Alive
    <3>2. QED
      BY <1>5, <3>1 DEF At
  <2>3. Depth' = D /\ Step(D)'.op = "delete" =>
          /\ \A d \in 1..(D - 1) : Step(d).op \in {"delete", "free"} => Step(d).at # Step(D)'.at
          /\ ~Shared => \E S \in SUBSET Nodes : Step(D)'.at \in S \cup {Null} /\ WrittenBefore(S, D)
    BY <1>8, <1>9, <1>10, <2>2
  <2>4. /\ \A d \in 1..(D - 1) : Step(d).at \in heap => Step(d).at \in heap'
        /\ \A k \in Nodes \ heap' : ptr'[k] = Null
        /\ (~Shared => \A x \in Handles : Owns(x)' \in {Owns(x), Null})
    BY <1>1, <1>10 DEF StepsExist
  <2>5. QED
    BY <1>5, <1>8, <1>11, <2>1, <2>3, <2>4, InnerKeeps
<1>21. QED
  BY <1>11, <1>18, <1>19, <1>20 DEF IInv, UniqueOwner

\* What destroying the member of n leaves to do, and what the handles own then.
Dropped(D, n, q) ==
  /\ Inner(D) /\ kind' = kind /\ raw' = raw /\ ptr' = ptr /\ refs' = refs /\ heap' = heap
  /\ D \in 1..Depth /\ Step(D).op = "members" /\ Step(D).at = n /\ n \in heap
  /\ IF q = Null THEN Depth' = D - 1
     ELSE Depth' = D /\ Step(D)' = IF Shared THEN Release(q) ELSE Delete(q)
  /\ TypeOK'
  /\ Owns(n) = q /\ Owns(n)' = Null
  /\ \A x \in Handles \ {n} : Owns(x)' = Owns(x)
  /\ \A x : At("free", x)' = At("free", x)

LEMMA MemberDropped ==
  ASSUME IInv, DestroyMembers
  PROVE  \E D \in Nat, n \in Nodes, q \in Nodes \cup {Null} : Dropped(D, n, q)
<1>1. /\ TypeOK /\ StepsExist /\ Goes("members") /\ Then(GivenUp(ptr[This]))
      /\ ptr' = ptr /\ refs' = refs /\ heap' = heap
      /\ Null \notin Nodes /\ heap \subseteq Nodes /\ ptr \in [Handles -> Nodes \cup {Null}]
  BY NestedOwnershipAssumption DEF IInv, DestroyMembers, TypeOK
<1>2. This \in Handles
  <2>1. Depth \in Nat /\ Depth > 0 /\ Head(todo) = Step(Depth)
    <3>1. todo \in Seq(Entries) /\ todo # <<>>
      BY <1>1 DEF TypeOK, Entries, Goes
    <3>2. Depth + 1 - Depth = 1 /\ Depth \in Nat /\ Depth > 0
      BY <3>1 DEF Depth
    <3>3. QED
      BY <3>1, <3>2 DEF Step
  <2>2. QED
    BY <1>1, <2>1, StepTypes DEF This
<1>3. PICK n \in Handles : n = This
  BY <1>2
<1>4. PICK q \in Nodes \cup {Null} : q = ptr[n] /\ Then(GivenUp(q))
  BY <1>1, <1>3
<1>5. PICK rest \in Seq(Entries) :
        /\ Then(rest)
        /\ IF q = Null THEN Len(rest) = 0
           ELSE Len(rest) = 1 /\ rest[1] = IF Shared THEN Release(q) ELSE Delete(q)
  <2>1. CASE q = Null
    <3>1. PICK rest : rest = <<>>
      OBVIOUS
    <3>2. rest \in Seq(Entries) /\ Len(rest) = 0
      BY <3>1
    <3>3. Then(rest)
      BY <1>4, <2>1, <3>1 DEF GivenUp
    <3>4. QED
      BY <2>1, <3>2, <3>3
  <2>2. CASE q # Null
    <3>1. Release(q) \in Entries /\ Delete(q) \in Entries
      BY <2>2 DEF Delete, Release, Entries, Ops, Handles
    <3>2. PICK s \in Entries : s = IF Shared THEN Release(q) ELSE Delete(q)
      BY <3>1
    <3>3. PICK rest : rest = <<s>>
      OBVIOUS
    <3>4. rest \in Seq(Entries) /\ Len(rest) = 1 /\ rest[1] = s
      BY <3>3
    <3>5. Then(rest)
      BY <1>4, <2>2, <3>2, <3>3 DEF GivenUp
    <3>6. QED
      BY <2>2, <3>2, <3>4, <3>5
  <2>3. QED
    BY <2>1, <2>2
<1>6. PICK D \in Nat, m \in Handles :
           /\ D = Depth /\ D > 0 /\ m = This /\ kind' = kind /\ raw' = raw
           /\ Head(todo) = Step(D) /\ Step(D).op = "members" /\ Step(D).at = m
           /\ todo' \in Seq(Entries) /\ Depth' = (D - 1) + Len(rest) /\ Len(rest) \in Nat
           /\ Kept(D - 1)
           /\ \A k \in 1..Len(rest) : Step((D - 1) + k)' = rest[Len(rest) + 1 - k]
  <2>1. TypeOK /\ Goes("members") /\ Then(rest)
    BY <1>1, <1>5
  <2>2. QED
    BY <2>1, ThenStack
<1>7. m = n /\ D \in 1..Depth
  BY <1>3, <1>6
<1>8. n \in heap /\ n \in Nodes
  BY <1>1, <1>6, <1>7 DEF StepsExist
<1>9. IF q = Null THEN Depth' = D - 1
      ELSE Depth' = D /\ Step(D)' = IF Shared THEN Release(q) ELSE Delete(q)
  <2>1. CASE q # Null
    <3>1. Len(rest) = 1 /\ rest[1] = IF Shared THEN Release(q) ELSE Delete(q)
      BY <1>5, <2>1
    <3>2. 1 \in 1..1 /\ (D - 1) + 1 = D /\ 1 + 1 - 1 = 1
      OBVIOUS
    <3>3. Depth' = D /\ Step((D - 1) + 1)' = rest[1 + 1 - 1]
      BY <1>6, <3>1, <3>2
    <3>4. QED
      BY <2>1, <3>1, <3>2, <3>3
  <2>2. CASE q = Null
    BY <1>5, <1>6, <2>2
  <2>3. QED
    BY <2>1, <2>2
<1>10. Inner(D)
  BY <1>6, <1>9 DEF Inner
<1>11. Depth' = D => Step(D)'.op \in {"release", "delete"}
  BY <1>6, <1>9 DEF Release, Delete
<1>12. TypeOK'
  BY <1>1, <1>6 DEF TypeOK, Entries
<1>13. /\ D - 1 \in 1..Depth /\ Step(D - 1) = Free(n) /\ At("store", n) = {}
       /\ \A d \in 1..Depth : Step(d).op = "members" /\ Step(d).at = n => d = D
  <2>1. D \in 1..Depth /\ Step(D).at = n /\ D = Depth /\ Step(D).op = "members"
    BY <1>6, <1>7
  <2>2. QED
    BY <2>1, DestructionIs
<1>14. \A x : At("free", x)' = At("free", x) /\ At("store", x)' = At("store", x)
  <2>1. ASSUME NEW op \in {"free", "store"}, NEW x
        PROVE  At(op, x)' = At(op, x)
    <3>1. ~(Step(D).op = op /\ Step(D).at = x) /\ (Depth' = D => ~(Step(D)'.op = op /\ Step(D)'.at = x))
      BY <1>6, <1>11
    <3>2. QED
      BY <1>1, <1>10, <1>12, <3>1, InnerAt
  <2>2. QED
    BY <2>1
<1>15. At("members", n)' = {} /\ At("members", n) # {} /\ At("free", n) # {}
  <2>1. D \in At("members", n) /\ D - 1 \in At("free", n)
    BY <1>6, <1>7, <1>13 DEF At, Free
  <2>2. \A d \in 1..(D - 1) : ~(Step(d).op = "members" /\ Step(d).at = n)
    BY <1>6, <1>13
  <2>3. QED
    BY <1>1, <1>10, <1>11, <1>12, <2>1, <2>2, InnerAt
<1>16. Owns(n) = q
  <2>1. ~Busy(n)
    BY <1>1, <1>13, <1>15, OwnsIs
  <2>2. QED
    BY <1>1, <1>4, <2>1, OwnsIs
<1>17. Owns(n)' = Null
  BY <1>12, <1>13, <1>14, <1>15, OwnsIsNext
<1>18. \A x \in Handles \ {n} : Owns(x)' = Owns(x)
  <2> TAKE x \in Handles \ {n}
  <2>1. At("members", x)' = At("members", x)
    BY <1>1, <1>6, <1>7, <1>10, <1>11, <1>12, InnerAt
  <2>2. Step(D).op # "store" /\ (Depth' = D => Step(D)'.op # "store") /\ ptr'[x] = ptr[x]
    BY <1>1, <1>6, <1>11
  <2>3. x \in Handles /\ At("free", x)' = At("free", x)
    BY <1>14
  <2>4. QED
    BY <1>1, <1>10, <1>12, <2>1, <2>2, <2>3, InnerOwns
<1>19. QED
  BY <1>1, <1>6, <1>7, <1>8, <1>9, <1>10, <1>12, <1>14, <1>16, <1>17, <1>18 DEF Dropped

LEMMA UniqueDestroyMembers ==
  ASSUME IInv, ~Shared, DestroyMembers
  PROVE  IInv'
<1>1. PICK D \in Nat, n \in Nodes, q \in Nodes \cup {Null} : Dropped(D, n, q)
  BY MemberDropped
<1>2. /\ TypeOK /\ StepsExist /\ StoresBeforeDeletion /\ UniqueOwner /\ n \in Handles
      /\ Null \notin Nodes /\ raw \subseteq Nodes /\ heap \subseteq Nodes
  BY NestedOwnershipAssumption DEF IInv, TypeOK, Handles
<1>3. /\ Inner(D) /\ kind' = kind /\ raw' = raw /\ ptr' = ptr /\ heap' = heap /\ TypeOK'
      /\ D \in 1..Depth /\ Step(D).op = "members" /\ Step(D).at = n /\ Owns(n) = q
      /\ (Depth' = D <=> q # Null) /\ (q # Null => Step(D)' = Delete(q))
      /\ \A x : At("free", x)' = At("free", x)
      /\ \A x \in Handles : Owns(x)' = IF x = n THEN Null ELSE Owns(x)
  BY <1>1 DEF Dropped
<1>4. Delete(q).op = "delete" /\ Delete(q).at = q /\ Delete(q).to = Null
  BY DEF Delete
<1>5. q # Null => q \in heap /\ At("free", q) = {} /\ At("delete", q) = {}
  BY <1>2, <1>3 DEF UniqueOwner, Alive
<1>6. Takes(n, Null)
  BY <1>2, <1>3 DEF Takes
<1>7. Left(n, Null) = q
  BY <1>3 DEF Left
<1>8. Deletes(q)
  <2>1. \A k \in Nodes : k # q => At("delete", k)' = At("delete", k)
    BY <1>2, <1>3, <1>4, InnerAt
  <2>2. ASSUME q # Null
        PROVE  D \in At("delete", q)'
    BY <1>3, <1>4, <2>2 DEF At
  <2>3. ASSUME NEW k \in Nodes
        PROVE  At("delete", k)' # {} <=> At("delete", k) # {} \/ (k = q /\ q # Null)
    <3>1. CASE k = q
      BY <1>2, <2>2, <3>1
    <3>2. CASE k # q
      BY <2>1, <3>2
    <3>3. QED
      BY <3>1, <3>2
  <2>4. QED
    BY <2>3 DEF Deletes
<1>9. \A k \in Nodes : Alive(k)' <=> Alive(k) \/ k = Null
  BY <1>2, <1>3 DEF Alive
<1>10. UniqueOwner'
  <2>1. PICK p \in Nodes \cup {Null} : p = Null
    OBVIOUS
  <2>2. Takes(n, p) /\ Deletes(Left(n, p)) /\ \A k \in Nodes : Alive(k)' <=> Alive(k) \/ k = p
    BY <1>6, <1>7, <1>8, <1>9, <2>1
  <2>3. QED
    BY <1>2, <2>2, OwnerTaken
<1>11. \E S \in SUBSET Nodes : q \in S \cup {Null} /\ WrittenBefore(S, D)
  <2>1. Reached(D) = q
    BY <1>3 DEF Reached
  <2>2. QED
    BY <1>2, <1>3, <2>1 DEF StoresBeforeDeletion
<1>12. StepsExist' /\ PartsInOrder' /\ EndsOnce' /\ StoresBeforeMembers' /\ StoresBeforeDeletion'
  <2>1. Depth' = D => /\ Step(D)'.op \in {"delete", "release"}
                      /\ Step(D)'.at \in heap' /\ Step(D)'.to = Null
                      /\ Step(D)'.op = "release" => Shared
    BY <1>3, <1>4, <1>5
  <2>2. ASSUME q # Null, NEW d \in 1..(D - 1), Step(d).op \in {"delete", "free"}
        PROVE  Step(d).at # q
    <3>1. d \in 1..Depth
      BY <1>3 DEF Inner
    <3>2. QED
      BY <1>5, <2>2, <3>1 DEF At
  <2>3. Depth' = D /\ Step(D)'.op = "delete" =>
          /\ \A d \in 1..(D - 1) : Step(d).op \in {"delete", "free"} => Step(d).at # Step(D)'.at
          /\ ~Shared => \E S \in SUBSET Nodes : Step(D)'.at \in S \cup {Null} /\ WrittenBefore(S, D)
    BY <1>3, <1>4, <1>11, <2>2
  <2>4. /\ \A d \in 1..(D - 1) : Step(d).at \in heap => Step(d).at \in heap'
        /\ \A k \in Nodes \ heap' : ptr'[k] = Null
        /\ (~Shared => \A x \in Handles : Owns(x)' \in {Owns(x), Null})
    BY <1>2, <1>3 DEF StepsExist
  <2>5. QED
    BY <1>3, <2>1, <2>3, <2>4, InnerKeeps
<1>13. CountedOwners'
  BY <1>3 DEF CountedOwners, Shared
<1>14. QED
  BY <1>3, <1>10, <1>12, <1>13 DEF IInv

LEMMA SharedDestroyMembers ==
  ASSUME IInv, Shared, DestroyMembers
  PROVE  IInv'
<1>1. PICK D \in Nat, n \in Nodes, q \in Nodes \cup {Null} : Dropped(D, n, q)
  BY MemberDropped
<1>2. /\ TypeOK /\ StepsExist /\ CountedOwners /\ n \in Handles /\ Null \notin Nodes
  BY NestedOwnershipAssumption DEF IInv, TypeOK, Handles
<1>3. /\ Inner(D) /\ kind' = kind /\ raw' = raw /\ ptr' = ptr /\ heap' = heap /\ refs' = refs /\ TypeOK'
      /\ D \in 1..Depth /\ Step(D).op = "members" /\ Step(D).at = n /\ Owns(n) = q
      /\ (IF q = Null THEN Depth' = D - 1 ELSE Depth' = D /\ Step(D)' = Release(q))
      /\ \A x : At("free", x)' = At("free", x)
      /\ \A x \in Handles : Owns(x)' = IF x = n THEN Null ELSE Owns(x)
  BY <1>1 DEF Dropped
<1>4. Release(q).op = "release" /\ Release(q).at = q /\ Release(q).to = Null
  BY DEF Release
<1>5. q # Null => Whole(q) /\ q \in heap
  <2>1. ASSUME q # Null
        PROVE  Whole(q)
    <3>1. n \in Sharing(q) /\ q \in Nodes
      BY <1>2, <1>3, <2>1 DEF Sharing
    <3>2. QED
      BY <1>2, <3>1 DEF CountedOwners, Whole
  <2>2. QED
    BY <2>1 DEF Whole, Alive
<1>6. \A x : At("delete", x)' = At("delete", x)
  BY <1>2, <1>3, <1>4, InnerAt
<1>7. \A k \in Nodes : Whole(k)' <=> Whole(k)
  BY <1>3, <1>6 DEF Whole, Alive
<1>8. PICK z \in Nodes \cup {Null} : z = Null
  OBVIOUS
<1>9. PICK f : f = Changed(Own, n, z)
  OBVIOUS
<1>10. /\ Own \in [Handles -> Nodes \cup {Null}] /\ \A x \in Handles : Own[x] = Owns(x)
       /\ \A k : OwnersIn(Own, k) = Sharing(k)
  BY <1>2, OwnIs
<1>11. f \in [Handles -> Nodes \cup {Null}] /\ \A x \in Handles : Owns(x)' = f[x]
  BY <1>3, <1>8, <1>9, <1>10 DEF Changed
<1>12. \A k : Sharing(k)' = OwnersIn(f, k)
  BY <1>11, SharingNext
<1>13. ASSUME NEW k \in Nodes
       PROVE  Cardinality(Sharing(k)') + One(q, k) = Cardinality(Sharing(k))
              /\ Cardinality(Sharing(k)') \in Nat /\ Cardinality(Sharing(k)) \in Nat
  <2>1. /\ Cardinality(OwnersIn(Own, k)) \in Nat /\ Cardinality(OwnersIn(f, k)) \in Nat
        /\ Cardinality(OwnersIn(f, k)) + One(Own[n], k) = Cardinality(OwnersIn(Own, k)) + One(z, k)
    <3>1. f = Changed(Own, n, z) /\ Own \in [Handles -> Nodes \cup {Null}]
      BY <1>9, <1>10
    <3>2. QED
      BY <1>2, <3>1, OneChanges
  <2>2. Own[n] = q /\ OwnersIn(Own, k) = Sharing(k) /\ One(z, k) = 0 /\ Sharing(k)' = OwnersIn(f, k)
    BY <1>2, <1>3, <1>8, <1>10, <1>12 DEF One
  <2>3. QED
    BY <2>1, <2>2
<1>14. \A k \in Nodes : k # q => At("release", k)' = At("release", k)
  BY <1>2, <1>3, <1>4, InnerAt
<1>15. q # Null => Cardinality(At("release", q)') = Cardinality(At("release", q)) + 1
  <2>1. ASSUME q # Null
        PROVE  Cardinality(At("release", q)') = Cardinality(At("release", q)) + 1
    <3>1. PICK B : B = D - 1
      OBVIOUS
    <3>2. /\ Kept(B) /\ D = B + 1 /\ D = Depth' /\ Step(D)'.op = "release" /\ Step(D)'.at = q
          /\ (B < Depth => ~(Step(Depth).op = "release" /\ Step(Depth).at = q))
      BY <1>3, <1>4, <2>1, <3>1 DEF Inner
    <3>3. QED
      BY <1>2, <1>3, <3>2, AtAdded
  <2>2. QED
    BY <2>1
<1>16. Shared' /\ raw' = {}
  BY <1>2, <1>3 DEF Shared, CountedOwners
<1>17. CountedOwners'
  <2>1. ASSUME NEW k \in Nodes
        PROVE  (IF Whole(k)
                THEN /\ refs[k] = Cardinality(Sharing(k)) + Cardinality(At("release", k))
                     /\ refs[k] > 0
                ELSE Sharing(k) = {} /\ At("release", k) = {})'
    <3>1. IF Whole(k) THEN /\ refs[k] = Cardinality(Sharing(k)) + Cardinality(At("release", k))
                           /\ refs[k] > 0
          ELSE Sharing(k) = {} /\ At("release", k) = {}
      BY <1>2 DEF CountedOwners, Whole
    <3>2. CASE k = q
      <4>1. Whole(k) /\ Whole(k)' /\ q # Null
        BY <1>2, <1>5, <1>7, <3>2
      <4>2. Cardinality(Sharing(k)') + 1 = Cardinality(Sharing(k))
        BY <1>13, <3>2 DEF One
      <4>3. Cardinality(At("release", k)') = Cardinality(At("release", k)) + 1
        BY <1>15, <3>2, <4>1
      <4>4. Cardinality(At("release", k)) \in Nat
        BY <1>2, FiniteAt
      <4>5. Cardinality(Sharing(k)') + Cardinality(At("release", k)')
              = Cardinality(Sharing(k)) + Cardinality(At("release", k))
        BY <1>13, <4>2, <4>3, <4>4
      <4>6. QED
        BY <1>3, <3>1, <4>1, <4>5
    <3>3. CASE k # q
      <4>1. At("release", k)' = At("release", k)
        BY <1>14, <3>3
      <4>2. Sharing(k)' = Sharing(k)
        <5>1. \A x \in Handles : Owns(x)' = k <=> Owns(x) = k
          BY <1>2, <1>3, <3>3
        <5>2. QED
          BY <5>1 DEF Sharing
      <4>3. QED
        BY <1>3, <1>7, <3>1, <4>1, <4>2
    <3>4. QED
      BY <3>2, <3>3
  <2>2. QED
    BY <1>16, <2>1 DEF CountedOwners, Whole
<1>18. StepsExist' /\ PartsInOrder' /\ EndsOnce' /\ StoresBeforeMembers' /\ StoresBeforeDeletion'
  <2>1. Depth' = D => q # Null /\ Step(D)' = Release(q)
    BY <1>3
  <2>2. Depth' = D => /\ Step(D)'.op \in {"delete", "release"}
                      /\ Step(D)'.at \in heap' /\ Step(D)'.to = Null
                      /\ Step(D)'.op = "release" => Shared
    BY <1>3, <1>4, <1>5, <2>1
  <2>3. ~(Depth' = D /\ Step(D)'.op = "delete")
    BY <1>4, <2>1
  <2>4. /\ \A d \in 1..(D - 1) : Step(d).at \in heap => Step(d).at \in heap'
        /\ \A k \in Nodes \ heap' : ptr'[k] = Null
    BY <1>2, <1>3 DEF StepsExist
  <2>5. QED
    BY <1>3, <2>2, <2>3, <2>4, InnerKeeps
<1>19. QED
  BY <1>3, <1>16, <1>17, <1>18 DEF IInv, UniqueOwner

-----------------------------------------------------------------------------
(***************************************************************************)
(* Every step, and the invariant.                                          *)
(***************************************************************************)
LEMMA NestedInit == Init => IInv
<1> SUFFICES ASSUME Init
             PROVE  IInv
  OBVIOUS
<1>1. /\ kind \in Kinds /\ ptr = [h \in Handles |-> Null] /\ refs = [n \in Nodes |-> 0]
      /\ heap = {} /\ raw = {} /\ todo = <<>> /\ Nodes \subseteq Handles /\ Null \notin Nodes
  BY NestedOwnershipAssumption DEF Init, Handles
<1>2. Depth = 0 /\ 1..Depth = {}
  BY <1>1 DEF Depth
<1>3. TypeOK
  BY <1>1 DEF TypeOK
<1>4. \A op, x : At(op, x) = {}
  BY <1>2 DEF At
<1>5. \A h \in Handles : Owns(h) = Null
  BY <1>1, <1>3, <1>4, OwnsIs
<1>6. \A n : Sharing(n) # {} => n = Null
  BY <1>5 DEF Sharing
<1>7. StepsExist /\ PartsInOrder /\ EndsOnce /\ StoresBeforeMembers /\ StoresBeforeDeletion
  BY <1>1, <1>2 DEF StepsExist, PartsInOrder, EndsOnce, StoresBeforeMembers, StoresBeforeDeletion
<1>8. UniqueOwner
  BY <1>1, <1>5 DEF UniqueOwner, Alive
<1>9. CountedOwners
  <2>1. \A n \in Nodes : ~Alive(n) /\ Sharing(n) = {} /\ At("release", n) = {}
    BY <1>1, <1>4, <1>6 DEF Alive
  <2>2. QED
    BY <1>1, <2>1 DEF CountedOwners
<1>10. QED
  BY <1>3, <1>7, <1>8, <1>9 DEF IInv

\* No shared object is ever taken out.
LEMMA SharedNeverRaw ==
  ASSUME IInv, Shared, NEW h \in Handles
  PROVE  ~ResetPtr(h) /\ ~Extract(h)
BY DEF IInv, CountedOwners, ResetPtr, Extract

LEMMA UniqueNext ==
  ASSUME IInv, ~Shared, NoDescent, Next
  PROVE  IInv'
<1>1. ASSUME NEW h \in Handles, Make(h) \/ Reset(h) \/ Extract(h) \/ ResetPtr(h)
      PROVE  IInv'
  <2>1. CASE Make(h)
    BY <2>1, UniqueMake
  <2>2. CASE Reset(h)
    BY <2>2, UniqueReset
  <2>3. CASE Extract(h)
    BY <2>3, UniqueExtract
  <2>4. CASE ResetPtr(h)
    BY <2>4, UniqueResetPtr
  <2>5. QED
    BY <1>1, <2>1, <2>2, <2>3, <2>4
<1>2. ASSUME NEW h \in Handles, NEW g \in Handles, Move(h, g) \/ Copy(h, g) \/ Swap(h, g)
      PROVE  IInv'
  <2>1. CASE Move(h, g)
    BY <2>1, UniqueMove
  <2>2. CASE Copy(h, g)
    BY <2>2 DEF Copy
  <2>3. CASE Swap(h, g)
    BY <2>3, UniqueSwap
  <2>4. QED
    BY <1>2, <2>1, <2>2, <2>3
<1>3. ASSUME \/ DeleteObject \/ EndBody \/ DestroyMembers
             \/ Deallocate \/ StorePtr \/ ReleaseShare
      PROVE  IInv'
  BY <1>3, DeleteObjectKeeps, EndBodyKeeps, UniqueDestroyMembers, DeallocateKeeps, StorePtrKeeps,
     ReleaseShareKeeps
<1>4. QED
  BY <1>1, <1>2, <1>3 DEF Next

LEMMA SharedNext ==
  ASSUME IInv, Shared, Next
  PROVE  IInv'
<1>1. ASSUME NEW h \in Handles, Make(h) \/ Reset(h) \/ Extract(h) \/ ResetPtr(h)
      PROVE  IInv'
  <2>1. CASE Make(h)
    BY <2>1, SharedMake
  <2>2. CASE Reset(h)
    BY <2>2, SharedReset
  <2>3. CASE Extract(h) \/ ResetPtr(h)
    BY <2>3, SharedNeverRaw
  <2>4. QED
    BY <1>1, <2>1, <2>2, <2>3
<1>2. ASSUME NEW h \in Handles, NEW g \in Handles, Move(h, g) \/ Copy(h, g) \/ Swap(h, g)
      PROVE  IInv'
  <2>1. CASE Move(h, g)
    BY <2>1, SharedMove
  <2>2. CASE Copy(h, g)
    BY <2>2, SharedCopy
  <2>3. CASE Swap(h, g)
    BY <2>3, SharedSwap
  <2>4. QED
    BY <1>2, <2>1, <2>2, <2>3
<1>3. ASSUME \/ DeleteObject \/ EndBody \/ DestroyMembers
             \/ Deallocate \/ StorePtr \/ ReleaseShare
      PROVE  IInv'
  BY <1>3, DeleteObjectKeeps, EndBodyKeeps, SharedDestroyMembers, DeallocateKeeps, StorePtrKeeps,
     ReleaseShareKeeps
<1>4. QED
  BY <1>1, <1>2, <1>3 DEF Next

LEMMA NestedStep ==
  ASSUME NoDescent
  PROVE  IInv /\ [Next]_vars => IInv'
<1> SUFFICES ASSUME IInv, [Next]_vars
             PROVE  IInv'
  OBVIOUS
<1>1. CASE Next
  BY <1>1, UniqueNext, SharedNext
<1>2. CASE UNCHANGED vars
  <2>1. kind' = kind /\ ptr' = ptr /\ refs' = refs /\ heap' = heap /\ raw' = raw /\ todo' = todo
    BY <1>2 DEF vars
  <2>2. TypeOK' /\ (Shared' <=> Shared)
    BY <2>1 DEF IInv, TypeOK, Shared
  <2>3. Depth' = Depth /\ \A d : Step(d)' = Step(d)
    BY <2>1 DEF Depth, Step
  <2>4. \A op, x : At(op, x)' = At(op, x)
    BY <2>3 DEF At
  <2>5. TypeOK /\ Nodes \subseteq Handles /\ Kept(Depth)
    BY <2>3, StepTypes DEF IInv, Kept, Handles
  <2>6. ASSUME NEW h \in Handles
        PROVE  Owns(h)' = Owns(h)
    <3>1. Busy(h)' <=> Busy(h)
      BY <2>2, <2>4, <2>5, OwnsIs, OwnsIsNext
    <3>2. At("store", h)' = At("store", h) /\ At("store", h) \subseteq 1..Depth /\ ptr'[h] = ptr[h]
      BY <2>1, <2>4, <2>5, StepTypes
    <3>3. QED
      BY <2>2, <2>5, <3>1, <3>2, OwnsKept
  <2>7. \A n : (Alive(n)' <=> Alive(n)) /\ Sharing(n)' = Sharing(n)
    BY <2>1, <2>4, <2>6 DEF Alive, Sharing
  <2>8. StepsExist' /\ PartsInOrder' /\ EndsOnce' /\ StoresBeforeMembers'
    BY <2>1, <2>2, <2>3 DEF IInv, StepsExist, PartsInOrder, EndsOnce, StoresBeforeMembers, Exists
  <2>9. StoresBeforeDeletion'
    <3>1. \A d \in 1..Depth : Reached(d)' = Reached(d)
      BY <2>3, <2>5, <2>6, StepTypes DEF Reached
    <3>2. \A S \in SUBSET Nodes : \A d : WrittenBefore(S, d)' <=> WrittenBefore(S, d)
      BY <2>4, <2>5, <2>6 DEF WrittenBefore
    <3>3. QED
      BY <2>2, <2>3, <3>1, <3>2 DEF IInv, StoresBeforeDeletion
  <2>10. UniqueOwner' /\ CountedOwners'
    BY <2>1, <2>2, <2>4, <2>6, <2>7 DEF IInv, UniqueOwner, CountedOwners
  <2>11. QED
    BY <2>2, <2>8, <2>9, <2>10 DEF IInv
<1>3. QED
  BY <1>1, <1>2

(***************************************************************************)
(* However calls nest inside destructors, every call underway works on     *)
(* what exists, parts of a destruction stay in order, and every object has *)
(* the owners it should.                                                   *)
(***************************************************************************)
THEOREM NestedInvariant ==
  ASSUME NoDescent
  PROVE  Spec => []IInv
<1>1. Init => IInv
  BY NestedInit
<1>2. IInv /\ [Next]_vars => IInv'
  BY NestedStep
<1>3. QED
  BY <1>1, <1>2, PTL DEF Spec

(***************************************************************************)
(* Every variable keeps its type, and no counter goes below zero.          *)
(***************************************************************************)
THEOREM NestedTypes ==
  ASSUME NoDescent
  PROVE  Spec => []TypeOK
<1>1. IInv => TypeOK
  BY DEF IInv
<1>2. QED
  BY <1>1, NestedInvariant, PTL

(***************************************************************************)
(* No call goes on in an object whose storage has been freed.              *)
(***************************************************************************)
THEOREM NestedNothingTouched ==
  ASSUME NoDescent
  PROVE  Spec => []NothingTouchedAfterFree
<1>1. IInv => NothingTouchedAfterFree
  <2> SUFFICES ASSUME IInv, todo # <<>>
               PROVE  Exists(This)
    BY DEF NothingTouchedAfterFree
  <2>1. todo \in Seq(Entries) /\ StepsExist
    BY DEF IInv, TypeOK, Entries
  <2>2. Depth + 1 - Depth = 1 /\ Depth \in 1..Depth
    BY <2>1 DEF Depth
  <2>3. Head(todo) = Step(Depth)
    BY <2>1, <2>2 DEF Step
  <2>4. PICK d \in 1..Depth : Head(todo) = Step(d)
    BY <2>2, <2>3
  <2>5. QED
    BY <2>1, <2>4 DEF StepsExist, This, Exists
<1>2. QED
  BY <1>1, NestedInvariant, PTL

(***************************************************************************)
(* No object is destroyed twice, however destructors nest.                 *)
(***************************************************************************)
THEOREM NestedDestroyedOnce ==
  ASSUME NoDescent
  PROVE  Spec => []DestroyedOnce
<1>1. IInv => DestroyedOnce
  <2> SUFFICES ASSUME IInv, NEW i \in Pending({"delete", "free"}),
                      NEW j \in Pending({"delete", "free"}), todo[i].at = todo[j].at
               PROVE  i = j
    BY DEF DestroyedOnce
  <2>1. i \in 1..Depth /\ j \in 1..Depth /\ Depth \in Nat
    BY StepTypes DEF IInv, TypeOK, Pending, Depth
  <2>2. PICK d \in 1..Depth, e \in 1..Depth : d = Depth + 1 - i /\ e = Depth + 1 - j
    BY <2>1
  <2>3. Depth + 1 - d = i /\ Depth + 1 - e = j
    BY <2>1, <2>2
  <2>4. Step(d) = todo[i] /\ Step(e) = todo[j]
    BY <2>3 DEF Step
  <2>5. d = e
    BY <2>4 DEF IInv, EndsOnce, Pending
  <2>6. QED
    BY <2>1, <2>2, <2>5
<1>2. QED
  BY <1>1, NestedInvariant, PTL

-----------------------------------------------------------------------------
(***************************************************************************)
(* Those who answer for an object, counted through what handles own.       *)
(***************************************************************************)
Held(n)       == {h \in Handles : Exists(h) /\ ~Busy(h) /\ ptr[h] = n}
Ends(n)       == {i \in Pending({"delete", "release"}) : todo[i].at = n}
LastStores(n) == {i \in Pending({"store"}) :
                    /\ todo[i].to = n
                    /\ \A j \in Pending({"store"}) : j > i => todo[j].at # todo[i].at}
ToHold(n)     == {h \in Sharing(n) : Busy(h)}

LEMMA Paired ==
  ASSUME NEW S, NEW T, IsFiniteSet(S), NEW F \in [S -> T],
         \A a, b \in S : F[a] = F[b] => a = b,
         \A t \in T : \E s \in S : F[s] = t
  PROVE  Cardinality(T) = Cardinality(S)
<1>1. F \in Bijection(S, T)
  BY DEF Bijection, Injection, IsInjective, Surjection
<1>2. ExistsBijection(S, T)
  BY <1>1 DEF ExistsBijection
<1>3. QED
  BY <1>2, FS_Bijection

LEMMA Disjoint ==
  ASSUME NEW S, NEW T, IsFiniteSet(S), IsFiniteSet(T), S \cap T = {}
  PROVE  /\ IsFiniteSet(S \cup T)
         /\ Cardinality(S \cup T) = Cardinality(S) + Cardinality(T)
<1>1. /\ IsFiniteSet(S \cup T)
      /\ Cardinality(S \cup T) = Cardinality(S) + Cardinality(T) - Cardinality(S \cap T)
  BY FS_Union
<1>2. Cardinality(S \cap T) = 0
  BY FS_EmptySet
<1>3. Cardinality(S) \in Nat /\ Cardinality(T) \in Nat
  BY FS_CardinalityType
<1>4. QED
  BY <1>1, <1>2, <1>3

\* Indexes into todo and the numbers of steps.
LEMMA IndexIs ==
  ASSUME TypeOK
  PROVE  /\ \A i \in DOMAIN todo : /\ Depth + 1 - i \in 1..Depth
                                   /\ Depth + 1 - (Depth + 1 - i) = i
                                   /\ Step(Depth + 1 - i) = todo[i]
         /\ \A d \in 1..Depth : /\ Depth + 1 - d \in DOMAIN todo
                                /\ Depth + 1 - (Depth + 1 - d) = d
                                /\ Step(d) = todo[Depth + 1 - d]
         /\ DOMAIN todo \subseteq Nat /\ Depth \in Nat
<1>1. Depth \in Nat /\ DOMAIN todo = 1..Depth
  BY DEF TypeOK, Depth
<1>2. ASSUME NEW i \in 1..Depth
      PROVE  Depth + 1 - i \in 1..Depth /\ Depth + 1 - (Depth + 1 - i) = i
  BY <1>1
<1>3. \A i \in 1..Depth : Step(Depth + 1 - i) = todo[i] /\ Step(i) = todo[Depth + 1 - i]
  BY <1>2 DEF Step
<1>4. QED
  BY <1>1, <1>2, <1>3

LEMMA EndsCount ==
  ASSUME TypeOK, NEW n \in Nodes
  PROVE  Cardinality(Ends(n)) = Cardinality(At("delete", n)) + Cardinality(At("release", n))
<1>1. PICK S, T : S = At("delete", n) \cup At("release", n) /\ T = Ends(n)
  OBVIOUS
<1>2. /\ IsFiniteSet(S)
      /\ Cardinality(S) = Cardinality(At("delete", n)) + Cardinality(At("release", n))
  <2>1. At("delete", n) \cap At("release", n) = {}
    BY DEF At
  <2>2. IsFiniteSet(At("delete", n)) /\ IsFiniteSet(At("release", n))
    BY FiniteAt
  <2>3. QED
    BY <1>1, <2>1, <2>2, Disjoint
<1>3. \A d \in S : d \in 1..Depth /\ Step(d).op \in {"delete", "release"} /\ Step(d).at = n
  BY <1>1 DEF At
<1>4. PICK F : F = [d \in S |-> Depth + 1 - d]
  OBVIOUS
<1>5. F \in [S -> T]
  BY <1>1, <1>3, <1>4, IndexIs DEF Ends, Pending
<1>6. \A a, b \in S : F[a] = F[b] => a = b
  BY <1>3, <1>4, IndexIs
<1>7. ASSUME NEW i \in T
      PROVE  \E d \in S : F[d] = i
  <2>1. i \in DOMAIN todo /\ todo[i].op \in {"delete", "release"} /\ todo[i].at = n
    BY <1>1 DEF Ends, Pending
  <2>2. PICK d \in 1..Depth : d = Depth + 1 - i /\ Step(d) = todo[i] /\ Depth + 1 - d = i
    BY <2>1, IndexIs
  <2>3. d \in S
    BY <1>1, <2>1, <2>2 DEF At
  <2>4. QED
    BY <1>4, <2>2, <2>3
<1>8. Cardinality(T) = Cardinality(S)
  BY <1>2, <1>5, <1>6, <1>7, Paired
<1>9. QED
  BY <1>1, <1>2, <1>8

LEMMA LastStoresCount ==
  ASSUME TypeOK, NEW n \in Nodes
  PROVE  Cardinality(LastStores(n)) = Cardinality(ToHold(n))
<1>1. PICK S, T : S = ToHold(n) /\ T = LastStores(n)
  OBVIOUS
<1>2. S \subseteq Handles /\ IsFiniteSet(S) /\ Null \notin Nodes
  BY <1>1, FiniteOwners, NestedOwnershipAssumption DEF ToHold, Sharing
<1>3. PICK low : low = [h \in S |-> Lowest(At("store", h))]
  OBVIOUS
<1>4. ASSUME NEW h \in S
      PROVE  /\ low[h] \in 1..Depth /\ Step(low[h]).op = "store" /\ Step(low[h]).at = h
             /\ Step(low[h]).to = n
             /\ \A d \in At("store", h) : low[h] <= d
  <2>1. h \in Handles /\ Owns(h) = n /\ Busy(h)
    BY <1>1 DEF ToHold, Sharing
  <2>2. At("store", h) # {} /\ At("store", h) \subseteq Nat
    BY <1>2, <2>1, OwnsIs, StepTypes
  <2>3. low[h] \in At("store", h) /\ \A d \in At("store", h) : low[h] <= d
    BY <1>3, <2>2, LowestExists
  <2>4. Step(low[h]).to = n
    BY <2>1, <2>3, OwnsIs
  <2>5. QED
    BY <2>3, <2>4 DEF At
<1>5. PICK F : F = [h \in S |-> Depth + 1 - low[h]]
  OBVIOUS
<1>6. ASSUME NEW h \in S
      PROVE  F[h] \in T /\ todo[F[h]].at = h
  <2>1. PICK d \in 1..Depth : d = low[h]
    BY <1>4
  <2>2. PICK i \in DOMAIN todo : i = Depth + 1 - d /\ todo[i] = Step(d) /\ Depth + 1 - i = d
    BY IndexIs
  <2>3. i = F[h]
    BY <1>5, <2>1, <2>2
  <2>4. i \in Pending({"store"}) /\ todo[i].to = n /\ todo[i].at = h
    BY <1>4, <2>1, <2>2 DEF Pending
  <2>5. ASSUME NEW j \in Pending({"store"}), j > i, todo[j].at = h
        PROVE  FALSE
    <3>1. j \in DOMAIN todo /\ todo[j].op = "store"
      BY DEF Pending
    <3>2. PICK e \in 1..Depth : e = Depth + 1 - j /\ Step(e) = todo[j]
      BY <3>1, IndexIs
    <3>3. e \in At("store", h)
      BY <2>5, <3>1, <3>2 DEF At
    <3>4. d <= e
      BY <1>4, <2>1, <3>3
    <3>5. j \in Nat /\ i \in Nat /\ Depth \in Nat
      BY <3>1, IndexIs
    <3>6. QED
      BY <2>2, <2>5, <3>2, <3>4, <3>5
  <2>6. QED
    BY <1>1, <2>3, <2>4, <2>5 DEF LastStores
<1>7. F \in [S -> T]
  BY <1>5, <1>6
<1>8. \A a, b \in S : F[a] = F[b] => a = b
  BY <1>6
<1>9. ASSUME NEW i \in T
      PROVE  \E h \in S : F[h] = i
  <2>1. /\ i \in DOMAIN todo /\ todo[i].op = "store" /\ todo[i].to = n
        /\ \A j \in Pending({"store"}) : j > i => todo[j].at # todo[i].at
    BY <1>1 DEF LastStores, Pending
  <2>2. PICK d \in 1..Depth : d = Depth + 1 - i /\ Step(d) = todo[i] /\ Depth + 1 - d = i
    BY <2>1, IndexIs
  <2>3. PICK h \in Handles : h = todo[i].at
    BY <2>2, StepTypes
  <2>4. d \in At("store", h)
    BY <2>1, <2>2, <2>3 DEF At
  <2>5. ASSUME NEW e \in At("store", h)
        PROVE  d <= e
    <3>1. e \in 1..Depth /\ Step(e).op = "store" /\ Step(e).at = h
      BY DEF At
    <3>2. PICK j \in DOMAIN todo : j = Depth + 1 - e /\ Step(e) = todo[j]
      BY <3>1, IndexIs
    <3>3. j \in Pending({"store"})
      BY <3>1, <3>2 DEF Pending
    <3>4. ~(j > i)
      BY <2>1, <2>3, <3>1, <3>2, <3>3
    <3>5. j \in Nat /\ i \in Nat /\ Depth \in Nat
      BY <2>1, IndexIs
    <3>6. QED
      BY <2>2, <3>1, <3>2, <3>4, <3>5
  <2>6. Owns(h) = n /\ Busy(h)
    BY <2>1, <2>2, <2>4, <2>5, OwnsIs
  <2>7. h \in S
    BY <1>1, <2>6 DEF ToHold, Sharing
  <2>8. low[h] = d
    <3>1. At("store", h) \subseteq Nat
      BY StepTypes
    <3>2. Lowest(At("store", h)) = d
      BY <2>4, <2>5, <3>1, LowestIs
    <3>3. QED
      BY <1>3, <2>7, <3>2
  <2>9. QED
    BY <1>5, <2>2, <2>7, <2>8
<1>10. Cardinality(T) = Cardinality(S)
  BY <1>2, <1>7, <1>8, <1>9, Paired
<1>11. QED
  BY <1>1, <1>10

LEMMA SharingCount ==
  ASSUME IInv, NEW n \in Nodes
  PROVE  Cardinality(Sharing(n)) = Cardinality(Held(n)) + Cardinality(ToHold(n))
<1>1. TypeOK /\ StepsExist /\ Null \notin Nodes
  BY NestedOwnershipAssumption DEF IInv
<1>2. Sharing(n) = Held(n) \cup ToHold(n)
  <2>1. ASSUME NEW h \in Held(n)
        PROVE  h \in Sharing(n)
    BY <1>1, OwnsIs DEF Held, Sharing
  <2>2. ASSUME NEW h \in Sharing(n), ~Busy(h)
        PROVE  h \in Held(n)
    <3>1. h \in Handles /\ ptr[h] = n
      BY <1>1, <2>2, OwnsIs DEF Sharing
    <3>2. Exists(h)
      BY <1>1, <3>1 DEF StepsExist, Exists, Handles
    <3>3. QED
      BY <2>2, <3>1, <3>2 DEF Held
  <2>3. QED
    BY <2>1, <2>2 DEF ToHold
<1>3. Held(n) \cap ToHold(n) = {}
  BY DEF Held, ToHold
<1>4. IsFiniteSet(Held(n)) /\ IsFiniteSet(ToHold(n))
  BY FiniteOwners DEF Held, ToHold, Sharing
<1>5. QED
  BY <1>2, <1>3, <1>4, Disjoint

LEMMA ClaimsAre ==
  ASSUME IInv, NEW n \in Nodes
  PROVE  Claims(n) = Cardinality(Sharing(n)) + (IF n \in raw THEN 1 ELSE 0)
                     + Cardinality(At("delete", n)) + Cardinality(At("release", n))
<1>1. TypeOK
  BY DEF IInv
<1>2. Claims(n) = Cardinality(Held(n)) + Cardinality({n} \cap raw)
                  + Cardinality(Ends(n)) + Cardinality(LastStores(n))
  BY DEF Claims, Held, Ends, LastStores
<1>3. Cardinality({n} \cap raw) = IF n \in raw THEN 1 ELSE 0
  <2>1. CASE n \in raw
    <3>1. {n} \cap raw = {n}
      BY <2>1
    <3>2. QED
      BY <2>1, <3>1, FS_Singleton
  <2>2. CASE n \notin raw
    <3>1. {n} \cap raw = {}
      BY <2>2
    <3>2. QED
      BY <2>2, <3>1, FS_EmptySet
  <2>3. QED
    BY <2>1, <2>2
<1>4. /\ Cardinality(Held(n)) \in Nat /\ Cardinality(ToHold(n)) \in Nat
      /\ Cardinality(At("delete", n)) \in Nat /\ Cardinality(At("release", n)) \in Nat
  BY <1>1, FiniteAt, FiniteOwners DEF Held, ToHold, Sharing
<1>5. /\ Cardinality(Ends(n)) = Cardinality(At("delete", n)) + Cardinality(At("release", n))
      /\ Cardinality(LastStores(n)) = Cardinality(ToHold(n))
      /\ Cardinality(Sharing(n)) = Cardinality(Held(n)) + Cardinality(ToHold(n))
  BY <1>1, EndsCount, LastStoresCount, SharingCount
<1>6. PICK r \in Nat : r = Cardinality({n} \cap raw)
  BY <1>3
<1>7. QED
  BY <1>2, <1>3, <1>4, <1>5, <1>6

\* No one owns, takes out or gives up what is gone or going.
LEMMA NotWhole ==
  ASSUME IInv, NEW n \in Nodes, ~Whole(n)
  PROVE  Sharing(n) = {} /\ n \notin raw /\ At("release", n) = {}
<1>1. CASE Shared
  BY <1>1 DEF IInv, CountedOwners, Whole
<1>2. CASE ~Shared
  <2>1. Sharing(n) = {} /\ n \notin raw
    BY <1>2, NestedOwnershipAssumption DEF IInv, UniqueOwner, Whole, Sharing
  <2>2. At("release", n) = {}
    BY <1>2 DEF IInv, StepsExist, At
  <2>3. QED
    BY <2>1, <2>2
<1>3. QED
  BY <1>1, <1>2

LEMMA ExactlyOwned ==
  ASSUME IInv, NEW n \in Nodes
  PROVE  IF n \notin heap \/ Dying(n) THEN Claims(n) = 0
         ELSE IF Shared /\ ~Waits("delete", n) THEN Claims(n) = refs[n] /\ refs[n] > 0
         ELSE Claims(n) = 1
<1>1. TypeOK /\ StepsExist /\ EndsOnce /\ UniqueOwner /\ CountedOwners /\ refs \in [Nodes -> Nat]
      /\ Null \notin Nodes
  BY NestedOwnershipAssumption DEF IInv, TypeOK
<1>2. /\ Dying(n) <=> At("free", n) # {}
      /\ Waits("delete", n) <=> At("delete", n) # {}
  BY <1>1, WaitsAt DEF Dying
<1>3. PICK r \in {0, 1} : r = IF n \in raw THEN 1 ELSE 0
  OBVIOUS
<1>4. Claims(n) = Cardinality(Sharing(n)) + r
                  + Cardinality(At("delete", n)) + Cardinality(At("release", n))
  BY <1>3, ClaimsAre
<1>5. /\ Cardinality(Sharing(n)) \in Nat /\ (Sharing(n) = {} => Cardinality(Sharing(n)) = 0)
      /\ \A op : /\ Cardinality(At(op, n)) \in Nat
                 /\ At(op, n) = {} => Cardinality(At(op, n)) = 0
  BY <1>1, FiniteOwners, FiniteAt DEF Sharing
<1>6. CASE n \notin heap \/ Dying(n)
  <2>1. ~Whole(n)
    BY <1>2, <1>6 DEF Whole, Alive
  <2>2. Sharing(n) = {} /\ r = 0 /\ At("release", n) = {}
    BY <1>3, <2>1, NotWhole
  <2>3. At("delete", n) = {}
    <3>1. ASSUME NEW d \in At("delete", n)
          PROVE  FALSE
      <4>1. d \in 1..Depth /\ Step(d).op = "delete" /\ Step(d).at = n
        BY DEF At
      <4>2. n \in heap
        BY <1>1, <4>1 DEF StepsExist
      <4>3. PICK e \in At("free", n) : TRUE
        BY <1>2, <1>6, <4>2
      <4>4. e \in 1..Depth /\ Step(e).op = "free" /\ Step(e).at = n
        BY DEF At
      <4>5. QED
        BY <1>1, <4>1, <4>4 DEF EndsOnce
    <3>2. QED
      BY <3>1
  <2>4. Claims(n) = 0
    BY <1>4, <1>5, <2>2, <2>3
  <2>5. QED
    BY <1>6, <2>4
<1>7. CASE n \in heap /\ ~Dying(n) /\ Waits("delete", n)
  <2>1. ~Whole(n)
    BY <1>2, <1>7 DEF Whole
  <2>2. Sharing(n) = {} /\ r = 0 /\ At("release", n) = {}
    BY <1>3, <2>1, NotWhole
  <2>3. Cardinality(At("delete", n)) = 1
    <3>1. PICK d \in At("delete", n) : TRUE
      BY <1>2, <1>7
    <3>2. \A e \in At("delete", n) : e = d
      BY <1>1 DEF EndsOnce, At
    <3>3. At("delete", n) = {d}
      BY <3>2
    <3>4. QED
      BY <3>3, FS_Singleton
  <2>4. Claims(n) = 1
    BY <1>4, <1>5, <2>2, <2>3
  <2>5. QED
    BY <1>7, <2>4
<1>8. CASE n \in heap /\ ~Dying(n) /\ ~Waits("delete", n) /\ Shared
  <2>1. Alive(n) /\ At("delete", n) = {}
    BY <1>2, <1>8 DEF Alive
  <2>2. /\ refs[n] = Cardinality(Sharing(n)) + Cardinality(At("release", n))
        /\ refs[n] > 0 /\ r = 0
    BY <1>1, <1>3, <1>8, <2>1 DEF CountedOwners
  <2>3. Claims(n) = refs[n]
    BY <1>4, <1>5, <2>1, <2>2
  <2>4. QED
    BY <1>8, <2>2, <2>3
<1>9. CASE n \in heap /\ ~Dying(n) /\ ~Waits("delete", n) /\ ~Shared
  <2>1. Alive(n) /\ At("delete", n) = {} /\ At("release", n) = {}
    BY <1>1, <1>2, <1>9 DEF Alive, StepsExist, At
  <2>2. CASE n \in raw
    <3>1. Sharing(n) = {} /\ r = 1
      BY <1>1, <1>3, <1>9, <2>2 DEF UniqueOwner, Sharing
    <3>2. Claims(n) = 1
      BY <1>4, <1>5, <2>1, <3>1
    <3>3. QED
      BY <1>9, <3>2
  <2>3. CASE n \notin raw
    <3>1. PICK h \in Handles : Owns(h) = n
      BY <1>1, <1>9, <2>1, <2>3 DEF UniqueOwner
    <3>2. \A g \in Sharing(n) : g = h
      BY <1>1, <1>9, <3>1 DEF UniqueOwner, Sharing
    <3>3. Sharing(n) = {h}
      BY <3>1, <3>2 DEF Sharing
    <3>4. Cardinality(Sharing(n)) = 1 /\ r = 0
      BY <1>3, <2>3, <3>3, FS_Singleton
    <3>5. Claims(n) = 1
      BY <1>4, <1>5, <2>1, <3>4
    <3>6. QED
      BY <1>9, <3>5
  <2>4. QED
    BY <2>2, <2>3
<1>10. QED
  BY <1>6, <1>7, <1>8, <1>9

(***************************************************************************)
(* At every moment, inside nested calls too, an object that is not being   *)
(* destroyed has exactly one owner, or as many as its counter says, and a  *)
(* destroyed one has none.                                                 *)
(***************************************************************************)
THEOREM NestedOwnersExact ==
  ASSUME NoDescent
  PROVE  Spec => []OwnersExact
<1>1. IInv => OwnersExact
  BY ExactlyOwned DEF OwnersExact
<1>2. QED
  BY <1>1, NestedInvariant, PTL
=============================================================================
