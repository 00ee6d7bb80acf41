------------------------ MODULE ObjectManagementProofs ------------------------
(***************************************************************************)
(* Blocks return to the allocator they came from, as they were allocated,  *)
(* and only a constructor that throws loses one, for any number of         *)
(* threads, allocators, arenas and blocks, and every size of element.      *)
(***************************************************************************)
EXTENDS ObjectManagementInvariant, TLAPS

(***************************************************************************)
(* Numbers: up to MaxCount the product of count and size fits a word.      *)
(***************************************************************************)
LEMMA WordIsLarge == Word \in Nat /\ Word > 1 /\ Size \in 1..(Word - 1)
<1>1. Word \in Int
  BY ObjectManagementAssumption, SMT DEF Word
<1>2. QED
  BY <1>1, ObjectManagementAssumption

LEMMA ProductMonotone ==
  ASSUME NEW j \in Nat, NEW k \in Nat, j <= k, NEW s \in Nat
  PROVE  j * s <= k * s
<1>1. k - j \in Nat /\ (k - j) * s \in Nat
  OBVIOUS
<1>2. k * s = j * s + (k - j) * s
  OBVIOUS
<1>3. QED
  BY <1>1, <1>2

LEMMA CountFits ==
  ASSUME NEW c \in Nat, c <= MaxCount
  PROVE  c * Size \in 0..(Word - 1)
<1> DEFINE q == (Word - 1) \div Size
<1>1. q \in Nat /\ q * Size <= Word - 1
  BY WordIsLarge, SMT
<1>2. c <= q
  BY DEF MaxCount
<1>3. c * Size <= q * Size
  BY <1>1, <1>2, WordIsLarge, ProductMonotone
<1>4. c * Size \in Nat /\ q * Size \in Nat
  BY <1>1, WordIsLarge
<1>5. QED
  BY <1>1, <1>3, <1>4, WordIsLarge

LEMMA SmallIsItself ==
  ASSUME NEW n \in 0..(Word - 1)
  PROVE  n % Word = n
BY WordIsLarge, SMT

LEMMA RequestSizes ==
  ASSUME NEW r \in Requests
  PROVE  /\ r.count \in Nat
         /\ BytesReturned(r) = Bytes(r)
         /\ Bytes(r) \in 0..(Word - 1)
         /\ r.count = 0 => Bytes(r) = 0
         /\ Align(r) \in Nat
         /\ ~Bare(r) => /\ Bytes(r) = 0 => r.count = 0
                       /\ \A k \in Nat : k < r.count => (k + 1) * Size <= Bytes(r)
<1>1. r.count \in Nat /\ r.align \in Nat /\ RequiredAlign \in Nat
  <2>1. r \in [api : APIs, count : Counts, align : Aligns \cup {0}]
    BY DEF Requests
  <2>2. r.count \in Counts /\ (r.align \in Aligns \/ r.align = 0)
    BY <2>1
  <2>3. /\ \A k \in Counts : k \in Nat
        /\ \A k \in Aligns : k \in Nat
        /\ RequiredAlign \in Nat
    BY ObjectManagementAssumption
  <2>4. r.count \in Nat
    BY <2>2, <2>3, Zenon
  <2>5. r.align \in Nat
    <3>1. 0 \in Nat
      OBVIOUS
    <3>2. QED
      BY <3>1, <2>2, <2>3, Zenon
  <2>6. QED
    BY <2>3, <2>4, <2>5
<1>2. BytesReturned(r) = Bytes(r) /\ Bytes(r) \in 0..(Word - 1)
  <2>1. r.count * Size \in Nat
    BY <1>1, WordIsLarge
  <2>2. \A W \in Nat, v \in Nat : W > 0 => v % W \in 0..(W - 1)
    BY SMT
  <2>3. QED
    BY <2>1, <2>2, WordIsLarge DEF Bytes, BytesReturned
<1>3. ASSUME ~Bare(r)
      PROVE  Bytes(r) = r.count * Size /\ r.count * Size \in 0..(Word - 1)
  <2>1. r.count <= MaxCount
    BY <1>3 DEF Requests
  <2>2. QED
    BY <1>1, <2>1, CountFits, SmallIsItself DEF Bytes
<1>4. \A k \in Nat : k < r.count => (k + 1) * Size <= r.count * Size
  BY <1>1, WordIsLarge, ProductMonotone
<1>5. r.count > 0 => r.count * Size >= 1
  <2>1. r.count > 0 => 1 * Size <= r.count * Size
    BY <1>1, WordIsLarge, ProductMonotone
  <2>2. QED
    BY <1>1, <2>1, WordIsLarge
<1>6. r.count = 0 => Bytes(r) = 0
  <2>1. SUFFICES ASSUME r.count = 0
                 PROVE  Bytes(r) = 0
    OBVIOUS
  <2>2. r.count * Size = 0
    BY <2>1, WordIsLarge
  <2>3. 0 \in 0..(Word - 1)
    BY WordIsLarge
  <2>4. QED
    BY <2>2, <2>3, SmallIsItself DEF Bytes
<1>7. Align(r) \in Nat
  BY <1>1 DEF Align, ChooseAlign
<1>8. QED
  BY <1>1, <1>2, <1>3, <1>4, <1>5, <1>6, <1>7

(***************************************************************************)
(* Frames and blocks by kind.                                              *)
(***************************************************************************)
LEMMA FrameKinds ==
  ASSUME NEW f \in Frames
  PROVE  /\ f.pc \in {"idle", "allocate", "construct", "destroy", "deallocate"}
         /\ f = Idle <=> f.pc = "idle"
         /\ f.pc # "idle" => f.al \in Allocators /\ f.req \in Requests
         /\ HasBlock(f) => f.addr \in Addresses /\ f.done \in Nat
         /\ f.pc \in {"construct", "destroy"} => ~Bare(f.req)
BY DEF Frames, Idle, HasBlock

LEMMA FrameMade ==
  ASSUME NEW al \in Allocators, NEW r \in Requests, NEW a \in Addresses, NEW n \in Nat,
         NEW pc \in {"construct", "destroy", "deallocate"},
         pc = "deallocate" \/ ~Bare(r)
  PROVE  /\ [pc |-> pc, al |-> al, req |-> r, addr |-> a, done |-> n] \in Frames
         /\ [pc |-> "allocate", al |-> al, req |-> r] \in Frames
BY DEF Frames

LEMMA FrameGoesOn ==
  ASSUME NEW f \in Frames, HasBlock(f)
  PROVE  /\ [f EXCEPT !.done = @ + 1] \in Frames
         /\ [f EXCEPT !.done = @ + 1].pc = f.pc
         /\ [f EXCEPT !.done = @ + 1].al = f.al
         /\ [f EXCEPT !.done = @ + 1].req = f.req
         /\ [f EXCEPT !.done = @ + 1].addr = f.addr
         /\ [f EXCEPT !.done = @ + 1].done = f.done + 1
         /\ [f EXCEPT !.pc = "deallocate"] \in Frames
         /\ [f EXCEPT !.pc = "deallocate"].pc = "deallocate"
         /\ [f EXCEPT !.pc = "deallocate"].al = f.al
         /\ [f EXCEPT !.pc = "deallocate"].req = f.req
         /\ [f EXCEPT !.pc = "deallocate"].addr = f.addr
<1> DEFINE ofElements == [pc : {"construct", "destroy"}, al : Allocators,
                          req : {r \in Requests : ~Bare(r)}, addr : Addresses, done : Nat]
           ofBlocks == [pc : {"deallocate"}, al : Allocators,
                        req : Requests, addr : Addresses, done : Nat]
<1>1. f \in ofElements \/ f \in ofBlocks
  BY DEF Frames, Idle, HasBlock
<1>2. ofElements \subseteq Frames /\ ofBlocks \subseteq Frames
  BY DEF Frames
<1>3. CASE f \in ofElements
  <2>1. /\ [f EXCEPT !.done = @ + 1] \in ofElements
        /\ [f EXCEPT !.pc = "deallocate"] \in ofBlocks
    BY <1>3
  <2>2. QED
    BY <1>2, <1>3, <2>1
<1>4. CASE f \in ofBlocks
  <2>1. /\ [f EXCEPT !.done = @ + 1] \in ofBlocks
        /\ [f EXCEPT !.pc = "deallocate"] \in ofBlocks
    BY <1>4
  <2>2. QED
    BY <1>2, <1>4, <2>1
<1>5. QED
  BY <1>1, <1>3, <1>4

LEMMA BlockKinds ==
  ASSUME NEW arena \in {Arena[al] : al \in Allocators}, NEW n \in 1..(Word - 1),
         NEW k \in Nat
  PROVE  /\ [arena |-> arena, bytes |-> n, align |-> k] \in Blocks
         /\ [arena |-> arena, bytes |-> n, align |-> k] # NoBlock
<1>1. "bytes" \in DOMAIN [arena |-> arena, bytes |-> n, align |-> k]
  OBVIOUS
<1>2. "bytes" \notin DOMAIN NoBlock
  BY DEF NoBlock
<1>3. QED
  BY <1>1, <1>2 DEF Blocks

LEMMA RequestKinds == \A r \in Requests : r # NoReq
BY DEF Requests, APIs, NoReq

LEMMA ThreadFacts ==
  ASSUME IInv, NEW t \in Threads
  PROVE  /\ frame[t] \in Frames
         /\ frame[t] # Idle => frame[t].al \in exists
         /\ frame[t].pc # "idle" => frame[t].al \in Allocators /\ frame[t].req \in Requests
         /\ HasBlock(frame[t]) => /\ frame[t].addr \in Addresses /\ frame[t].done \in Nat
                                  /\ t \in Uses(frame[t].addr)
         /\ frame[t].pc \in {"construct", "destroy"} =>
              ~Bare(frame[t].req) /\ frame[t].done <= frame[t].req.count
<1>1. frame[t] \in Frames
  BY DEF IInv, TypeOK
<1>2. /\ frame[t].pc # "idle" => frame[t].al \in Allocators /\ frame[t].req \in Requests
      /\ HasBlock(frame[t]) => frame[t].addr \in Addresses /\ frame[t].done \in Nat
      /\ frame[t].pc \in {"construct", "destroy"} => ~Bare(frame[t].req)
  BY <1>1, FrameKinds
<1>3. QED
  BY <1>1, <1>2 DEF IInv, TypeOK, FoundExists, Uses, HasBlock
-----------------------------------------------------------------------------
(***************************************************************************)
(* A step that changes the frame of one thread, and not which block it     *)
(* works on.                                                               *)
(***************************************************************************)
LEMMA LocalStep ==
  ASSUME IInv, NEW t \in Threads, NEW f \in Frames,
         Goes(t, f), UNCHANGED <<current, exists, blocks, owned, lost>>,
         f # Idle => f.al \in exists,
         f.pc \in {"construct", "destroy"} => f.done <= f.req.count,
         f.pc \in {"allocate", "construct"} => Arena[f.al] = Arena[current],
         HasBlock(f) <=> HasBlock(frame[t]),
         HasBlock(f) => /\ f.addr = frame[t].addr /\ f.req = frame[t].req
                        /\ f.al = frame[t].al
  PROVE  IInv'
<1>1. /\ frame \in [Threads -> Frames]
      /\ frame' = [frame EXCEPT ![t] = f]
      /\ frame' \in [Threads -> Frames]
      /\ frame'[t] = f /\ \A u \in Threads \ {t} : frame'[u] = frame[u]
  BY DEF IInv, TypeOK, Goes
<1>2. TypeOK'
  <2>1. \A u \in Threads : frame'[u].pc \in {"construct", "destroy"} =>
          frame'[u].done <= frame'[u].req.count
    BY <1>1 DEF IInv, TypeOK
  <2>2. QED
    BY <1>1, <2>1 DEF IInv, TypeOK
<1>3. HeldCanGoBack'
  BY DEF IInv, HeldCanGoBack, BlockFor
<1>4. CreatedCanGoBack'
  BY <1>1 DEF IInv, CreatedCanGoBack, Creating
<1>5. FoundExists'
  BY <1>1 DEF IInv, FoundExists
<1>6. FoundTakesBack'
  BY <1>1 DEF IInv, FoundTakesBack, HasBlock, BlockFor
<1>7. \A a \in Addresses : Uses(a)' = Uses(a)
  BY <1>1 DEF Uses, HasBlock
<1>8. NothingLost'
  BY <1>7 DEF IInv, NothingLost
<1>9. QED
  BY <1>2, <1>3, <1>4, <1>5, <1>6, <1>8 DEF IInv

LEMMA BeginCreateKeeps ==
  ASSUME IInv, NEW t \in Threads, NEW r \in Requests, BeginCreate(t, r)
  PROVE  IInv'
<1> DEFINE f == [pc |-> "allocate", al |-> current, req |-> r]
<1>1. current \in Allocators /\ current \in exists
  BY DEF IInv, TypeOK
<1>2. f \in Frames
  BY <1>1 DEF Frames
<1>3. ~HasBlock(frame[t]) /\ ~HasBlock(f)
  BY DEF BeginCreate, HasBlock, Idle
<1>4. Goes(t, f) /\ UNCHANGED <<current, exists, blocks, owned, lost>>
  BY DEF BeginCreate
<1>5. QED
  BY <1>1, <1>2, <1>3, <1>4, LocalStep DEF HasBlock

LEMMA IdleStep ==
  ASSUME IInv, NEW t \in Threads, ~HasBlock(frame[t]),
         Goes(t, Idle), UNCHANGED <<current, exists, blocks, owned, lost>>
  PROVE  IInv'
<1>1. Idle \in Frames /\ Idle.pc = "idle"
  BY DEF Frames, Idle
<1>2. QED
  BY <1>1, LocalStep DEF HasBlock

LEMMA AllocateNothingKeeps ==
  ASSUME IInv, NEW t \in Threads, AllocateNothing(t)
  PROVE  IInv'
<1>1. frame[t].pc = "allocate" /\ Bytes(frame[t].req) = 0
  BY DEF AllocateNothing
<1>2. frame[t].req.count = 0 \/ Bare(frame[t].req)
  BY <1>1, ThreadFacts, RequestSizes
<1>3. Goes(t, Idle) /\ UNCHANGED <<current, exists, blocks, owned, lost>>
  BY <1>2 DEF AllocateNothing
<1>4. QED
  BY <1>1, <1>3, IdleStep DEF HasBlock

LEMMA AllocateThrowsKeeps ==
  ASSUME IInv, NEW t \in Threads, AllocateThrows(t)
  PROVE  IInv'
BY IdleStep DEF AllocateThrows, HasBlock

LEMMA ConstructElementKeeps ==
  ASSUME IInv, NEW t \in Threads, ConstructElement(t)
  PROVE  IInv'
<1> DEFINE f == [frame[t] EXCEPT !.done = @ + 1]
<1>1. /\ frame[t].pc = "construct" /\ frame[t].done < frame[t].req.count
      /\ Goes(t, f) /\ UNCHANGED <<current, exists, blocks, owned, lost>>
  BY DEF ConstructElement, Remaining
<1>2. HasBlock(frame[t]) /\ frame[t] # Idle
  BY <1>1 DEF HasBlock, Idle
<1>3. /\ f \in Frames /\ f.pc = frame[t].pc /\ f.al = frame[t].al
      /\ f.req = frame[t].req /\ f.addr = frame[t].addr /\ f.done = frame[t].done + 1
  BY <1>2, ThreadFacts, FrameGoesOn
<1>4. f.done <= f.req.count
  BY <1>1, <1>2, <1>3, ThreadFacts, RequestSizes
<1>5. Arena[f.al] = Arena[current]
  BY <1>1, <1>3 DEF IInv, CreatedCanGoBack, Creating
<1>6. f.al \in exists
  BY <1>2, <1>3, ThreadFacts
<1> HIDE DEF f
<1>7. QED
  BY <1>1, <1>2, <1>3, <1>4, <1>5, <1>6, LocalStep DEF HasBlock

LEMMA DestroyElementKeeps ==
  ASSUME IInv, NEW t \in Threads, DestroyElement(t)
  PROVE  IInv'
<1>1. /\ frame[t].pc = "destroy"
      /\ UNCHANGED <<current, exists, blocks, owned, lost>>
  BY DEF DestroyElement
<1>2. HasBlock(frame[t]) /\ frame[t] # Idle
  BY <1>1 DEF HasBlock, Idle
<1>3. frame[t].al \in exists
  BY <1>2, ThreadFacts
<1>4. CASE Remaining(frame[t])
  <2> DEFINE f == [frame[t] EXCEPT !.done = @ + 1]
  <2>1. /\ f \in Frames /\ f.pc = frame[t].pc /\ f.al = frame[t].al
        /\ f.req = frame[t].req /\ f.addr = frame[t].addr /\ f.done = frame[t].done + 1
    BY <1>2, ThreadFacts, FrameGoesOn
  <2>2. f.done <= f.req.count
    BY <1>1, <1>2, <1>4, <2>1, ThreadFacts, RequestSizes DEF Remaining
  <2>3. Goes(t, f)
    BY <1>4 DEF DestroyElement
  <2> HIDE DEF f
  <2>4. QED
    BY <1>1, <1>2, <1>3, <2>1, <2>2, <2>3, LocalStep DEF HasBlock
<1>5. CASE ~Remaining(frame[t])
  <2> DEFINE f == [frame[t] EXCEPT !.pc = "deallocate"]
  <2>1. /\ f \in Frames /\ f.pc = "deallocate" /\ f.al = frame[t].al
        /\ f.req = frame[t].req /\ f.addr = frame[t].addr
    BY <1>2, ThreadFacts, FrameGoesOn
  <2>2. Goes(t, f)
    BY <1>5 DEF DestroyElement
  <2> HIDE DEF f
  <2>3. QED
    BY <1>1, <1>2, <1>3, <2>1, <2>2, LocalStep DEF HasBlock
<1>6. QED
  BY <1>4, <1>5
-----------------------------------------------------------------------------
(***************************************************************************)
(* A step that takes a block over, or gives it up.                         *)
(***************************************************************************)
LEMMA FrameAfter ==
  ASSUME IInv, NEW t \in Threads, NEW f \in Frames, Goes(t, f)
  PROVE  /\ frame' \in [Threads -> Frames]
         /\ frame'[t] = f /\ \A u \in Threads \ {t} : frame'[u] = frame[u]
         /\ \A a \in Addresses :
              /\ t \in Uses(a) <=> HasBlock(frame[t]) /\ frame[t].addr = a
              /\ HasBlock(f) /\ f.addr = a => Uses(a)' = Uses(a) \cup {t}
              /\ ~(HasBlock(f) /\ f.addr = a) => Uses(a)' = Uses(a) \ {t}
<1>1. /\ frame \in [Threads -> Frames]
      /\ frame' = [frame EXCEPT ![t] = f]
      /\ frame' \in [Threads -> Frames]
      /\ frame'[t] = f /\ \A u \in Threads \ {t} : frame'[u] = frame[u]
  BY DEF IInv, TypeOK, Goes
<1>2. ASSUME NEW a \in Addresses
      PROVE  /\ t \in Uses(a) <=> HasBlock(frame[t]) /\ frame[t].addr = a
             /\ HasBlock(f) /\ f.addr = a => Uses(a)' = Uses(a) \cup {t}
             /\ ~(HasBlock(f) /\ f.addr = a) => Uses(a)' = Uses(a) \ {t}
  BY <1>1 DEF Uses, HasBlock
<1>3. QED
  BY <1>1, <1>2

LEMMA AllocateKeeps ==
  ASSUME IInv, NEW t \in Threads, NEW a \in Addresses, Allocate(t, a)
  PROVE  IInv'
<1> DEFINE f == frame[t]
           b == [arena |-> Arena[f.al], bytes |-> Bytes(f.req), align |-> Align(f.req)]
           g == IF Bare(f.req) THEN Idle
                ELSE [pc |-> "construct", al |-> f.al, req |-> f.req, addr |-> a, done |-> 0]
<1>1. /\ f.pc = "allocate" /\ Bytes(f.req) > 0 /\ blocks[a] = NoBlock
      /\ blocks' = [blocks EXCEPT ![a] = b]
      /\ owned' = IF Bare(f.req) THEN [owned EXCEPT ![a] = f.req] ELSE owned
      /\ Goes(t, g)
      /\ UNCHANGED <<current, exists, lost>>
  BY DEF Allocate
<1>2. /\ f.al \in Allocators /\ f.al \in exists /\ f.req \in Requests
      /\ Arena[f.al] = Arena[current] /\ ~HasBlock(f)
  BY <1>1, ThreadFacts DEF IInv, CreatedCanGoBack, Creating, HasBlock, Idle
<1>3. /\ Bytes(f.req) \in 1..(Word - 1) /\ Align(f.req) \in Nat
      /\ f.req.count \in Nat
  BY <1>1, <1>2, RequestSizes, WordIsLarge
<1>4. b \in Blocks /\ b # NoBlock
  BY <1>2, <1>3, BlockKinds
<1>5. g \in Frames
  BY <1>2 DEF Frames
<1>6. /\ HasBlock(g) <=> ~Bare(f.req)
      /\ HasBlock(g) => /\ g.pc = "construct" /\ g.addr = a /\ g.req = f.req
                        /\ g.al = f.al /\ g.done = 0
      /\ ~HasBlock(g) => g = Idle /\ g.pc = "idle"
  BY DEF HasBlock, Idle
<1>7. /\ b.arena = Arena[f.al] /\ b.bytes = Bytes(f.req) /\ b.align = Align(f.req)
  OBVIOUS
<1>8. owned[a] = NoReq /\ a \notin lost /\ Uses(a) = {}
  BY <1>1 DEF IInv, NothingLost
<1>9. f.req # NoReq
  BY <1>2, RequestKinds
<1> HIDE DEF f, b, g
<1>10. /\ blocks \in [Addresses -> Blocks \cup {NoBlock}]
       /\ owned \in [Addresses -> Requests \cup {NoReq}]
  BY DEF IInv, TypeOK
<1>11. /\ blocks' \in [Addresses -> Blocks \cup {NoBlock}]
       /\ owned' \in [Addresses -> Requests \cup {NoReq}]
       /\ blocks'[a] = b /\ \A x \in Addresses \ {a} : blocks'[x] = blocks[x]
       /\ owned'[a] = IF Bare(f.req) THEN f.req ELSE NoReq
       /\ \A x \in Addresses \ {a} : owned'[x] = owned[x]
  BY <1>1, <1>2, <1>4, <1>8, <1>10
<1>12. /\ frame' \in [Threads -> Frames]
       /\ frame'[t] = g /\ \A u \in Threads \ {t} : frame'[u] = frame[u]
       /\ \A x \in Addresses \ {a} : Uses(x)' = Uses(x)
       /\ Uses(a)' = IF Bare(f.req) THEN {} ELSE {t}
  <2>1. \A x \in Addresses : t \notin Uses(x)
    BY <1>1, <1>2, <1>5, FrameAfter DEF f
  <2>2. /\ frame' \in [Threads -> Frames]
        /\ frame'[t] = g /\ \A u \in Threads \ {t} : frame'[u] = frame[u]
        /\ \A x \in Addresses :
             /\ HasBlock(g) /\ g.addr = x => Uses(x)' = Uses(x) \cup {t}
             /\ ~(HasBlock(g) /\ g.addr = x) => Uses(x)' = Uses(x) \ {t}
    BY <1>1, <1>5, FrameAfter
  <2>3. ASSUME NEW x \in Addresses \ {a}
        PROVE  Uses(x)' = Uses(x)
    BY <1>6, <2>1, <2>2
  <2>4. Bare(f.req) => Uses(a)' = {}
    BY <1>6, <1>8, <2>2
  <2>5. ~Bare(f.req) => Uses(a)' = {t}
    BY <1>6, <1>8, <2>2
  <2>6. QED
    BY <2>2, <2>3, <2>4, <2>5
<1>13. TypeOK'
  <2>1. \A u \in Threads : frame'[u].pc \in {"construct", "destroy"} =>
          frame'[u].done <= frame'[u].req.count
    BY <1>3, <1>6, <1>12 DEF IInv, TypeOK
  <2>2. QED
    BY <1>1, <1>11, <1>12, <2>1 DEF IInv, TypeOK
<1>14. HeldCanGoBack'
  BY <1>1, <1>2, <1>4, <1>7, <1>8, <1>11 DEF IInv, HeldCanGoBack, BlockFor
<1>15. CreatedCanGoBack'
  BY <1>1, <1>2, <1>6, <1>12 DEF IInv, CreatedCanGoBack, Creating
<1>16. FoundExists'
  BY <1>1, <1>2, <1>6, <1>12 DEF IInv, FoundExists
<1>17. FoundTakesBack'
  <2> SUFFICES ASSUME NEW u \in Threads, HasBlock(frame'[u])
               PROVE  /\ BlockFor(frame[u].addr, frame[u].req)'
                      /\ blocks'[frame'[u].addr].arena = Arena[frame'[u].al]
    BY DEF FoundTakesBack, HasBlock
  <2>1. CASE u = t
    BY <1>4, <1>6, <1>7, <1>11, <1>12, <2>1 DEF BlockFor
  <2>2. CASE u # t
    <3>1. frame'[u] = frame[u] /\ HasBlock(frame[u]) /\ frame[u].addr \in Addresses
          /\ u \in Uses(frame[u].addr)
      BY <1>12, <2>2, ThreadFacts
    <3>2. frame[u].addr # a
      BY <3>1, <1>8
    <3>3. QED
      BY <1>11, <3>1, <3>2 DEF IInv, FoundTakesBack, BlockFor
  <2>3. QED
    BY <2>1, <2>2
<1>18. NothingLost'
  <2> SUFFICES ASSUME NEW x \in Addresses
               PROVE  /\ (blocks'[x] # NoBlock)
                          <=> (owned'[x] # NoReq \/ x \in lost' \/ Uses(x)' # {})
                      /\ x \in lost' => owned'[x] = NoReq /\ Uses(x)' = {}
                      /\ owned'[x] # NoReq => Uses(x)' = {}
                      /\ \A v, u \in Uses(x)' : v = u
    BY DEF NothingLost
  <2>1. CASE x = a
    BY <1>1, <1>4, <1>8, <1>9, <1>11, <1>12, <2>1
  <2>2. CASE x # a
    BY <1>1, <1>11, <1>12, <2>2 DEF IInv, NothingLost
  <2>3. QED
    BY <2>1, <2>2
<1>19. QED
  BY <1>13, <1>14, <1>15, <1>16, <1>17, <1>18 DEF IInv

(***************************************************************************)
(* A call that ends, having worked on a block.                             *)
(***************************************************************************)
LEMMA EndOfCall ==
  ASSUME IInv, NEW t \in Threads, HasBlock(frame[t]), Goes(t, Idle)
  PROVE  /\ frame' \in [Threads -> Frames]
         /\ frame'[t] = Idle /\ \A u \in Threads \ {t} : frame'[u] = frame[u]
         /\ frame[t].addr \in Addresses
         /\ frame[t].addr \notin lost
         /\ owned[frame[t].addr] = NoReq
         /\ blocks[frame[t].addr] # NoBlock
         /\ \A x \in Addresses : Uses(x)' = IF x = frame[t].addr THEN {} ELSE Uses(x)
         /\ \A u \in Threads \ {t} : HasBlock(frame[u]) =>
              frame[u].addr \in Addresses \ {frame[t].addr}
<1> DEFINE a == frame[t].addr
<1>1. a \in Addresses /\ t \in Uses(a)
  BY ThreadFacts
<1>2. a \notin lost /\ owned[a] = NoReq /\ blocks[a] # NoBlock
      /\ \A u \in Uses(a) : u = t
  BY <1>1 DEF IInv, NothingLost
<1>3. Idle \in Frames /\ ~HasBlock(Idle)
  BY DEF Frames, Idle, HasBlock
<1>4. /\ frame' \in [Threads -> Frames]
      /\ frame'[t] = Idle /\ \A u \in Threads \ {t} : frame'[u] = frame[u]
      /\ \A x \in Addresses : Uses(x)' = Uses(x) \ {t}
  BY <1>3, FrameAfter
<1>5. \A x \in Addresses \ {a} : t \notin Uses(x)
  BY <1>3, FrameAfter
<1>6. ASSUME NEW u \in Threads \ {t}, HasBlock(frame[u])
      PROVE  frame[u].addr \in Addresses \ {a}
  BY <1>2, <1>6, ThreadFacts
<1>7. ASSUME NEW x \in Addresses
      PROVE  Uses(x)' = IF x = a THEN {} ELSE Uses(x)
  <2>1. Uses(x)' = Uses(x) \ {t}
    BY <1>4
  <2>2. CASE x = a
    BY <1>2, <2>1, <2>2
  <2>3. CASE x # a
    BY <1>5, <2>1, <2>3
  <2>4. QED
    BY <2>2, <2>3
<1>8. QED
  BY <1>1, <1>2, <1>4, <1>6, <1>7

LEMMA ConstructorThrowsKeeps ==
  ASSUME IInv, NEW t \in Threads, ConstructorThrows(t)
  PROVE  IInv'
<1> DEFINE a == frame[t].addr
<1>1. /\ HasBlock(frame[t]) /\ Goes(t, Idle) /\ lost' = lost \cup {a}
      /\ UNCHANGED <<current, exists, blocks, owned>>
  BY DEF ConstructorThrows, HasBlock
<1>2. /\ frame' \in [Threads -> Frames]
      /\ frame'[t] = Idle /\ \A u \in Threads \ {t} : frame'[u] = frame[u]
      /\ a \in Addresses /\ owned[a] = NoReq /\ blocks[a] # NoBlock
      /\ \A x \in Addresses : Uses(x)' = IF x = a THEN {} ELSE Uses(x)
  BY <1>1, EndOfCall
<1>3. Idle.pc = "idle" /\ ~HasBlock(Idle)
  BY DEF Idle, HasBlock
<1> HIDE DEF a
<1>4. TypeOK'
  <2>1. \A u \in Threads : frame'[u].pc \in {"construct", "destroy"} =>
          frame'[u].done <= frame'[u].req.count
    BY <1>2, <1>3 DEF IInv, TypeOK
  <2>2. QED
    BY <1>1, <1>2, <2>1 DEF IInv, TypeOK
<1>5. HeldCanGoBack' /\ CreatedCanGoBack' /\ FoundExists'
  BY <1>1, <1>2, <1>3
  DEF IInv, HeldCanGoBack, CreatedCanGoBack, FoundExists, Creating, BlockFor
<1>6. FoundTakesBack'
  BY <1>1, <1>2, <1>3 DEF IInv, FoundTakesBack, BlockFor, HasBlock
<1>7. NothingLost'
  <2> SUFFICES ASSUME NEW x \in Addresses
               PROVE  /\ (blocks[x] # NoBlock)
                          <=> (owned[x] # NoReq \/ x \in lost' \/ Uses(x)' # {})
                      /\ x \in lost' => owned[x] = NoReq /\ Uses(x)' = {}
                      /\ owned[x] # NoReq => Uses(x)' = {}
                      /\ \A v, u \in Uses(x)' : v = u
    BY <1>1 DEF NothingLost
  <2>1. CASE x = a
    BY <1>1, <1>2, <2>1
  <2>2. CASE x # a
    BY <1>1, <1>2, <2>2 DEF IInv, NothingLost
  <2>3. QED
    BY <2>1, <2>2
<1>8. QED
  BY <1>4, <1>5, <1>6, <1>7 DEF IInv

LEMMA EndCreateKeeps ==
  ASSUME IInv, NEW t \in Threads, EndCreate(t)
  PROVE  IInv'
<1> DEFINE a == frame[t].addr
           r == frame[t].req
<1>1. /\ frame[t].pc = "construct" /\ HasBlock(frame[t]) /\ Goes(t, Idle)
      /\ owned' = [owned EXCEPT ![a] = r]
      /\ UNCHANGED <<current, exists, blocks, lost>>
  BY DEF EndCreate, HasBlock
<1>2. /\ frame' \in [Threads -> Frames]
      /\ frame'[t] = Idle /\ \A u \in Threads \ {t} : frame'[u] = frame[u]
      /\ a \in Addresses /\ a \notin lost /\ blocks[a] # NoBlock
      /\ \A x \in Addresses : Uses(x)' = IF x = a THEN {} ELSE Uses(x)
  BY <1>1, EndOfCall
<1>3. Idle.pc = "idle" /\ ~HasBlock(Idle)
  BY DEF Idle, HasBlock
<1>4. r \in Requests /\ r # NoReq
  BY <1>1, ThreadFacts, RequestKinds
<1>5. BlockFor(a, r) /\ blocks[a].arena = Arena[current]
  BY <1>1 DEF IInv, FoundTakesBack, CreatedCanGoBack, Creating
<1> HIDE DEF a, r
<1>6. /\ owned' \in [Addresses -> Requests \cup {NoReq}]
      /\ owned'[a] = r /\ \A x \in Addresses \ {a} : owned'[x] = owned[x]
  BY <1>1, <1>2, <1>4 DEF IInv, TypeOK
<1>7. TypeOK'
  <2>1. \A u \in Threads : frame'[u].pc \in {"construct", "destroy"} =>
          frame'[u].done <= frame'[u].req.count
    BY <1>2, <1>3 DEF IInv, TypeOK
  <2>2. QED
    BY <1>1, <1>2, <1>6, <2>1 DEF IInv, TypeOK
<1>8. HeldCanGoBack'
  BY <1>1, <1>5, <1>6 DEF IInv, HeldCanGoBack, BlockFor
<1>9. CreatedCanGoBack' /\ FoundExists'
  BY <1>1, <1>2, <1>3 DEF IInv, CreatedCanGoBack, FoundExists, Creating
<1>10. FoundTakesBack'
  BY <1>1, <1>2, <1>3 DEF IInv, FoundTakesBack, BlockFor, HasBlock
<1>11. NothingLost'
  <2> SUFFICES ASSUME NEW x \in Addresses
               PROVE  /\ (blocks[x] # NoBlock)
                          <=> (owned'[x] # NoReq \/ x \in lost \/ Uses(x)' # {})
                      /\ x \in lost => owned'[x] = NoReq /\ Uses(x)' = {}
                      /\ owned'[x] # NoReq => Uses(x)' = {}
                      /\ \A v, u \in Uses(x)' : v = u
    BY <1>1 DEF NothingLost
  <2>1. CASE x = a
    BY <1>2, <1>4, <1>6, <2>1
  <2>2. CASE x # a
    BY <1>2, <1>6, <2>2 DEF IInv, NothingLost
  <2>3. QED
    BY <2>1, <2>2
<1>12. QED
  BY <1>7, <1>8, <1>9, <1>10, <1>11 DEF IInv

LEMMA DeallocateKeeps ==
  ASSUME IInv, NEW t \in Threads, Deallocate(t)
  PROVE  IInv'
<1> DEFINE a == frame[t].addr
<1>1. /\ HasBlock(frame[t]) /\ Goes(t, Idle)
      /\ blocks' = [blocks EXCEPT ![a] = NoBlock]
      /\ UNCHANGED <<current, exists, owned, lost>>
  BY DEF Deallocate, HasBlock
<1>2. /\ frame' \in [Threads -> Frames]
      /\ frame'[t] = Idle /\ \A u \in Threads \ {t} : frame'[u] = frame[u]
      /\ a \in Addresses /\ a \notin lost /\ owned[a] = NoReq
      /\ \A x \in Addresses : Uses(x)' = IF x = a THEN {} ELSE Uses(x)
      /\ \A u \in Threads \ {t} : HasBlock(frame[u]) =>
           frame[u].addr \in Addresses \ {a}
  BY <1>1, EndOfCall
<1>3. Idle.pc = "idle" /\ ~HasBlock(Idle)
  BY DEF Idle, HasBlock
<1> HIDE DEF a
<1>4. /\ blocks' \in [Addresses -> Blocks \cup {NoBlock}]
      /\ blocks'[a] = NoBlock /\ \A x \in Addresses \ {a} : blocks'[x] = blocks[x]
  BY <1>1, <1>2 DEF IInv, TypeOK
<1>5. TypeOK'
  <2>1. \A u \in Threads : frame'[u].pc \in {"construct", "destroy"} =>
          frame'[u].done <= frame'[u].req.count
    BY <1>2, <1>3 DEF IInv, TypeOK
  <2>2. QED
    BY <1>1, <1>2, <1>4, <2>1 DEF IInv, TypeOK
<1>6. HeldCanGoBack'
  BY <1>1, <1>2, <1>4 DEF IInv, HeldCanGoBack, BlockFor
<1>7. CreatedCanGoBack' /\ FoundExists'
  BY <1>1, <1>2, <1>3 DEF IInv, CreatedCanGoBack, FoundExists, Creating
<1>8. FoundTakesBack'
  BY <1>1, <1>2, <1>3, <1>4 DEF IInv, FoundTakesBack, BlockFor, HasBlock
<1>9. NothingLost'
  <2> SUFFICES ASSUME NEW x \in Addresses
               PROVE  /\ (blocks'[x] # NoBlock)
                          <=> (owned[x] # NoReq \/ x \in lost \/ Uses(x)' # {})
                      /\ x \in lost => owned[x] = NoReq /\ Uses(x)' = {}
                      /\ owned[x] # NoReq => Uses(x)' = {}
                      /\ \A v, u \in Uses(x)' : v = u
    BY <1>1 DEF NothingLost
  <2>1. CASE x = a
    BY <1>2, <1>4, <2>1
  <2>2. CASE x # a
    BY <1>2, <1>4, <2>2 DEF IInv, NothingLost
  <2>3. QED
    BY <2>1, <2>2
<1>10. QED
  BY <1>5, <1>6, <1>7, <1>8, <1>9 DEF IInv

(***************************************************************************)
(* A deletion takes the block from the program.  A block has at least one  *)
(* byte, so that delete_object_array never takes it for an empty array.    *)
(***************************************************************************)
LEMMA BeginDeleteKeeps ==
  ASSUME IInv, NEW t \in Threads, NEW a \in Addresses, BeginDelete(t, a)
  PROVE  IInv'
<1> DEFINE r == owned[a]
           f == [pc |-> IF Bare(r) THEN "deallocate" ELSE "destroy",
                 al |-> current, req |-> r, addr |-> a, done |-> 0]
<1>1. /\ frame[t] = Idle /\ r # NoReq
      /\ owned' = [owned EXCEPT ![a] = NoReq]
      /\ UNCHANGED <<current, exists, blocks, lost>>
  BY DEF BeginDelete
<1>2. r \in Requests
  BY <1>1 DEF IInv, TypeOK
<1>3. BlockFor(a, r) /\ blocks[a].arena = Arena[current] /\ blocks[a] \in Blocks
  BY <1>1 DEF IInv, TypeOK, HeldCanGoBack, BlockFor
<1>4. Deletes(r)
  <2>1. Bytes(r) # 0
    BY <1>3, WordIsLarge DEF Blocks, BlockFor
  <2>2. QED
    BY <1>2, <2>1, RequestSizes DEF Deletes
<1>5. Goes(t, f)
  BY <1>1, <1>4 DEF BeginDelete
<1>6. current \in Allocators /\ current \in exists
  BY DEF IInv, TypeOK
<1>7. f \in Frames
  <2>1. f.pc \in {"construct", "destroy", "deallocate"}
    OBVIOUS
  <2>2. QED
    BY <1>2, <1>6, <2>1 DEF Frames
<1>8. /\ HasBlock(f) /\ f.addr = a /\ f.req = r /\ f.al = current /\ f.done = 0
      /\ f # Idle /\ f.pc \notin {"allocate", "construct"}
  BY DEF HasBlock, Idle
<1>9. ~HasBlock(frame[t])
  BY <1>1 DEF HasBlock, Idle
<1>10. a \notin lost /\ Uses(a) = {} /\ blocks[a] # NoBlock
  BY <1>1 DEF IInv, NothingLost
<1>11. r.count \in Nat
  BY <1>2, RequestSizes
<1> HIDE DEF f, r
<1>12. /\ frame' \in [Threads -> Frames]
       /\ frame'[t] = f /\ \A u \in Threads \ {t} : frame'[u] = frame[u]
       /\ \A x \in Addresses : Uses(x)' = IF x = a THEN {t} ELSE Uses(x)
  <2>1. /\ frame' \in [Threads -> Frames]
        /\ frame'[t] = f /\ \A u \in Threads \ {t} : frame'[u] = frame[u]
        /\ \A x \in Addresses :
             /\ t \notin Uses(x)
             /\ x = a => Uses(x)' = Uses(x) \cup {t}
             /\ x # a => Uses(x)' = Uses(x) \ {t}
    BY <1>5, <1>7, <1>8, <1>9, FrameAfter
  <2>2. ASSUME NEW x \in Addresses
        PROVE  Uses(x)' = IF x = a THEN {t} ELSE Uses(x)
    <3>1. CASE x = a
      BY <1>10, <2>1, <3>1
    <3>2. CASE x # a
      BY <2>1, <3>2
    <3>3. QED
      BY <3>1, <3>2
  <2>3. QED
    BY <2>1, <2>2
<1>13. /\ owned' \in [Addresses -> Requests \cup {NoReq}]
       /\ owned'[a] = NoReq /\ \A x \in Addresses \ {a} : owned'[x] = owned[x]
  BY <1>1 DEF IInv, TypeOK
<1>14. TypeOK'
  <2>1. \A u \in Threads : frame'[u].pc \in {"construct", "destroy"} =>
          frame'[u].done <= frame'[u].req.count
    BY <1>8, <1>11, <1>12 DEF IInv, TypeOK
  <2>2. QED
    BY <1>1, <1>12, <1>13, <2>1 DEF IInv, TypeOK
<1>15. HeldCanGoBack'
  BY <1>1, <1>13 DEF IInv, HeldCanGoBack, BlockFor
<1>16. CreatedCanGoBack' /\ FoundExists'
  BY <1>1, <1>6, <1>8, <1>12 DEF IInv, CreatedCanGoBack, FoundExists, Creating
<1>17. FoundTakesBack'
  BY <1>1, <1>3, <1>8, <1>12 DEF IInv, FoundTakesBack, BlockFor, HasBlock
<1>18. NothingLost'
  <2> SUFFICES ASSUME NEW x \in Addresses
               PROVE  /\ (blocks[x] # NoBlock)
                          <=> (owned'[x] # NoReq \/ x \in lost \/ Uses(x)' # {})
                      /\ x \in lost => owned'[x] = NoReq /\ Uses(x)' = {}
                      /\ owned'[x] # NoReq => Uses(x)' = {}
                      /\ \A v, u \in Uses(x)' : v = u
    BY <1>1 DEF NothingLost
  <2>1. CASE x = a
    BY <1>10, <1>12, <1>13, <2>1
  <2>2. CASE x # a
    BY <1>12, <1>13, <2>2 DEF IInv, NothingLost
  <2>3. QED
    BY <2>1, <2>2
<1>19. QED
  BY <1>14, <1>15, <1>16, <1>17, <1>18 DEF IInv
-----------------------------------------------------------------------------
(***************************************************************************)
(* Allocators that come and go, and a switch between them.                 *)
(***************************************************************************)
LEMMA AllocatorStep ==
  ASSUME IInv, UNCHANGED <<blocks, owned, lost, frame>>,
         exists' \subseteq Allocators, {current', Default} \subseteq exists',
         \A a \in Addresses : owned[a] # NoReq => blocks[a].arena = Arena[current'],
         \A t \in Threads : Creating(t) => Arena[frame[t].al] = Arena[current'],
         \A t \in Threads : frame[t] # Idle => frame[t].al \in exists'
  PROVE  IInv'
<1>1. TypeOK'
  BY DEF IInv, TypeOK
<1>2. HeldCanGoBack' /\ CreatedCanGoBack' /\ FoundExists'
  BY DEF IInv, HeldCanGoBack, CreatedCanGoBack, FoundExists, BlockFor, Creating
<1>3. FoundTakesBack'
  BY DEF IInv, FoundTakesBack, BlockFor
<1>4. NothingLost'
  BY DEF IInv, NothingLost, Uses
<1>5. QED
  BY <1>1, <1>2, <1>3, <1>4 DEF IInv

LEMMA SwitchKeeps ==
  ASSUME IInv, NEW al \in exists, MaySwitch(al), current' = al,
         UNCHANGED <<exists, blocks, owned, lost, frame>>
  PROVE  IInv'
<1>1. exists \subseteq Allocators /\ Default \in exists
  BY DEF IInv, TypeOK
<1>2. \A t \in Threads : frame[t] # Idle => frame[t].al \in exists
  BY DEF IInv, FoundExists
<1>3. QED
  BY <1>1, <1>2, AllocatorStep DEF MaySwitch

LEMMA CreateAllocatorKeeps ==
  ASSUME IInv, NEW al \in Customs, CreateAllocator(al)
  PROVE  IInv'
<1>1. /\ exists' = exists \cup {al}
      /\ UNCHANGED <<current, blocks, owned, lost, frame>>
  BY DEF CreateAllocator
<1>2. exists' \subseteq Allocators /\ {current', Default} \subseteq exists'
  BY <1>1 DEF IInv, TypeOK, Allocators
<1>3. QED
  BY <1>1, <1>2, AllocatorStep
  DEF IInv, HeldCanGoBack, CreatedCanGoBack, FoundExists

LEMMA DestroyAllocatorKeeps ==
  ASSUME IInv, NEW al \in Customs, DestroyAllocator(al)
  PROVE  IInv'
<1>1. /\ al \notin {Default, current} /\ exists' = exists \ {al}
      /\ \A t \in Threads : frame[t] # Idle => frame[t].al # al
      /\ UNCHANGED <<current, blocks, owned, lost, frame>>
  BY DEF DestroyAllocator
<1>2. exists' \subseteq Allocators /\ {current', Default} \subseteq exists'
  BY <1>1 DEF IInv, TypeOK
<1>3. QED
  BY <1>1, <1>2, AllocatorStep
  DEF IInv, HeldCanGoBack, CreatedCanGoBack, FoundExists
-----------------------------------------------------------------------------
LEMMA InitInv == Init => IInv
<1> SUFFICES ASSUME Init PROVE IInv
  OBVIOUS
<1>1. /\ current = Default /\ exists = {Default} /\ lost = {}
      /\ \A a \in Addresses : blocks[a] = NoBlock /\ owned[a] = NoReq
      /\ \A t \in Threads : frame[t] = Idle /\ frame[t].pc = "idle"
  BY DEF Init, Idle
<1>2. TypeOK
  BY <1>1 DEF Init, TypeOK, Allocators, Frames
<1>3. HeldCanGoBack /\ CreatedCanGoBack /\ FoundExists /\ FoundTakesBack
  BY <1>1 DEF HeldCanGoBack, CreatedCanGoBack, FoundExists, FoundTakesBack,
              Creating, HasBlock
<1>4. \A a \in Addresses : Uses(a) = {}
  BY <1>1 DEF Uses
<1>5. NothingLost
  BY <1>1, <1>4 DEF NothingLost
<1>6. QED
  BY <1>2, <1>3, <1>5 DEF IInv

LEMMA NextKeepsInv == IInv /\ [Next]_vars => IInv'
<1> SUFFICES ASSUME IInv, [Next]_vars PROVE IInv'
  OBVIOUS
<1>1. ASSUME NEW t \in Threads, Calls(t)
      PROVE  IInv'
  <2>1. CASE \E r \in Requests : BeginCreate(t, r)
    BY <2>1, BeginCreateKeeps
  <2>2. CASE AllocateNothing(t) \/ AllocateThrows(t)
    BY <2>2, AllocateNothingKeeps, AllocateThrowsKeeps
  <2>3. CASE ConstructElement(t) \/ ConstructorThrows(t) \/ EndCreate(t)
    BY <2>3, ConstructElementKeeps, ConstructorThrowsKeeps, EndCreateKeeps
  <2>4. CASE \E a \in Addresses : Allocate(t, a) \/ BeginDelete(t, a)
    BY <2>4, AllocateKeeps, BeginDeleteKeeps
  <2>5. CASE DestroyElement(t) \/ Deallocate(t)
    BY <2>5, DestroyElementKeeps, DeallocateKeeps
  <2>6. QED
    BY <1>1, <2>1, <2>2, <2>3, <2>4, <2>5 DEF Calls
<1>2. ASSUME NEW al \in Customs, SetGlobal(al) \/ CreateAllocator(al) \/ DestroyAllocator(al)
      PROVE  IInv'
  <2>1. CASE SetGlobal(al)
    BY <2>1, SwitchKeeps DEF SetGlobal
  <2>2. CASE CreateAllocator(al) \/ DestroyAllocator(al)
    BY <2>2, CreateAllocatorKeeps, DestroyAllocatorKeeps
  <2>3. QED
    BY <1>2, <2>1, <2>2
<1>3. CASE ResetGlobal
  <2>1. Default \in exists
    BY DEF IInv, TypeOK
  <2>2. QED
    BY <1>3, <2>1, SwitchKeeps DEF ResetGlobal
<1>4. CASE UNCHANGED vars
  <2>1. UNCHANGED <<current, exists, blocks, owned, lost, frame>>
    BY <1>4 DEF vars
  <2>2. QED
    BY <2>1, AllocatorStep
    DEF IInv, TypeOK, HeldCanGoBack, CreatedCanGoBack, FoundExists
<1>5. QED
  BY <1>1, <1>2, <1>3, <1>4 DEF Next

(***************************************************************************)
(* Whatever is held, created or deleted can go back where it came from.    *)
(***************************************************************************)
THEOREM Invariance == Spec => []IInv
<1>1. Init => IInv
  BY InitInv
<1>2. IInv /\ [Next]_vars => IInv'
  BY NextKeepsInv
<1>3. QED
  BY <1>1, <1>2, PTL DEF Spec

(***************************************************************************)
(* Every variable has its type, and no loop goes past the last element.    *)
(***************************************************************************)
THEOREM TypeCorrect == Spec => []TypeOK
<1>1. IInv => TypeOK
  BY DEF IInv
<1>2. QED
  BY <1>1, Invariance, PTL

(***************************************************************************)
(* A block is given back to an allocator that exists and shares its arena. *)
(***************************************************************************)
THEOREM EveryBlockReturnsHome == Spec => []BlocksReturnHome
<1>1. IInv => BlocksReturnHome
  BY DEF IInv, FoundExists, FoundTakesBack, HasBlock, BlocksReturnHome, Found
<1>2. QED
  BY <1>1, Invariance, PTL

(***************************************************************************)
(* A block is given back with the size and alignment it was given out with.*)
(***************************************************************************)
THEOREM EveryBlockReturnsAsAllocated == Spec => []ReturnedAsAllocated
<1>1. ASSUME IInv, NEW t \in Threads, frame[t].pc = "deallocate"
      PROVE  /\ blocks[frame[t].addr].bytes = BytesReturned(frame[t].req)
             /\ blocks[frame[t].addr].align = Align(frame[t].req)
  <2>1. BlockFor(frame[t].addr, frame[t].req)
    BY <1>1 DEF IInv, FoundTakesBack, HasBlock
  <2>2. frame[t].req \in Requests
    BY <1>1, ThreadFacts
  <2>3. QED
    BY <2>1, <2>2, RequestSizes DEF BlockFor
<1>2. IInv => ReturnedAsAllocated
  BY <1>1 DEF ReturnedAsAllocated
<1>3. QED
  BY <1>2, Invariance, PTL

(***************************************************************************)
(* Elements are constructed and destroyed inside of their block.           *)
(***************************************************************************)
THEOREM EveryElementFits == Spec => []ElementsFit
<1>1. ASSUME IInv, NEW t \in Threads,
             frame[t].pc \in {"construct", "destroy"}, Remaining(frame[t])
      PROVE  /\ frame[t].addr # Null
             /\ (frame[t].done + 1) * Size <= blocks[frame[t].addr].bytes
  <2>1. HasBlock(frame[t])
    BY <1>1 DEF HasBlock
  <2>2. /\ frame[t].addr \in Addresses /\ frame[t].done \in Nat
        /\ frame[t].req \in Requests /\ ~Bare(frame[t].req)
    BY <1>1, <2>1, ThreadFacts
  <2>3. blocks[frame[t].addr].bytes = Bytes(frame[t].req)
    <3>1. BlockFor(frame[t].addr, frame[t].req)
      BY <1>1, <2>1 DEF IInv, FoundTakesBack
    <3>2. QED
      BY <3>1 DEF BlockFor
  <2>4. frame[t].addr # Null
    BY <2>2, ObjectManagementAssumption
  <2>5. (frame[t].done + 1) * Size <= Bytes(frame[t].req)
    BY <1>1, <2>2, RequestSizes DEF Remaining
  <2>6. QED
    BY <2>3, <2>4, <2>5
<1>2. IInv => ElementsFit
  BY <1>1 DEF ElementsFit
<1>3. QED
  BY <1>2, Invariance, PTL

(***************************************************************************)
(* A block has one owner: the program, a call, or nobody because a         *)
(* constructor threw.                                                      *)
(***************************************************************************)
THEOREM OnlyThrowingConstructorsLose == Spec => []NothingLost
<1>1. IInv => NothingLost
  BY DEF IInv
<1>2. QED
  BY <1>1, Invariance, PTL
=============================================================================
