---------------------- MODULE ObjectManagementInvariant ----------------------
(***************************************************************************)
(* The inductive invariant of ObjectManagement.                            *)
(***************************************************************************)
EXTENDS ObjectManagement

HasBlock(f) == f.pc \in {"construct", "destroy", "deallocate"}

\* What a block must be like for the request r.
BlockFor(a, r) == /\ blocks[a] # NoBlock
                  /\ blocks[a].bytes = Bytes(r)
                  /\ blocks[a].align = Align(r)

(***************************************************************************)
(* What is held or being created can be given back to the allocator that   *)
(* will be found; a deletion that has begun has found one that exists and  *)
(* can take the block back.                                                *)
(***************************************************************************)
HeldCanGoBack == \A a \in Addresses : owned[a] # NoReq =>
                   BlockFor(a, owned[a]) /\ blocks[a].arena = Arena[current]

CreatedCanGoBack == \A t \in Threads : Creating(t) => Arena[frame[t].al] = Arena[current]

FoundExists == \A t \in Threads : frame[t] # Idle => frame[t].al \in exists

FoundTakesBack == \A t \in Threads : HasBlock(frame[t]) =>
  BlockFor(frame[t].addr, frame[t].req)
  /\ blocks[frame[t].addr].arena = Arena[frame[t].al]

IInv == /\ TypeOK
        /\ HeldCanGoBack /\ CreatedCanGoBack
        /\ FoundExists /\ FoundTakesBack
        /\ NothingLost
=============================================================================
