-------------------------- MODULE DebugHeapInvariant --------------------------
(***************************************************************************)
(* The inductive invariant of DebugHeap, for sizes that are small enough   *)
(* not to wrap around when rounded and given their metadata.               *)
(***************************************************************************)
EXTENDS DebugHeap

SizesFit ==
  \A n \in Sizes, a \in Aligns :
    /\ n + EffectiveAlign(a) - 1 < Word
    /\ Fits(UserSize(n, a), EffectiveAlign(a))
-----------------------------------------------------------------------------
\* The block under user block u, and the header it was prepared with.
StartOf(u) == u.ptr - UserBlock(EffectiveAlign(u.align))

SizeOf(u) == UserSize(u.size, u.align)

BlockOf(u) == [at    |-> StartOf(u),
               size  |-> BlockSize(SizeOf(u), EffectiveAlign(u.align)),
               align |-> EffectiveAlign(u.align)]

HeaderOf(u) ==
  Header([size |-> SizeOf(u), align |-> EffectiveAlign(u.align), state |-> "allocated"])

CellsUnder(u) == CellsOf(BlockOf(u).at, BlockOf(u).size)

\* What operator new handed out is what the client holds, apart from one another.
BlocksOfLive == blocks = {BlockOf(u) : u \in live}

LiveInArena == \A u \in live : CellsUnder(u) \subseteq Arena

LiveApart == \A u, v \in live : u # v => CellsUnder(u) \cap CellsUnder(v) = {}

\* Metadata are as they were prepared, unless the client strayed into them.
Holds(c, content) == memory[c] = IF c \in stray THEN Data ELSE content

MetadataKept ==
  \A u \in live : /\ Holds(StartOf(u), HeaderOf(u))
                  /\ Holds(u.ptr - 1, Sentinel)
                  /\ Holds(u.ptr + SizeOf(u), Sentinel)

\* A header that says "allocated" is that of a block the client holds: what is
\* left of others says "deallocated".
AllocatedAreLive ==
  \A c \in Arena :
    memory[c].holds = "header" /\ memory[c].header.state = "allocated" =>
      \E u \in live : c = StartOf(u) /\ memory[c] = HeaderOf(u)

LastReport == /\ NoFalseAlarm /\ DamageReported
              /\ MismatchReported /\ DoubleFreeReported
              /\ RightCallsAreExact

IInv == /\ TypeOK /\ BlockHoldsRequest
        /\ BlocksOfLive /\ LiveInArena /\ LiveApart
        /\ MetadataKept /\ AllocatedAreLive
        /\ LastReport
=============================================================================
