------------------------------- MODULE DebugHeap -------------------------------
(***************************************************************************)
(* system_allocator in a debug build: blocks with metadata around the      *)
(* user's bytes, a client that may write outside of its bytes or           *)
(* deallocate wrongly, and what the deallocation then reports.             *)
(*                                                                         *)
(* Memory is an arena of cells. A cell is as wide as the header and as a   *)
(* sentinel, and the client never writes a sentinel's or a header's exact  *)
(* value by chance. A header that was overwritten may read as anything.    *)
(* Every block has the tag of system_allocator. A block that cannot be     *)
(* allocated raises an exception and changes nothing.                      *)
(***************************************************************************)
EXTENDS DebugBlock, FiniteSets

CONSTANTS Cells,     \* size of the arena
          Sizes,     \* sizes the client asks for
          Aligns,    \* alignments the client asks for, 0 for the default
          MaxStray   \* bound: cells the client has written and does not own

ASSUME DebugHeapAssumption ==
  /\ HeaderSize = 1 /\ SentinelSize = 1
  /\ Cells \in Nat
  /\ Sizes \subseteq 0..(Word - 1)
  /\ Aligns \subseteq Alignments \cup {0}
  /\ MaxStray \in Nat

Arena == 0..(Cells - 1)

VARIABLES memory,  \* what each cell holds
          blocks,  \* blocks got from operator new and not given back
          live,    \* user blocks the client holds
          freed,   \* pointers the client has deallocated
          stray,   \* cells written by the client since they were prepared, not its own
          last,    \* what the last deallocation found and reported
          status   \* "running", "stopped" by a report, or "corrupt"

vars == <<memory, blocks, live, freed, stray, last, status>>
-----------------------------------------------------------------------------
\* The states a prepared header has; _Uninitialized is never written.
States  == {"deallocated", "allocated"}
Headers == [size : 0..(Word - 1), align : Alignments, state : States]

Header(h)    == [holds |-> "header", header |-> h]
Sentinel     == [holds |-> "sentinel"]
Fill         == [holds |-> "fill"]
Data         == [holds |-> "data"]
Contents     == {Header(h) : h \in Headers} \cup {Sentinel, Fill, Data}

Complaints == {"size", "align", "state", "underrun", "overrun"}
Parts      == {"header", "underrun", "slack", "overrun"}
NoCall     == [call |-> "none"]

CellsOf(first, count) == first..(first + count - 1)
-----------------------------------------------------------------------------
(***************************************************************************)
(* Faulty variants of definitions below, to confirm that the properties    *)
(* notice them: a deallocated block that is not marked, or marked with the  *)
(* wrong state, a size, an alignment or an overrun sentinel that is not     *)
(* checked, a block given back with the size the client named.             *)
(***************************************************************************)
NotMarked(h) == h
SizeUnchecked(h, s, e) == {c \in {"align"} : h.align # e}
AlignUnchecked(h, s, e) == {c \in {"size"} : h.size # s}
OneSentinelChecked(at, s, e) ==
  {c \in {"underrun"} : memory[at + UnderrunSentinel(e)] # Sentinel}
MarkedUninitialized(h) == [h EXCEPT !.state = "uninitialized"]
ReleasedUnrounded(at, n, e) == [at |-> at, size |-> BlockSize(n, e), align |-> e]
-----------------------------------------------------------------------------
\* Both ends of a block's life round the size to the alignment they use.
UserSize(n, a) == AlignValue(n, EffectiveAlign(a))

\* _Prepare_block: memory with the metadata of a block of size b at cell at.
Prepared(at, b, s, e) ==
  LET padding == CellsOf(at + HeaderSize, HeaderPaddingSize(e))
                   \cup CellsOf(at + BlockPadding(s, e), BlockPaddingSize(b, s, e))
      sentinels == {at + UnderrunSentinel(e), at + OverrunSentinel(s, e)}
  IN  [c \in Arena |->
         IF c = at THEN Header([size |-> s, align |-> e, state |-> "allocated"])
         ELSE IF c \in sentinels THEN Sentinel
         ELSE IF c \in padding THEN Fill ELSE memory[c]]

\* What _Extract_metadata may read as the header: an overwritten one may pass or
\* fail the tests.
HeadersAt(at, s, e) ==
  IF memory[at].holds = "header"
  THEN {memory[at].header}
  ELSE {[size |-> s, align |-> e, state |-> "allocated"],
        [size |-> (s + 1) % Word, align |-> e, state |-> "deallocated"]}

IsOriginal(c) == c \in Arena /\ memory[c] = Sentinel

\* Size and alignment in the header against those of the call.
ArgumentErrors(h, s, e) ==
  {c \in {"size"} : h.size # s} \cup {c \in {"align"} : h.align # e}

StateErrors(h) == {c \in {"state"} : h.state # "allocated"}

SentinelErrors(at, s, e) ==
  {c \in {"underrun"} : ~IsOriginal(at + UnderrunSentinel(e))}
    \cup {c \in {"overrun"} : ~IsOriginal(at + OverrunSentinel(s, e))}

\* _Validate_block_state writes the header back, marked.
Marked(h) == [h EXCEPT !.state = "deallocated"]

\* The block as _Deallocate_debug_block hands it to operator delete.
Released(at, n, e) == [at |-> at, size |-> BlockSize(AlignValue(n, e), e), align |-> e]

\* Operator delete's caller owns no part of the cell any more: the C library
\* may have written over the header or left it.
MayBecome(at, header) == {header, Data}

\* Which parts of user block u the client has strayed into.
Damage(u) ==
  LET e == EffectiveAlign(u.align)
      s == UserSize(u.size, u.align)
      part == [header   |-> {u.ptr - UserBlock(e)},
               underrun |-> {u.ptr - SentinelSize},
               slack    |-> (u.ptr + u.size)..(u.ptr + s - 1),
               overrun  |-> {u.ptr + s}]
  IN  {x \in Parts : part[x] \cap stray # {}}
-----------------------------------------------------------------------------
Init ==
  /\ memory = [c \in Arena |-> Data]
  /\ blocks = {} /\ live = {} /\ freed = {} /\ stray = {}
  /\ last = NoCall
  /\ status = "running"

\* allocate(n, a); operator new picks any aligned place that is free.
Allocate(n, a) ==
  LET e == EffectiveAlign(a)
      s == UserSize(n, a)
      b == BlockSize(s, e)
  IN  /\ n # 0
      /\ \E at \in Arena :
           /\ at % e = 0
           /\ CellsOf(at, b) \subseteq Arena
           /\ \A x \in blocks : CellsOf(at, b) \cap CellsOf(x.at, x.size) = {}
           /\ memory' = Prepared(at, b, s, e)
           /\ blocks' = blocks \cup {[at |-> at, size |-> b, align |-> e]}
           /\ live' = live \cup {[ptr |-> at + UserBlock(e), size |-> n, align |-> a]}
           /\ freed' = freed \ {at + UserBlock(e)}
           /\ stray' = stray \ CellsOf(at, b)
      /\ last' = NoCall
      /\ UNCHANGED status

\* The client writes all the bytes it asked for ...
Use(u) ==
  /\ memory' = [c \in Arena |-> IF c \in CellsOf(u.ptr, u.size) THEN Data ELSE memory[c]]
  /\ last' = NoCall
  /\ UNCHANGED <<blocks, live, freed, stray, status>>

\* ... or another cell of a block: its own metadata, or those of the next block.
WriteOutside(c) ==
  /\ c \in UNION {CellsOf(x.at, x.size) : x \in blocks}
  /\ c \notin UNION {CellsOf(u.ptr, u.size) : u \in live}
  /\ Cardinality(stray \cup {c}) <= MaxStray
  /\ memory' = [memory EXCEPT ![c] = Data]
  /\ stray' = stray \cup {c}
  /\ last' = NoCall
  /\ UNCHANGED <<blocks, live, freed, status>>

\* The process ends, or nothing more can be said of its heap.
HeapIsGone ==
  /\ memory' = [c \in Arena |-> Data]
  /\ blocks' = {} /\ live' = {} /\ freed' = {} /\ stray' = {}

Stop == status' = "stopped" /\ HeapIsGone

\* Operator delete takes back the block it handed out for p, or is misused.
Release(p, block, header) ==
  LET mine == {u \in live : u.ptr = p}
  IN  IF mine # {} /\ block \in blocks
      THEN /\ \E c \in MayBecome(block.at, header) :
                memory' = [memory EXCEPT ![block.at] = c]
           /\ blocks' = blocks \ {block}
           /\ live' = live \ mine
           /\ freed' = freed \cup {p}
           /\ UNCHANGED <<stray, status>>
      ELSE status' = "corrupt" /\ HeapIsGone

\* deallocate(p, n, a) with a pointer the client holds or has deallocated. A
\* report ends the process (Linux, or as the user of the Windows build chooses);
\* if not, the deallocation goes on. A call is right if its size and alignment,
\* rounded as the code rounds them, are those of the allocation.
Deallocate(p, n, a) ==
  LET e  == EffectiveAlign(a)
      s  == UserSize(n, a)
      at == p - UserBlock(e)
      owner == {u \in live : u.ptr = p}
  IN  /\ n # 0
      /\ at \in Arena
      /\ \E h \in HeadersAt(at, s, e) :
           LET errors == ArgumentErrors(h, s, e) \cup StateErrors(h) \cup SentinelErrors(at, s, e)
           IN  /\ last' = [call   |-> "deallocate",
                           held   |-> owner # {},
                           right  |-> \E u \in owner : /\ UserSize(u.size, u.align) = s
                                                       /\ EffectiveAlign(u.align) = e,
                           intact |-> memory[at].holds = "header",
                           damage |-> UNION {Damage(u) : u \in owner},
                           errors |-> errors]
               /\ \/ errors # {} /\ Stop
                  \/ Release(p, Released(at, n, e), Header(Marked(h)))

Pointers == {u.ptr : u \in live} \cup freed

\* Nothing is said of a process that has stopped or is corrupt.
Done == status # "running" /\ UNCHANGED vars

Running ==
  \/ \E n \in Sizes, a \in Aligns : Allocate(n, a)
  \/ \E u \in live : Use(u)
  \/ \E c \in Arena : WriteOutside(c)
  \/ \E p \in Pointers, n \in Sizes, a \in Aligns : Deallocate(p, n, a)

Next == (status = "running" /\ Running) \/ Done

Spec == Init /\ [][Next]_vars
-----------------------------------------------------------------------------
(***************************************************************************)
(* Types: a pointer is inside of the arena, and a report is one of five.   *)
(***************************************************************************)
TypeOK ==
  /\ memory \in [Arena -> Contents]
  /\ \A x \in blocks : /\ x.at \in Arena /\ x.size \in 0..(Word - 1)
                       /\ x.align \in Alignments
  /\ \A u \in live : u.ptr \in Arena /\ u.size \in Sizes /\ u.align \in Aligns
  /\ freed \subseteq Arena /\ stray \subseteq Arena
  /\ last # NoCall => last.damage \subseteq Parts /\ last.errors \subseteq Complaints
  /\ status \in {"running", "stopped", "corrupt"}

(***************************************************************************)
(* What allocate hands out is aligned as asked for, and the block under it *)
(* has every byte asked for (_Allocate_debug_block).                       *)
(***************************************************************************)
BlockHoldsRequest ==
  \A u \in live :
    /\ u.align = 0 \/ u.ptr % u.align = 0
    /\ \E x \in blocks : CellsOf(u.ptr, u.size) \subseteq CellsOf(x.at, x.size)

(***************************************************************************)
(* A block is never reported for what another block's client did: if it is *)
(* deallocated as it was allocated and nobody wrote to its metadata, the   *)
(* deallocation reports nothing (_Extract_and_validate_block).             *)
(***************************************************************************)
NoFalseAlarm ==
  last # NoCall /\ last.right /\ last.damage \subseteq {"slack"} => last.errors = {}

(***************************************************************************)
(* A write over a sentinel is reported by the deallocation of its block,   *)
(* on the side it happened, however many calls lie between                 *)
(* (_Extract_and_validate_block).                                          *)
(***************************************************************************)
DamageReported ==
  last # NoCall /\ last.right =>
    last.damage \cap {"underrun", "overrun"} = last.errors \cap {"underrun", "overrun"}

(***************************************************************************)
(* A block the client holds never goes to operator delete as another block *)
(* than operator new returned without a word of its header: a size, an     *)
(* alignment or a place that would make it one is reported by a header     *)
(* test, as long as a header stands where one is read, whatever was        *)
(* written elsewhere (_Extract_and_validate_block). A wrong size that      *)
(* rounds to the same block (debug_block.hpp:237) is not reported, and     *)
(* harmless.                                                               *)
(***************************************************************************)
MismatchReported ==
  last # NoCall /\ last.held /\ last.intact /\ status = "corrupt"
    => last.errors \cap {"size", "align", "state"} # {}

(***************************************************************************)
(* A pointer deallocated a second time is reported as long as the place of *)
(* its header still holds a header, its own or that of a block that has    *)
(* been put there since (_Validate_block_state).                           *)
(***************************************************************************)
DoubleFreeReported ==
  last # NoCall /\ ~last.held /\ last.intact => last.errors # {}

(***************************************************************************)
(* A deallocation with the arguments of the allocation gives operator      *)
(* delete the very block that operator new returned.                       *)
(***************************************************************************)
RightCallsAreExact == last # NoCall /\ last.right => status # "corrupt"
=============================================================================
