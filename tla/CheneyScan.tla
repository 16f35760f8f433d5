------------------------------ MODULE CheneyScan ------------------------------
(***************************************************************************)
(* The copying of a collection, one word at a time: Store::GC, CheneyScan  *)
(* and HandleInterGenerationalPointers of src/seam/store/Store.cc, from    *)
(* the cloning of the root to the end of the second scan.  Module          *)
(* Collector has a whole collection as one step and adds the program, the  *)
(* maps and finalization; here the heap that is collected is arbitrary.    *)
(*                                                                         *)
(* The generations below target are collected: target is 1 or 2, or 3, the *)
(* second semispace, for a major collection.  Block is the set of blocks   *)
(* that exist at the start; a copy is named by its position in the space   *)
(* that is copied to, a number.  A word is a determined value (an integer) *)
(* or the address of a block.  A chunk, which is not scanned, is a block   *)
(* without words.                                                          *)
(***************************************************************************)
EXTENDS Naturals, Sequences

CONSTANTS Block, Value,
          Sizes,      \* the sizes of blocks
          RootSizes,  \* the sizes of the block of the root set
          MaxEntries  \* bound: entries of intgenSet at the start

ASSUME HeapAssumption ==
  /\ Block \cap Nat = {} /\ Value \cap (Block \cup Nat) = {}
  /\ Sizes \subseteq Nat /\ RootSizes \subseteq Nat /\ MaxEntries \in Nat

STORE_GEN_OLDEST == 2
STORE_GENERATION_NUM == 4

VARIABLES
  target,    \* the generation that is copied to
  root,      \* the block of the root set
  label,     \* the labels of the blocks, with REF the replaced transients
  gen,       \* their generations
  active,    \* DynamicBlock::GetScanSize
  before,    \* their words when the collection starts
  args,      \* the words of the blocks and of the copies
  fwd,       \* GCHelper::GetForwardPtr, 0 for a block that was not moved
  from,      \* the block that a copy is one of; a block is one of itself
  top,       \* how many copies there are
  scan,      \* how many of them the scan has entered
  i,         \* words of the last one that are not scanned yet
  intgenSet, \* the array of the set of blocks with younger words
  entry,     \* how many entries of it were read
  k,         \* words of the last one that are not traversed yet
  young,     \* foundYoungPtrs
  kept,      \* the size of the set, which is built anew in its array
  childish,  \* the blocks with a childish flag
  pc         \* "root", "scan", "set", "words", "rescan", "done"

heapVars == <<target, label, gen, active, before>>
copyVars == <<args, fwd, from, top>>
scanVars == <<scan, i>>
setVars  == <<intgenSet, entry, k, young, kept, childish>>
vars == <<heapVars, root, copyVars, scanVars, setVars, pc>>

Label == {"REF", "BLOCK", "DYNAMIC", "WEAK_MAP"}

Word == Value \cup Block                 \* when the collection starts
Addr == Block \cup 1..top

(* A copy in the second semispace is marked as one of the oldest generation. *)
CopyGen == IF target = STORE_GENERATION_NUM - 1 THEN STORE_GEN_OLDEST ELSE target
Gen(p) == IF p \in Block THEN gen[p] ELSE CopyGen

Younger(w, p) == w \notin Value /\ Gen(w) < Gen(p)

(* The words that CheneyScan looks at, and HandleInterGenerationalPointers *)
IntgenSize(b) == IF label[b] = "DYNAMIC" THEN active[b] ELSE Len(before[b])
ScanSize(b) == IF label[b] = "WEAK_MAP" THEN 0 ELSE IntgenSize(b)

(* Following f from w as long as members of R are met leads to u. *)
EndsIn(U, R, f, w, u) ==
  /\ u \in U /\ u \notin R
  /\ \A S \in SUBSET U : w \in S /\ (\A x \in S : x \in R => f[x] \in S) => u \in S

(* GCHelper::Deref leads from w to u: a block that was moved is not looked into *)
Refs == {p \in Addr : fwd[p] = 0 /\ label[from[p]] = "REF"}
Deref(w, u) == EndsIn(Value \cup Addr, Refs, [p \in Refs |-> args[p][1]], w, u)

(* What it leads to when the collection starts *)
RefsBefore == {b \in Block : label[b] = "REF"}
DerefBefore(w, u) == EndsIn(Word, RefsBefore, [b \in RefsBefore |-> before[b][1]], w, u)

-----------------------------------------------------------------------------
(***************************************************************************)
(* Any heap that a program can leave behind: every chain of references     *)
(* ends (RefsResolve of module Scheduler), a block with a younger word is  *)
(* in the set, once (OldToYoungRecorded of module Collector), and the      *)
(* block of the root set, which only RootSet.cc holds, is nobody's word.   *)
(***************************************************************************)
Arrays(N) == UNION {[1..n -> Word \ {root}] : n \in N}

Recorded(b) == \E n \in 1..IntgenSize(b) : Younger(before[b][n], b)

Init ==
  /\ target \in 1..(STORE_GENERATION_NUM - 1)
  /\ root \in Block
  /\ label \in [Block -> Label] /\ label[root] = "BLOCK"
  /\ before \in [Block -> Arrays(Sizes \cup RootSizes)]
  /\ \A b \in Block : Len(before[b]) \in IF b = root THEN RootSizes ELSE Sizes
  /\ \A b \in RefsBefore : Len(before[b]) = 1
  /\ active \in [Block -> UNION {0..n : n \in Sizes \cup RootSizes}]
  /\ \A b \in Block : active[b] <= IF label[b] = "DYNAMIC" THEN Len(before[b]) ELSE 0
  /\ \A b \in RefsBefore : {u \in Word : DerefBefore(b, u)} # {}
  /\ gen \in [Block -> 0..STORE_GEN_OLDEST]
  /\ \E n \in 0..MaxEntries : intgenSet \in [1..n -> Block]
  /\ \A m, n \in 1..Len(intgenSet) : intgenSet[m] = intgenSet[n] => m = n
  /\ childish = {intgenSet[n] : n \in 1..Len(intgenSet)}
  /\ {b \in Block : Recorded(b)} \subseteq childish
  /\ args = before
  /\ fwd = [b \in Block |-> 0]
  /\ from = [b \in Block |-> b]
  /\ top = 0 /\ scan = 0 /\ i = 0
  /\ entry = 0 /\ k = 0 /\ young = FALSE /\ kept = 0
  /\ pc = "root"

-----------------------------------------------------------------------------
(* Mutant of CloneBlock: MarkMoved is forgotten *)
CloneUnmarked(p) ==
  /\ top' = top + 1
  /\ from' = [a \in Block \cup 1..(top + 1) |-> IF a = top + 1 THEN from[p] ELSE from[a]]
  /\ fwd' = [a \in Block \cup 1..(top + 1) |-> IF a = top + 1 THEN 0 ELSE fwd[a]]

(* Store::CloneBlock: copy top + 1 is one of p, which is marked as moved *)
CloneBlock(p) ==
  /\ top' = top + 1
  /\ from' = [a \in Block \cup 1..(top + 1) |-> IF a = top + 1 THEN from[p] ELSE from[a]]
  /\ fwd' = [a \in Block \cup 1..(top + 1) |->
               IF a = top + 1 THEN 0 ELSE IF a = p THEN top + 1 ELSE fwd[a]]

(* FORWARD and Store::ForwardBlock: word u is replaced by w *)
Forward(u, w) ==
  \/ /\ u \in Value
     /\ w = u
     /\ UNCHANGED <<top, from, fwd>>
  \/ /\ u \in Addr /\ fwd[u] # 0
     /\ w = fwd[u]
     /\ UNCHANGED <<top, from, fwd>>
  \/ /\ u \in Addr /\ fwd[u] = 0 /\ Gen(u) < target
     /\ w = top + 1
     /\ CloneBlock(u)
  \/ /\ u \in Addr /\ fwd[u] = 0 /\ Gen(u) >= target
     /\ w = u
     /\ UNCHANGED <<top, from, fwd>>

(* Mutant of ForwardArg: the words of a block are not copied *)
ForwardBlank(p, n, u, w) ==
  /\ Deref(args[p][n], u)
  /\ Forward(u, w)
  /\ args' = [a \in Block \cup 1..top' |->
                IF a = top + 1 THEN [m \in DOMAIN args[u] |-> CHOOSE v \in Value : TRUE]
                ELSE IF a = p THEN [args[p] EXCEPT ![n] = w] ELSE args[a]]

(* Word n of p, which leads to u, becomes w; a copy has the words of its block *)
ForwardArg(p, n, u, w) ==
  /\ Deref(args[p][n], u)
  /\ Forward(u, w)
  /\ args' = [a \in Block \cup 1..top' |->
                IF a = top + 1 THEN args[u]
                ELSE IF a = p THEN [args[p] EXCEPT ![n] = w] ELSE args[a]]

(* Store::GC: the root is cloned, whatever its generation is *)
CloneRoot ==
  /\ pc = "root"
  /\ CloneBlock(root)
  /\ args' = [a \in Block \cup 1..(top + 1) |-> IF a = top + 1 THEN args[root] ELSE args[a]]
  /\ root' = top + 1
  /\ pc' = "scan"
  /\ UNCHANGED <<heapVars, scanVars, setVars>>

-----------------------------------------------------------------------------
(* Store::CheneyScan *)
NextBlock ==
  /\ pc \in {"scan", "rescan"} /\ i = 0 /\ scan < top
  /\ scan' = scan + 1
  /\ i' = ScanSize(from[scan + 1])
  /\ UNCHANGED <<heapVars, root, copyVars, setVars, pc>>

ScanArg ==
  /\ pc \in {"scan", "rescan"} /\ i > 0
  /\ \E u \in Value \cup Addr, w \in Value \cup Addr \cup {top + 1} :
       ForwardArg(scan, i, u, w)
  /\ i' = i - 1
  /\ UNCHANGED <<heapVars, root, scan, setVars, pc>>

EndScan ==
  /\ pc \in {"scan", "rescan"} /\ i = 0 /\ scan = top
  /\ pc' = IF pc = "scan" THEN "set" ELSE "done"
  /\ UNCHANGED <<heapVars, root, copyVars, scanVars, setVars>>

-----------------------------------------------------------------------------
(* Store::HandleInterGenerationalPointers *)

(* An entry is read: it was moved, or it is garbage, or it is still old. *)
NextEntry ==
  /\ pc = "set" /\ entry < Len(intgenSet)
  /\ entry' = entry + 1
  /\ LET b == intgenSet[entry + 1]
     IN  \/ /\ fwd[b] # 0
            /\ childish' = childish \ {fwd[b]}
            /\ UNCHANGED <<k, young, pc>>
         \/ /\ fwd[b] = 0 /\ gen[b] < target
            /\ UNCHANGED <<k, young, pc, childish>>
         \/ /\ fwd[b] = 0 /\ gen[b] >= target
            /\ k' = IntgenSize(b)
            /\ young' = FALSE
            /\ pc' = "words"
            /\ UNCHANGED childish
  /\ UNCHANGED <<heapVars, root, copyVars, scanVars, intgenSet, kept>>

EntryArg ==
  /\ pc = "words" /\ k > 0
  /\ \E u \in Value \cup Addr, w \in Value \cup Addr \cup {top + 1} :
       /\ ForwardArg(intgenSet[entry], k, u, w)
       /\ young' = (young \/ Younger(w, intgenSet[entry]))
  /\ k' = k - 1
  /\ UNCHANGED <<heapVars, root, scanVars, intgenSet, entry, kept, childish, pc>>

(* Mutant of EntryDone: an entry that was traversed leaves the set *)
EntryDropped ==
  /\ pc = "words" /\ k = 0
  /\ childish' = childish \ {intgenSet[entry]}
  /\ pc' = "set"
  /\ UNCHANGED <<heapVars, root, copyVars, scanVars, entry, k, young, intgenSet, kept>>

(* AddUnchecked writes to the array that is being read. *)
EntryDone ==
  /\ pc = "words" /\ k = 0
  /\ IF young THEN /\ kept' = kept + 1
                   /\ intgenSet' = [intgenSet EXCEPT ![kept + 1] = intgenSet[entry]]
                   /\ UNCHANGED childish
     ELSE /\ childish' = childish \ {intgenSet[entry]}
          /\ UNCHANGED <<intgenSet, kept>>
  /\ pc' = "set"
  /\ UNCHANGED <<heapVars, root, copyVars, scanVars, entry, k, young>>

(* Mutant of EndSet: the copies that it has led to are not scanned *)
EndSetUnscanned ==
  /\ pc = "set" /\ entry = Len(intgenSet)
  /\ pc' = "done"
  /\ UNCHANGED <<heapVars, root, copyVars, scanVars, setVars>>

EndSet ==
  /\ pc = "set" /\ entry = Len(intgenSet)
  /\ pc' = "rescan"
  /\ UNCHANGED <<heapVars, root, copyVars, scanVars, setVars>>

(* GC goes on with weak maps and the rehashing of maps: see module Collector. *)
Finished == pc = "done" /\ UNCHANGED vars

Next == \/ CloneRoot \/ NextBlock \/ ScanArg \/ EndScan
        \/ NextEntry \/ EntryArg \/ EntryDone \/ EndSet \/ Finished

Spec == Init /\ [][Next]_vars

-----------------------------------------------------------------------------
(* The blocks that are there after the collection, and the words in use *)
Survives(a) == a \in 1..top \/ (a \in Block /\ fwd[a] = 0 /\ gen[a] >= target)
Size(a) == IF a \in Block THEN IntgenSize(a) ELSE ScanSize(from[a])

(* Types: CheneyScan stays below the top of the space and AddUnchecked below *)
(* the entry that is read, and copies hold values, blocks and copies only.   *)
TypeOK ==
  /\ target \in 1..3
  /\ label \in [Block -> Label] /\ gen \in [Block -> 0..2] /\ active \in [Block -> Nat]
  /\ before \in [Block -> Seq(Word)]
  /\ top \in Nat /\ root \in Addr
  /\ args \in [Addr -> Seq(Value \cup Addr)]
  /\ fwd \in [Addr -> 0..top] /\ from \in [Addr -> Block]
  /\ scan \in 0..top /\ i \in Nat
  /\ intgenSet \in Seq(Block) /\ entry \in 0..Len(intgenSet) /\ kept \in 0..entry
  /\ k \in Nat /\ young \in BOOLEAN /\ childish \in SUBSET Block
  /\ pc \in {"root", "scan", "set", "words", "rescan", "done"}

(***************************************************************************)
(* No block has two copies, and a copy is one of a block that is collected *)
(* or the root: although copies in the second semispace are marked as old  *)
(* blocks that a major collection would copy, none is copied again.        *)
(***************************************************************************)
CopiedOnce ==
  /\ \A m, n \in 1..top : from[m] = from[n] => m = n
  /\ \A n \in 1..top : fwd[from[n]] = n /\ (gen[from[n]] < target \/ root = n)

(***************************************************************************)
(* After the second scan no word in use leads into the heaps of the        *)
(* collected generations, which are released: neither of a copy nor of an  *)
(* old block, whether it was in the set or not.                            *)
(***************************************************************************)
NothingLost ==
  pc = "done" =>
    /\ Survives(root)
    /\ \A a \in Addr : Survives(a) =>
         \A n \in 1..Size(a) : args[a][n] \in Value \/ Survives(args[a][n])

(***************************************************************************)
(* A collection changes nothing that a program can read: a word of a       *)
(* surviving block leads, after dereferencing, to the value, or to the one *)
(* copy of the block, or to the block, that it led to before.              *)
(***************************************************************************)
GraphKept ==
  pc = "done" =>
    \A a \in Addr : Survives(a) =>
      \A n \in 1..Size(a) : \E u \in Value \cup Addr :
        /\ Deref(args[a][n], u)
        /\ DerefBefore(before[from[a]][n], IF u \in Value THEN u ELSE from[u])

(***************************************************************************)
(* The set of old blocks with younger words, which the collection rebuilds *)
(* in its own array while it reads it, is again what the write barrier     *)
(* needs: it holds every such survivor, once, and the flags agree with it. *)
(***************************************************************************)
BarrierRestored ==
  pc = "done" =>
    /\ \A m, n \in 1..kept : intgenSet[m] = intgenSet[n] => m = n
    /\ \A a \in Addr : Survives(a) =>
         /\ a \in childish <=> \E n \in 1..kept : intgenSet[n] = a
         /\ (\E n \in 1..Size(a) : Younger(args[a][n], a)) => a \in childish
=============================================================================
