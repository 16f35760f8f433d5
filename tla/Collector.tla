----------------------------- MODULE Collector -----------------------------
(***************************************************************************)
(* The store of the virtual machine and its generational copying           *)
(* collector: src/seam/store/Store.cc, with the blocks of Value.hh, the    *)
(* hash maps of BaseMap.cc, Map.cc and WeakMap.hh, the set of roots of      *)
(* RootSet.cc and the finalization sets of FinalizationSet.hh.             *)
(*                                                                         *)
(* There are three generations, 0 (youngest) to 2 (oldest), and a shadow   *)
(* generation 3, the semispace a major collection copies to.  A space is   *)
(* the sequence of the blocks allocated in it, in the order of allocation. *)
(* A word is an integer <<n>> or a pointer <<space, index>>.               *)
(*                                                                         *)
(* Every block carries the number id it got when the program allocated it; *)
(* a copy keeps it.  The store has no such field: the properties use it to *)
(* say that two addresses stand for one block.                             *)
(***************************************************************************)
EXTENDS Integers, Sequences, FiniteSets, SequencesExt

CONSTANTS NGlobals,    \* static words of the program, given to RootSet::Add
          MaxSteps,    \* bound: steps of the program
          MaxGC,       \* bound: collections
          TableSize,   \* the size a map is created with
          WordSize     \* the bits of a word

ASSUME CollectorAssumption ==
    /\ WordSize \in {32, 64}
    /\ {NGlobals, TableSize - 1} \subseteq Nat \ {0}
    /\ {MaxSteps, MaxGC} \subseteq Nat

VARIABLES store,       \* the static data of class Store and of class Map
          rootSet,     \* the block that RootSet hands to the collector
          globals,     \* the static words, then the weak map, then the map
          nextId,      \* the id of the next block
          keyCounter,  \* FinalizationSet::keyCounter
          steps,       \* steps of the program so far
          gcCounter,   \* collections so far (Store::gcCounter)
          finalized    \* what the last DoFinalize handed to the handlers

vars == <<store, rootSet, globals, nextId, keyCounter, steps, gcCounter,
          finalized>>

STORE_GEN_OLDEST == 2
ToSpace == STORE_GEN_OLDEST + 1
NoAddr == <<>>
Zero == <<0>>                                  \* Store::IntToWord(0)
Handler == <<7>>                               \* an unmanaged pointer
DictRoot == NGlobals + 1                       \* wWeakDictionary
MapRoot == NGlobals + 2                        \* a Map, in a static word

IsInt(w) == Len(w) = 1

(***************************************************************************)
(* Blocks.                                                                 *)
(***************************************************************************)
\* The space of a generation; the two semispaces are switched.
Space(s, g) == CASE g = STORE_GEN_OLDEST -> s.old
                 [] g = ToSpace -> 5 - s.old
                 [] OTHER -> g

Blk(s, p) == s.heap[p[1]][p[2]]
Gen(s, p) == Blk(s, p).gen
Arg(s, p, i) == Blk(s, p).args[i]
AlreadyMoved(s, p) == Blk(s, p).fwd # NoAddr

\* Store::Alloc: the store and the address of the new block.  A block of the
\* shadow generation is marked as one of the oldest generation.
Alloc(s, g, id, label, args) ==
    LET sp == Space(s, g)
        b  == [id |-> id, label |-> label, args |-> args, childish |-> FALSE,
               gen |-> IF g = ToSpace THEN STORE_GEN_OLDEST ELSE g,
               fwd |-> NoAddr]
    IN  [s |-> [s EXCEPT !.heap[sp] = Append(@, b)],
         w |-> <<sp, Len(s.heap[sp]) + 1>>]

\* Block::InitArg.
InitArg(s, p, i, w) == [s EXCEPT !.heap[p[1]][p[2]].args[i] = w]

\* Store::AddToIntgenSet.
AddToIntgenSet(s, p) ==
    [s EXCEPT !.heap[p[1]][p[2]].childish = TRUE,
              !.intgenSet = Append(@, p)]

\* Block::ReplaceArg: a block that gets a pointer to a younger one is recorded.
ReplaceArg(s, p, i, w) ==
    IF ~IsInt(w) /\ Gen(s, w) < Gen(s, p) /\ ~Blk(s, p).childish
    THEN AddToIntgenSet(InitArg(s, p, i, w), p)
    ELSE InitArg(s, p, i, w)

\* PointerOp::Deref, and GCHelper::Deref, which stops at a moved block.
RECURSIVE Deref(_, _)
Deref(s, w) == IF /\ ~IsInt(w)
                  /\ ~AlreadyMoved(s, w)
                  /\ Blk(s, w).label = "REF"
               THEN Deref(s, Arg(s, w, 1))
               ELSE w

(***************************************************************************)
(* Copying.                                                                *)
(***************************************************************************)
\* Store::CloneBlock with GCHelper::MarkMoved.
CloneBlock(s, p, gen) ==
    LET b == Blk(s, p)
        a == Alloc(s, gen, b.id, b.label, b.args)
    IN  [s |-> [a.s EXCEPT !.heap[p[1]][p[2]].fwd = a.w], w |-> a.w]

\* Store::ForwardBlock.
ForwardBlock(s, w, gen) ==
    IF AlreadyMoved(s, w) THEN [s |-> s, w |-> Blk(s, w).fwd]
    ELSE IF Gen(s, w) < gen THEN CloneBlock(s, w, gen)
    ELSE [s |-> s, w |-> w]

\* FORWARD.
Forward(s, w, gen) ==
    IF IsInt(w) THEN [s |-> s, w |-> w] ELSE ForwardBlock(s, w, gen)

\* The blocks of the heaps that are collected (IsInFromSpace).
InFromSpace(s, p) == p[1] \in {0, 1, s.old}

\* The step of FinalizeCheneyScan: the generation does not tell the semispaces
\* apart, the address does.
ForwardFinal(s, w) ==
    IF IsInt(w) THEN [s |-> s, w |-> w]
    ELSE IF AlreadyMoved(s, w) THEN [s |-> s, w |-> Blk(s, w).fwd]
    ELSE IF InFromSpace(s, w) THEN CloneBlock(s, w, ToSpace)
    ELSE [s |-> s, w |-> w]

RECURSIVE ScanArgs(_, _, _, _, _)
ScanArgs(s, p, i, gen, final) ==
    IF i = 0 THEN s ELSE
    LET item == Deref(s, Arg(s, p, i))
        f    == IF final THEN ForwardFinal(s, item) ELSE Forward(s, item, gen)
    IN  ScanArgs(InitArg(f.s, p, i, f.w), p, i - 1, gen, final)

\* CheneyScan and FinalizeCheneyScan from the block at index scan of the space
\* that is copied to; a weak map is not scanned.
RECURSIVE Scan(_, _, _, _)
Scan(s, scan, gen, final) ==
    LET sp == Space(s, gen)
        p  == <<sp, scan>>
    IN  IF scan > Len(s.heap[sp]) THEN s
        ELSE Scan(IF Blk(s, p).label = "WEAK_MAP" THEN s
                  ELSE ScanArgs(s, p, Len(Blk(s, p).args), gen, final),
                  scan + 1, gen, final)

CheneyScan(s, scan, gen) == Scan(s, scan, gen, FALSE)

Top(s, gen) == Len(s.heap[Space(s, gen)]) + 1

(***************************************************************************)
(* Pointers from old blocks to young ones.                                 *)
(***************************************************************************)
RECURSIVE ForwardArgs(_, _, _, _)
ForwardArgs(s, p, k, gen) ==
    IF k = 0 THEN s ELSE
    LET f == Forward(s, Deref(s, Arg(s, p, k)), gen)
    IN  ForwardArgs(InitArg(f.s, p, k, f.w), p, k - 1, gen)

HasYoung(s, p) ==
    \E k \in DOMAIN Blk(s, p).args :
        LET w == Arg(s, p, k) IN ~IsInt(w) /\ Gen(s, w) < Gen(s, p)

ClearChildish(s, p) == [s EXCEPT !.heap[p[1]][p[2]].childish = FALSE]

RECURSIVE TraverseIntgen(_, _, _)
TraverseIntgen(s, entries, gen) ==
    IF entries = <<>> THEN s ELSE
    LET entry == Head(entries)
        t == ForwardArgs(s, entry, Len(Blk(s, entry).args), gen + 1)
        u == CASE AlreadyMoved(s, entry) -> ClearChildish(s, Blk(s, entry).fwd)
               [] ~AlreadyMoved(s, entry) /\ Gen(s, entry) > gen ->
                    IF HasYoung(t, entry)
                    THEN [t EXCEPT !.intgenSet = Append(@, entry)]
                    ELSE ClearChildish(t, entry)
               [] OTHER -> s                        \* entry is garbage
    IN  TraverseIntgen(u, Tail(entries), gen)

\* Store::HandleInterGenerationalPointers.
HandleInterGenerationalPointers(s, gen) ==
    TraverseIntgen([s EXCEPT !.intgenSet = <<>>], s.intgenSet, gen)

(***************************************************************************)
(* Maps.  A map is <<counter, percent, table, reserved>>, a node of a chain*)
(* <<key, value, next>>.                                                   *)
(***************************************************************************)
Counter(s, m) == Arg(s, m, 1)[1]
Percent(s, m) == Arg(s, m, 2)[1]
Table(s, m) == Arg(s, m, 3)
TSize(s, m) == Len(Blk(s, Table(s, m)).args)

\* TokenKey::Hash and WordKey::Hash: the word itself, which is an address or,
\* with the tag of integers, an odd number.
Hash(key, size) ==
    1 + ((IF IsInt(key) THEN 2 * key[1] + 1 ELSE key[1] + key[2]) % size)

\* The nodes of a chain, and of a map.
RECURSIVE Chain(_, _)
Chain(s, node) == IF node = Zero THEN <<>>
                  ELSE <<node>> \o Chain(s, Arg(s, node, 3))

Nodes(s, m) == UNION {Range(Chain(s, n)) : n \in Range(Blk(s, Table(s, m)).args)}

SetCounter(s, m, n) == InitArg(s, m, 1, <<n>>)

\* BaseMap<T>::FindKey: the node of the key and the one before it.
RECURSIVE FindKey(_, _, _, _)
FindKey(s, key, nodes, prev) ==
    IF nodes = Zero \/ Arg(s, nodes, 1) = key THEN [node |-> nodes, prev |-> prev]
    ELSE FindKey(s, key, Arg(s, nodes, 3), nodes)

UnlinkHead(s, table, i, prev, node) == ReplaceArg(s, table, i, Arg(s, node, 3))

\* A node leaves the chain of bucket i.
Unlink(s, table, i, prev, node) ==
    IF prev = Zero THEN ReplaceArg(s, table, i, Arg(s, node, 3))
                   ELSE ReplaceArg(s, prev, 3, Arg(s, node, 3))

\* BaseMap<T>::RemoveEntry.
RemoveEntry(s, m, i, prev, node) ==
    SetCounter(Unlink(s, Table(s, m), i, prev, node), m, Counter(s, m) - 1)

\* MapNode::New and its place at the head of a chain.
AddNode(s, table, i, key, value) ==
    LET a == Alloc(s, 0, 0, "HASHNODE", <<key, value, Arg(s, table, i)>>)
    IN  ReplaceArg(a.s, table, i, a.w)

\* The reinsertion of a chain by BaseMap<T>::Resize; the new table is young.
RECURSIVE Reinsert(_, _, _)
Reinsert(s, nodes, table) ==
    IF nodes = Zero THEN s
    ELSE LET key == Arg(s, nodes, 1)
             i   == Hash(key, Len(Blk(s, table).args))
         IN  Reinsert(AddNode(s, table, i, key, Arg(s, nodes, 2)),
                      Arg(s, nodes, 3), table)

RECURSIVE ReinsertAll(_, _, _, _)
ReinsertAll(s, old, i, table) ==
    IF i = 0 THEN s
    ELSE ReinsertAll(Reinsert(s, Arg(s, old, i), table), old, i - 1, table)

\* BaseMap<T>::Resize.
Resize(s, m) ==
    LET newsize == (3 * TSize(s, m)) \div 2
        a == Alloc(s, 0, 0, "HASHNODEARRAY", [i \in 1..newsize |-> Zero])
        t == InitArg(a.s, m, 2, <<1 + (3 * newsize) \div 4>>)
    IN  ReinsertAll(ReplaceArg(t, m, 3, a.w), Table(s, m), TSize(s, m), a.w)

\* BaseMap<T>::Put.
Put(s0, m, key, value) ==
    LET s == IF Counter(s0, m) > Percent(s0, m) THEN Resize(s0, m) ELSE s0
        i == Hash(key, TSize(s, m))
        e == FindKey(s, key, Arg(s, Table(s, m), i), Zero).node
    IN  IF e # Zero
        THEN ReplaceArg(ReplaceArg(s, e, 1, key), e, 2, value)
        ELSE SetCounter(AddNode(s, Table(s, m), i, key, value), m,
                        Counter(s, m) + 1)

\* BaseMap<T>::Remove.
RemoveKey(s, m, key) ==
    LET i == Hash(key, TSize(s, m))
        e == FindKey(s, key, Arg(s, Table(s, m), i), Zero)
    IN  IF e.node = Zero THEN s ELSE RemoveEntry(s, m, i, e.prev, e.node)

\* BaseMap<T>::New with WeakMap::New and Map::New.
NewMap(s, label) ==
    LET m == Alloc(s, 0, 0, label,
                   <<Zero, <<(3 * TableSize) \div 4>>, Zero, Handler>>)
        a == Alloc(m.s, 0, 0, "HASHNODEARRAY", [i \in 1..TableSize |-> Zero])
    IN  [s |-> InitArg(a.s, m.w, 3, a.w), w |-> m.w]

\* The chain of nodes of Map::Rehash at bucket i.
RECURSIVE RehashChain(_, _, _, _, _)
RehashChain(s, table, i, nodes, prev) ==
    IF nodes = Zero THEN s ELSE
    LET h    == Hash(Arg(s, nodes, 1), Len(Blk(s, table).args))
        next == Arg(s, nodes, 3)
        t    == Unlink(s, table, i, prev, nodes)
        u    == ReplaceArg(t, nodes, 3, Arg(t, table, h))
    IN  IF h = i THEN RehashChain(s, table, i, next, nodes)
        ELSE RehashChain(ReplaceArg(u, table, h, nodes), table, i, next, prev)

\* Map::Rehash.
RECURSIVE Rehash(_, _, _)
Rehash(s, table, i) ==
    IF i = 0 THEN s
    ELSE Rehash(RehashChain(s, table, i, Arg(s, table, i), Zero), table, i - 1)

NoRehash(s, gen) == s

\* Map::RehashAll: mapLs is walked and built anew; a map that was neither moved
\* nor is old is gone.
RECURSIVE RehashList(_, _, _)
RehashList(s, ls, gen) ==
    IF ls = <<>> THEN s ELSE
    LET m == IF AlreadyMoved(s, Head(ls)) THEN Blk(s, Head(ls)).fwd ELSE Head(ls)
        t == Rehash(s, Table(s, m), TSize(s, m))
    IN  RehashList(IF ~AlreadyMoved(s, Head(ls)) /\ Gen(s, m) < gen THEN s
                   ELSE [t EXCEPT !.mapLs = <<m>> \o @],
                   Tail(ls), gen)

RehashAll(s, gen) == RehashList([s EXCEPT !.mapLs = <<>>], s.mapLs, gen)

(***************************************************************************)
(* Weak maps.  finSet is the sequence of the pairs <<value, handler>>.     *)
(***************************************************************************)
FinAdd(s, value) == [s EXCEPT !.finSet = Append(@, <<value, Handler>>)]
KeepDict(s, m) == [s EXCEPT !.wkDictSet = Append(@, m)]

\* The chains of a table, from its last bucket to its first: the nodes are
\* forwarded, their keys and values are not.
RECURSIVE ForwardChain(_, _, _)
ForwardChain(s, node, gen) ==
    IF node = Zero THEN s
    ELSE LET f == Forward(s, Arg(s, node, 3), gen)
         IN  ForwardChain(InitArg(f.s, node, 3, f.w), f.w, gen)

RECURSIVE ForwardTable(_, _, _, _)
ForwardTable(s, table, k, gen) ==
    IF k = 0 THEN s
    ELSE LET f == Forward(s, Arg(s, table, k), gen)
             t == ForwardChain(InitArg(f.s, table, k, f.w), f.w, gen)
         IN  ForwardTable(t, table, k - 1, gen)

\* Phase One of HandleWeakDictionaries for one dictionary; the new address of
\* the dictionary is in dicts.
ForwardDict(r, dict, gen) ==
    LET s     == r.s
        moved == AlreadyMoved(s, dict)
        young == ~moved /\ Gen(s, dict) < gen
        c     == CASE moved -> [s |-> s, w |-> Blk(s, dict).fwd]
                   [] young -> CloneBlock(s, dict, gen)
                   [] OTHER -> [s |-> s, w |-> dict]
        t     == IF young /\ Counter(c.s, c.w) = 0 THEN FinAdd(c.s, c.w)
                                                    ELSE KeepDict(c.s, c.w)
        f     == ForwardBlock(t, Table(t, c.w), gen)
        u     == ReplaceArg(f.s, c.w, 3, f.w)
    IN  [s |-> ForwardTable(u, f.w, TSize(u, c.w), gen),
         dicts |-> Append(r.dicts, c.w)]

\* FINALIZE_PERMITTED for a value that ForwardBlock has just copied.  It means
\* to spare weak maps that are not empty, but the header it reads the label of
\* is the forward pointer by now: the value is spared if its copy lies where
\* the address has the bits of WEAK_MAP_LABEL (s.weakLooking) and its first
\* word, taken as a counter, is not 0.
FinalizePermitted(s, val) ==
    Blk(s, val).id \in s.weakLooking => Arg(s, val, 1) = Zero

FinalizableUnmoved(s, val, gen) ==
    IsInt(val) \/ (~AlreadyMoved(s, val) /\ FinalizePermitted(s, val))

\* An integer, or a block that was not reached, is in the generations that are
\* collected and is not spared; of an older block nothing is known.
Finalizable(s, val, gen) ==
    \/ IsInt(val)
    \/ /\ ~AlreadyMoved(s, val) /\ Gen(s, val) < gen
       /\ FinalizePermitted(s, val)

\* Phase Two for the chain of bucket k: the node of a value to finalize leaves
\* the chain, the others get the value as it is now: where it was moved before,
\* where it is moved now although nothing else leads to it (not permitted), or
\* where it was.
RECURSIVE WeakChain(_, _, _, _, _, _)
WeakChain(s, dict, k, node, prev, gen) ==
    IF node = Zero THEN s ELSE
    LET val   == Deref(s, Arg(s, node, 2))
        final == Finalizable(s, val, gen)
        f     == Forward(s, val, gen)
        t     == IF final
                 THEN FinAdd(RemoveEntry(f.s, dict, k, prev, node), f.w)
                 ELSE ReplaceArg(f.s, node, 2, f.w)
    IN  WeakChain(t, dict, k, Arg(s, node, 3),
                  IF final THEN prev ELSE node, gen)

RECURSIVE WeakTable(_, _, _, _)
WeakTable(s, dict, k, gen) ==
    IF k = 0 THEN s
    ELSE WeakTable(WeakChain(s, dict, k, Arg(s, Table(s, dict), k), Zero, gen),
                   dict, k - 1, gen)

\* Phase Two, with the scan of what it copied.
WeakValues(one, gen) ==
    Scan(FoldLeft(LAMBDA t, d : WeakTable(t, d, TSize(t, d), gen),
                  one.s, one.dicts),
         Top(one.s, gen), gen, gen = ToSpace)

\* Store::HandleWeakDictionaries: the dictionaries are taken from the last one
\* to the first.
HandleWeakDictionaries(s, gen) ==
    WeakValues(FoldLeft(LAMBDA r, d : ForwardDict(r, d, gen),
                        [s |-> [s EXCEPT !.wkDictSet = <<>>, !.finSet = <<>>],
                         dicts |-> <<>>],
                        Reverse(s.wkDictSet)), gen)

(***************************************************************************)
(* A collection.                                                           *)
(***************************************************************************)
\* The phases of Store::GC after the root was scanned.
IntgenPhase(s, gen) ==
    CheneyScan(HandleInterGenerationalPointers(s, gen - 1), Top(s, gen), gen)
WeakPhase(s, gen) ==
    IF s.wkDictSet = <<>> THEN s ELSE HandleWeakDictionaries(s, gen)

\* Store::GC; root is cloned into generation gen.
GC(s, root, gen) ==
    LET c == CloneBlock(s, root, gen)
        t == CheneyScan(c.s, Top(s, gen), gen)
    IN  [s |-> RehashAll(WeakPhase(IntgenPhase(t, gen), gen), gen), w |-> c.w]

\* Heap::Shrink of the generations 0..gen.
Shrink(s, gen) ==
    [s EXCEPT !.heap = [sp \in DOMAIN @ |->
        IF \E g \in 0..gen : sp = Space(s, g) THEN <<>> ELSE @[sp]]]

\* The end of a collection: the heaps are shrunk, the semispaces switched.
Switch(s) == [s EXCEPT !.old = Space(s, ToSpace)]
Shrunk(s, gen) ==
    IF gen = STORE_GEN_OLDEST THEN Switch(Shrink(s, gen)) ELSE Shrink(s, gen)

\* Store::DoGCWithoutFinalize, which collects the generations 0..gen.
DoGCWithoutFinalize(s, root, gen) ==
    [GC(s, root, gen + 1) EXCEPT !.s = Shrunk(@, gen)]

\* RootSet's Set::PreGC and Set::PostGC: the static words go into the elements
\* of the set and come back.
PreGC(s, root, words) ==
    FoldLeft(LAMBDA t, i : ReplaceArg(t, Arg(t, root, i), 1, words[i]),
             s, [i \in DOMAIN words |-> i])
PostGC(s, root) == [i \in DOMAIN globals |-> Arg(s, Arg(s, root, i), 1)]

\* The words of a block that a traversal follows, the contents of a weak map
\* with strong = FALSE only.
Follow(s, p, strong) ==
    IF strong /\ Blk(s, p).label = "WEAK_MAP" THEN {}
    ELSE {w \in Range(Blk(s, p).args) : ~IsInt(w)}

RECURSIVE Closure(_, _, _, _)
Closure(s, todo, done, strong) ==
    IF todo = {} THEN done
    ELSE LET next == UNION {Follow(s, p, strong) : p \in todo}
         IN  Closure(s, next \ (done \cup todo), done \cup todo, strong)

\* The blocks that can be reached from a set of words.
Reach(s, words, strong) == Closure(s, {w \in words : ~IsInt(w)}, {}, strong)

\* The registered values whose copies may get an address with the bits of
\* WEAK_MAP_LABEL at the place of the label: those that are not reached, of the
\* others the label is not read.  Words of 64 bits have the label above all
\* addresses.
Unreached(s, dict, words) ==
    {v \in {Deref(s, Arg(s, n, 2)) : n \in Nodes(s, dict)} : v \notin Reach(s, words, TRUE)}
MayLookWeak ==
    IF WordSize = 64 THEN {}
    ELSE {Blk(store, v).id : v \in Unreached(store, globals[DictRoot], Range(globals))}

\* RootSet::DoGarbageCollection with a collection of the generations 0..gen
\* (which range is collected depends on the sizes of the heaps, and where the
\* copies go on the operating system), and Store::DoFinalize, which takes
\* finSet from its end.
DoGarbageCollection(gen, odd) ==
    /\ gcCounter < MaxGC
    /\ \E r \in {DoGCWithoutFinalize([PreGC(store, rootSet, globals)
                                          EXCEPT !.weakLooking = odd], rootSet, gen)} :
           /\ store' = r.s
           /\ rootSet' = r.w
           /\ globals' = PostGC(r.s, r.w)
           /\ finalized' = Reverse(r.s.finSet)
    /\ gcCounter' = gcCounter + 1
    /\ UNCHANGED <<nextId, keyCounter, steps>>

(***************************************************************************)
(* The program.  The static words stand for everything that is a root at a *)
(* collection: static data, the task stacks of the threads, registers.     *)
(***************************************************************************)
Init ==
    LET s0 == [heap |-> [sp \in 0..3 |-> <<>>], old |-> 2, intgenSet |-> <<>>,
               wkDictSet |-> <<>>, mapLs |-> <<>>, finSet |-> <<>>,
               weakLooking |-> {}]
        d  == NewMap(s0, "WEAK_MAP")
        m  == NewMap(d.s, "MAP")
        \* every variable of the program starts with a cell
        c  == FoldLeft(LAMBDA r, i : LET a == Alloc(r.s, 0, i, "CELL", <<Zero>>)
                                     IN  [s |-> a.s, ws |-> Append(r.ws, a.w)],
                       [s |-> m.s, ws |-> <<>>], [i \in 1..NGlobals |-> i])
        \* RootSet::Add for every static word
        e  == FoldLeft(LAMBDA r, i : LET a == Alloc(r.s, 0, 0, "ELEMENT", <<Zero>>)
                                     IN  [s |-> a.s, ws |-> Append(r.ws, a.w)],
                       [s |-> c.s, ws |-> <<>>], [i \in 1..MapRoot |-> i])
        q  == Alloc(e.s, 0, 0, "QUEUE", e.ws)
    IN  /\ store = [q.s EXCEPT !.wkDictSet = <<d.w>>, !.mapLs = <<m.w>>]
        /\ rootSet = q.w
        /\ globals = c.ws \o <<d.w, m.w>>
        /\ nextId = NGlobals + 1
        /\ keyCounter = 0
        /\ steps = 0
        /\ gcCounter = 0
        /\ finalized = <<>>

Vars == 1..NGlobals
Is(w, label) == ~IsInt(w) /\ Blk(store, w).label = label
Value(g) == Deref(store, globals[g])

\* The words that a step of the program leaves alone; the handlers are done.
Kept == UNCHANGED <<rootSet, gcCounter>> /\ finalized' = <<>>

\* A new cell with the contents of h (Cell::New), or a new future.
New(g, h, label) ==
    /\ LET a == Alloc(store, 0, nextId, label,
                      <<IF label = "CELL" THEN globals[h] ELSE Zero>>)
       IN  /\ store' = a.s
           /\ globals' = [globals EXCEPT ![g] = a.w]
    /\ nextId' = nextId + 1
    /\ UNCHANGED keyCounter
    /\ Kept

\* A stream with the contents of h: FinalizationSet::Register when it is made.
NewStream(g, h) ==
    /\ LET a == Alloc(store, 0, nextId, "STREAM", <<globals[h], <<keyCounter>>>>)
       IN  /\ store' = Put(a.s, globals[DictRoot], <<keyCounter>>, a.w)
           /\ globals' = [globals EXCEPT ![g] = a.w]
    /\ nextId' = nextId + 1
    /\ keyCounter' = keyCounter + 1
    /\ Kept

\* The stream is closed: FinalizationSet::Unregister.
Close(g) ==
    /\ Is(Value(g), "STREAM")
    /\ store' = RemoveKey(store, globals[DictRoot], Arg(store, Value(g), 2))
    /\ UNCHANGED <<globals, nextId, keyCounter>>
    /\ Kept

\* Cell::Assign.
Assign(g, h) ==
    /\ Is(Value(g), "CELL")
    /\ store' = ReplaceArg(store, Value(g), 1, globals[h])
    /\ UNCHANGED <<globals, nextId, keyCounter>>
    /\ Kept

\* Cell::Access.
Access(g, h) ==
    /\ Is(Value(h), "CELL")
    /\ globals' = [globals EXCEPT ![g] = Arg(store, Value(h), 1)]
    /\ UNCHANGED <<store, nextId, keyCounter>>
    /\ Kept

\* A static word is cleared, a variable is killed.
Drop(g) ==
    /\ globals[g] # Zero
    /\ globals' = [globals EXCEPT ![g] = Zero]
    /\ UNCHANGED <<store, nextId, keyCounter>>
    /\ Kept

\* Transient::Become(REF_LABEL, w), for a future that is bound to a value.
Become(g, h) ==
    /\ Is(Value(g), "FUTURE")
    /\ Value(h) # Value(g)
    /\ LET p == Value(g)
       IN  store' = ReplaceArg([store EXCEPT !.heap[p[1]][p[2]].label = "REF"],
                               p, 1, Value(h))
    /\ UNCHANGED <<globals, nextId, keyCounter>>
    /\ Kept

\* Map::Put; the key is not a transient.
MapPut(g, h) ==
    /\ Is(Value(g), "CELL")
    /\ store' = Put(store, globals[MapRoot], Value(g), globals[h])
    /\ UNCHANGED <<globals, nextId, keyCounter>>
    /\ Kept

\* Map::Remove.
MapRemove(g) ==
    /\ Is(Value(g), "CELL")
    /\ store' = RemoveKey(store, globals[MapRoot], Value(g))
    /\ UNCHANGED <<globals, nextId, keyCounter>>
    /\ Kept

Step ==
    \/ \E g, h \in Vars : New(g, h, "CELL")
    \/ \E g \in Vars : New(g, g, "FUTURE")
    \/ \E g, h \in Vars : NewStream(g, h)
    \/ \E g \in Vars : Close(g)
    \/ \E g, h \in Vars : Assign(g, h)
    \/ \E g, h \in Vars : Access(g, h)
    \/ \E g \in Vars : Drop(g)
    \/ \E g, h \in Vars : Become(g, h)
    \/ \E g, h \in Vars : MapPut(g, h)
    \/ \E g \in Vars : MapRemove(g)

Next ==
    \/ Step /\ steps < MaxSteps /\ steps' = steps + 1
    \/ \E gen \in 0..STORE_GEN_OLDEST, odd \in SUBSET MayLookWeak :
           DoGarbageCollection(gen, odd)

Spec == Init /\ [][Next]_vars

(***************************************************************************)
(* Properties.                                                             *)
(***************************************************************************)
\* The value a word stands for: an integer, or a block by its number.
Val(s, w) == LET d == Deref(s, w)
             IN  IF IsInt(d) THEN d ELSE <<Blk(s, d).id, 0>>

Entries(s, m) == {<<Val(s, Arg(s, n, 1)), Val(s, Arg(s, n, 2))>> : n \in Nodes(s, m)}

User(s, R) == {p \in R : Blk(s, p).label \in {"CELL", "STREAM", "FUTURE"}}
Contents(s, R) ==
    {<<Blk(s, p).id, Blk(s, p).label, Val(s, Arg(s, p, 1))>> : p \in User(s, R)}

\* What the program can reach, with the values that were just finalized.
View(s, words, fin) ==
    [vars  |-> [g \in Vars |-> Val(s, words[g])],
     map   |-> Entries(s, words[MapRoot]),
     cells |-> Contents(s, Reach(s, Range(words) \cup {f[1] : f \in Range(fin)},
                                 FALSE))]

\* The write barrier misses nothing: a block that holds a pointer to a younger
\* block is marked childish and is in intgenSet, once (Value.hh ReplaceArg and
\* the InitArgs of the collector, which have no barrier).
OldToYoungRecorded ==
    LET Recorded == store.intgenSet
    IN  /\ \A p \in Reach(store, Range(globals) \cup {rootSet}, FALSE) :
             /\ HasYoung(store, p) => Blk(store, p).childish
             /\ Blk(store, p).childish <=> p \in Range(Recorded)
        /\ \A i, j \in DOMAIN Recorded : Recorded[i] = Recorded[j] => i = j

\* A key is found in the bucket its address hashes to, although collections
\* move it, and the counter of a map is the number of its nodes.
MapsFindKeys ==
    \A m \in {globals[DictRoot], globals[MapRoot]} :
        /\ Counter(store, m) = Cardinality(Nodes(store, m))
        /\ \A i \in 1..TSize(store, m) :
             \A n \in Range(Chain(store, Arg(store, Table(store, m), i))) :
                 Hash(Arg(store, n, 1), TSize(store, m)) = i

\* A collection of any range of generations changes nothing the program can
\* see: the same variables, the same map, the same cells with the same
\* contents, where the registered values are in the weak map or were handed to
\* their handler.
GraphPreserved ==
    [][gcCounter' # gcCounter =>
         View(store, globals, <<>>) = View(store', globals', finalized')]_vars

\* A collection finalizes exactly what it takes out of the weak map, and only
\* values the program cannot reach; a major collection leaves no entry for a
\* value that cannot be reached, unless the place of its copy makes
\* FINALIZE_PERMITTED take it for a weak map that is not empty, when it stays in
\* the map (HandleWeakDictionaries).
FinalizedExact ==
    [][gcCounter' # gcCounter =>
        LET before == Entries(store, globals[DictRoot])
            after  == Entries(store', globals'[DictRoot])
            Vs     == {Val(store', f[1]) : f \in Range(finalized')}
            spared == {Val(store, v) :
                         v \in {u \in Unreached(store, globals[DictRoot], Range(globals)) :
                                 Blk(store, u).id \in store'.weakLooking
                                 /\ Arg(store, u, 1) # Zero}}
            live   == {Val(store, p) : p \in User(store, Reach(store, Range(globals), TRUE))}
        IN  /\ after \subseteq before
            /\ Vs = {e[2] : e \in before \ after}
            /\ Len(finalized') = Cardinality(before \ after)
            /\ Vs \cap live = {}
            /\ store'.old # store.old =>
                 \A e \in after : e[2] \in live \cup spared]_vars

=============================================================================
