--------------------------- MODULE CheneyScanProofs ---------------------------
(***************************************************************************)
(* Proofs about module CheneyScan: whatever heap a collection starts from, *)
(* it copies no block twice, leaves no word of a surviving block behind,   *)
(* preserves where every word leads, and restores the set of old blocks    *)
(* with younger words that the next collection relies on.                  *)
(***************************************************************************)
EXTENDS CheneyScan, SequenceTheorems, TLAPS

(* What a word stood for when the collection started *)
Orig(w) == IF w \in Value THEN w ELSE from[w]

Old(b) == b \in Block /\ fwd[b] = 0 /\ gen[b] >= target

Alive(w) == w \in Value \/ w \in 1..top \/ Old(w)

(* Word w is what forwarding makes of word v *)
Good(w, v) == Alive(w) /\ w \notin RefsBefore /\ DerefBefore(v, Orig(w))

HeapOK ==
  /\ target \in 1..3
  /\ label \in [Block -> Label] /\ gen \in [Block -> 0..2] /\ active \in [Block -> Nat]
  /\ before \in [Block -> Seq(Word)]
  /\ \A b \in Block : label[b] = "DYNAMIC" => active[b] <= Len(before[b])
  /\ \A b \in RefsBefore : Len(before[b]) = 1
  /\ \A b \in RefsBefore : \E u \in Word : DerefBefore(b, u)

(* Copies and the blocks they were made from *)
CopiesOK ==
  /\ top \in Nat
  /\ from \in [Addr -> Block] /\ fwd \in [Addr -> 0..top]
  /\ \A b \in Block : from[b] = b
  /\ \A n \in 1..top : /\ fwd[n] = 0 /\ fwd[from[n]] = n /\ label[from[n]] # "REF"
                       /\ gen[from[n]] < target \/ root = n
  /\ \A b \in Block : fwd[b] # 0 => from[fwd[b]] = b

RootOK ==
  /\ root \in Addr
  /\ \A b \in Block : \A n \in 1..Len(before[b]) : before[b][n] # from[root]
  /\ pc = "root" => /\ top = 0 /\ label[root] # "REF"
                    /\ args = before /\ \A b \in Block : fwd[b] = 0
                    /\ entry = 0
  /\ pc # "root" => top >= 1 /\ root = 1

(* Whether the scan has passed word n of copy a *)
Passed(a, n) == a < scan \/ (a = scan /\ n > i)

CopyWord(a, n) ==
  IF Passed(a, n) /\ n <= ScanSize(from[a])
  THEN Good(args[a][n], before[from[a]][n])
  ELSE args[a][n] = before[from[a]][n]

WordsOK ==
  /\ args \in [Addr -> Seq(Value \cup Addr)]
  /\ \A a \in Addr : Len(args[a]) = Len(before[from[a]])
  /\ \A a \in Addr : \A n \in 1..Len(args[a]) :
       args[a][n] = before[from[a]][n] \/ Good(args[a][n], before[from[a]][n])
  /\ \A b \in Block : gen[b] < target => args[b] = before[b]
  /\ \A a \in 1..top : \A n \in 1..Len(args[a]) : CopyWord(a, n)

ScanOK ==
  /\ scan \in 0..top /\ i \in Nat
  /\ scan = 0 => i = 0
  /\ scan > 0 => i <= ScanSize(from[scan])
  /\ pc = "root" => scan = 0
  /\ pc = "done" => scan = top /\ i = 0

(* The positions of the array of intgenSet whose content still counts *)
Live == {n \in 1..Len(intgenSet) : n <= kept \/ n > entry \/ (n = entry /\ pc = "words")}

SetOK ==
  /\ intgenSet \in Seq(Block) /\ entry \in 0..Len(intgenSet) /\ kept \in 0..entry
  /\ k \in Nat /\ young \in BOOLEAN /\ childish \in SUBSET Block
  /\ pc \in {"root", "scan", "set", "words", "rescan", "done"}
  /\ pc = "words" => /\ kept < entry /\ Old(intgenSet[entry])
                     /\ k <= IntgenSize(intgenSet[entry])
  /\ pc \in {"rescan", "done"} => entry = Len(intgenSet)
  /\ \A m, n \in Live : intgenSet[m] = intgenSet[n] => m = n
  /\ \A b \in Block : Old(b) => (b \in childish <=> \E n \in Live : intgenSet[n] = b)

(* Old block b needs nothing more: its words are alive, and it is kept if one is younger. *)
Settled(b) ==
  \A n \in 1..IntgenSize(b) :
    /\ Alive(args[b][n])
    /\ Younger(args[b][n], b) => \E m \in 1..kept : intgenSet[m] = b

Awaited(b) == \E n \in 1..Len(intgenSet) : n > entry /\ intgenSet[n] = b

OldOK ==
  /\ \A b \in Block : Old(b) =>
       Awaited(b) \/ (pc = "words" /\ b = intgenSet[entry]) \/ Settled(b)
  /\ pc = "words" =>
       \A n \in 1..IntgenSize(intgenSet[entry]) : n > k =>
         /\ Alive(args[intgenSet[entry]][n])
         /\ Younger(args[intgenSet[entry]][n], intgenSet[entry]) => young

(* The inductive invariant. *)
CopyInv == HeapOK /\ CopiesOK /\ RootOK /\ WordsOK /\ ScanOK /\ SetOK /\ OldOK

-----------------------------------------------------------------------------
(* A chain ends where it starts if that is no reference, *)
LEMMA EndHere ==
  ASSUME NEW U, NEW R, NEW f, NEW w \in U, w \notin R
  PROVE  EndsIn(U, R, f, w, w)
BY DEF EndsIn

(* and nowhere else. *)
LEMMA EndOnlyHere ==
  ASSUME NEW U, NEW R, NEW f, NEW w \in U, w \notin R, NEW u, EndsIn(U, R, f, w, u)
  PROVE  u = w
<1>1. {w} \in SUBSET U /\ w \in {w} /\ \A x \in {w} : x \in R => f[x] \in {w}
  OBVIOUS
<1> QED BY <1>1 DEF EndsIn

(* A chain that meets only references which lead where those of f0 lead, or *)
(* straight out of the references, ends if it does with f0.                *)
LEMMA ChainEnds ==
  ASSUME NEW U, NEW U0 \in SUBSET U, NEW R \in SUBSET U0, NEW f, NEW f0, NEW w \in U0,
         \A x \in R : f[x] \in U /\ (f[x] = f0[x] \/ f[x] \notin R),
         NEW u0, EndsIn(U0, R, f0, w, u0)
  PROVE  \E u \in U : EndsIn(U, R, f, w, u)
<1> DEFINE Closed(S) == S \in SUBSET U /\ w \in S /\ \A x \in S : x \in R => f[x] \in S
           C == {x \in U : \A S \in SUBSET U : Closed(S) => x \in S}
<1>1. w \in C
  OBVIOUS
<1>2. \A x \in C : x \in R => f[x] \in C
  OBVIOUS
<1>3. \E z \in C : z \notin R
  <2> SUFFICES ASSUME C \subseteq R PROVE FALSE
    OBVIOUS
  <2>1. \A x \in C : f0[x] \in C
    <3> TAKE x \in C
    <3>1. x \in R /\ f[x] \in C
      BY <1>2
    <3>2. f[x] \in R
      BY <3>1
    <3> HIDE DEF C
    <3> QED BY <3>1, <3>2
  <2>2. C \in SUBSET U0
    <3> HIDE DEF C
    <3> QED OBVIOUS
  <2> HIDE DEF C
  <2>3. u0 \in C
    BY <1>1, <2>1, <2>2 DEF EndsIn
  <2> QED BY <2>3 DEF EndsIn
<1>4. PICK z \in C : z \notin R
  BY <1>3
<1>5. EndsIn(U, R, f, w, z)
  BY <1>4 DEF EndsIn
<1> QED BY <1>4, <1>5

-----------------------------------------------------------------------------
(* Words and numbers of copies differ. *)
LEMMA Kinds ==
  /\ \A b \in Block : b \notin Nat /\ b \notin Value
  /\ \A v \in Value : v \notin Nat /\ v \notin Block
BY HeapAssumption

(* Generations are small numbers. *)
LEMMA Generations ==
  ASSUME HeapOK
  PROVE  target \in 1..3 /\ \A b \in Block : gen[b] \in 0..2
<1>1. target \in 1..3 /\ gen \in [Block -> 0..2]
  BY DEF HeapOK
<1> QED BY <1>1

(* References are never moved, so that they are the ones of the start. *)
LEMMA RefsSame ==
  ASSUME HeapOK, CopiesOK
  PROVE  /\ Refs = RefsBefore
         /\ \A b \in RefsBefore : fwd[b] = 0
<1>1. \A b \in Block : label[b] = "REF" => fwd[b] = 0
  <2> SUFFICES ASSUME NEW b \in Block, fwd[b] # 0 PROVE label[b] # "REF"
    OBVIOUS
  <2>1. fwd[b] \in 1..top /\ from[fwd[b]] = b
    BY DEF CopiesOK, Addr
  <2> QED BY <2>1 DEF CopiesOK
<1>2. \A n \in 1..top : label[from[n]] # "REF"
  BY DEF CopiesOK
<1>3. \A b \in Block : from[b] = b
  BY DEF CopiesOK
<1>4. Refs \subseteq RefsBefore
  BY <1>2, <1>3 DEF Refs, RefsBefore, Addr
<1>5. RefsBefore \subseteq Refs
  BY <1>1, <1>3 DEF Refs, RefsBefore, Addr
<1> QED BY <1>1, <1>4, <1>5 DEF RefsBefore

(* The links of references, before and in the course of the collection *)
LEMMA Links ==
  ASSUME HeapOK, CopiesOK, WordsOK
  PROVE  \A b \in RefsBefore :
           /\ b \in Block /\ before[b][1] \in Word /\ args[b][1] \in Value \cup Addr
           /\ args[b][1] = before[b][1] \/ Good(args[b][1], before[b][1])
           /\ target = 3 => args[b][1] = before[b][1]
<1> TAKE b \in RefsBefore
<1>1. b \in Block /\ b \in Addr /\ Len(before[b]) = 1 /\ from[b] = b
  BY DEF RefsBefore, HeapOK, CopiesOK, Addr
<1>2. before[b] \in Seq(Word) /\ args[b] \in Seq(Value \cup Addr) /\ Len(args[b]) = 1
  BY <1>1 DEF HeapOK, WordsOK
<1>3. before[b][1] \in Word /\ args[b][1] \in Value \cup Addr
  BY <1>1, <1>2
<1>4. args[b][1] = before[b][1] \/ Good(args[b][1], before[b][1])
  <2>1. 1 \in 1..Len(args[b])
    BY <1>2
  <2>2. args[b][1] = before[from[b]][1] \/ Good(args[b][1], before[from[b]][1])
    BY <1>1, <2>1 DEF WordsOK
  <2> QED BY <1>1, <2>2
<1>5. target = 3 => gen[b] < target
  BY <1>1, Generations
<1>6. target = 3 => args[b] = before[b]
  BY <1>1, <1>5 DEF WordsOK
<1> QED BY <1>1, <1>3, <1>4, <1>6

(* Where a word stands for what it did, so does what it leads to. *)
LEMMA DerefOrig ==
  ASSUME HeapOK, CopiesOK, WordsOK, NEW w \in Value \cup Addr, NEW u, Deref(w, u)
  PROVE  /\ u \in Value \cup Addr /\ u \notin RefsBefore
         /\ DerefBefore(Orig(w), Orig(u))
<1> DEFINE U == Value \cup Addr
           f == [p \in Refs |-> args[p][1]]
           f0 == [b \in RefsBefore |-> before[b][1]]
<1>1. u \in U /\ u \notin RefsBefore
  BY RefsSame DEF Deref, EndsIn
<1>2. \A x \in U : Orig(x) \in Word
  BY DEF Orig, Word, CopiesOK
<1>3. Orig(u) \notin RefsBefore
  BY <1>1, Kinds DEF Orig, RefsBefore, CopiesOK, Addr
<1>4. ASSUME NEW S0 \in SUBSET Word, Orig(w) \in S0,
             \A x \in S0 : x \in RefsBefore => f0[x] \in S0
      PROVE  Orig(u) \in S0
  <2> DEFINE S == {x \in U : Orig(x) \in S0}
  <2>1. ASSUME NEW x \in S, x \in Refs PROVE f[x] \in S
    <3>1. x \in RefsBefore /\ Orig(x) = x /\ x \in Block
      BY <2>1, RefsSame, Kinds DEF Orig, CopiesOK, RefsBefore
    <3>2. before[x][1] \in S0
      BY <1>4, <2>1, <3>1
    <3>3. f[x] = args[x][1] /\ args[x][1] \in U
      BY <2>1, <3>1, Links
    <3>4. CASE args[x][1] = before[x][1]
      <4>1. args[x][1] \in Word
        BY <3>1, <3>4, Links
      <4>2. Orig(args[x][1]) = args[x][1]
        BY <4>1 DEF Orig, CopiesOK, Word
      <4> QED BY <3>2, <3>3, <3>4, <4>2
    <3>5. CASE Good(args[x][1], before[x][1])
      <4>1. Orig(args[x][1]) \in S0
        BY <1>4, <3>2, <3>5 DEF Good, DerefBefore, EndsIn
      <4> QED BY <3>3, <4>1
    <3> QED BY <3>1, <3>4, <3>5, Links
  <2>2. w \in S /\ S \in SUBSET U
    BY <1>4
  <2> HIDE DEF S
  <2>3. u \in S
    BY <2>1, <2>2 DEF Deref, EndsIn
  <2> QED BY <2>3 DEF S
<1>5. EndsIn(Word, RefsBefore, f0, Orig(w), Orig(u))
  <2> HIDE DEF f0
  <2> QED BY <1>1, <1>2, <1>3, <1>4 DEF EndsIn
<1> QED BY <1>1, <1>5 DEF DerefBefore

(* GCHelper::Deref ends for every word, whatever links were replaced. *)
LEMMA DerefEnds ==
  ASSUME HeapOK, CopiesOK, WordsOK, NEW w \in Value \cup Addr
  PROVE  \E u \in Value \cup Addr : Deref(w, u)
<1>1. CASE w \notin RefsBefore
  BY <1>1, EndHere, RefsSame DEF Deref
<1>2. CASE w \in RefsBefore
  <2> DEFINE U == Value \cup Addr
             f == [p \in RefsBefore |-> args[p][1]]
             f0 == [b \in RefsBefore |-> before[b][1]]
  <2>1. PICK u0 \in Word : EndsIn(Word, RefsBefore, f0, w, u0)
    BY <1>2 DEF HeapOK, DerefBefore
  <2>2. \A x \in RefsBefore : f[x] \in U /\ (f[x] = f0[x] \/ f[x] \notin RefsBefore)
    BY Links DEF Good
  <2>3. Word \in SUBSET U /\ RefsBefore \in SUBSET Word /\ w \in Word
    BY <1>2 DEF Word, RefsBefore, Addr
  <2> HIDE DEF f, f0, U
  <2>4. \E u \in U : EndsIn(U, RefsBefore, f, w, u)
    BY <2>1, <2>2, <2>3, ChainEnds
  <2> QED BY <2>4, RefsSame DEF Deref, U, f
<1> QED BY <1>1, <1>2

(* In a major collection no word of a block leads to a copy. *)
LEMMA DerefMajor ==
  ASSUME HeapOK, CopiesOK, WordsOK, target = 3, NEW w \in Word, NEW u, Deref(w, u)
  PROVE  u \in Word
<1>1. \A x \in Word : x \in Refs => [p \in Refs |-> args[p][1]][x] \in Word
  BY Links, RefsSame
<1>2. Word \in SUBSET (Value \cup Addr)
  BY DEF Word, Addr
<1> QED BY <1>1, <1>2 DEF Deref, EndsIn

-----------------------------------------------------------------------------
(* What the labels, generations and words of the start determine is fixed. *)
LEMMA HeapKept ==
  ASSUME HeapOK, UNCHANGED heapVars
  PROVE  /\ HeapOK' /\ RefsBefore' = RefsBefore /\ CopyGen' = CopyGen
         /\ \A w, u : DerefBefore(w, u)' <=> DerefBefore(w, u)
         /\ \A b : IntgenSize(b)' = IntgenSize(b) /\ ScanSize(b)' = ScanSize(b)
         /\ \A w, p : Younger(w, p)' <=> Younger(w, p)
<1> USE DEF heapVars
<1>1. RefsBefore' = RefsBefore /\ CopyGen' = CopyGen
  BY DEF RefsBefore, CopyGen
<1>2. \A w, u : DerefBefore(w, u)' <=> DerefBefore(w, u)
  BY <1>1 DEF DerefBefore
<1>3. HeapOK'
  BY <1>1, <1>2 DEF HeapOK
<1>4. \A b : IntgenSize(b)' = IntgenSize(b) /\ ScanSize(b)' = ScanSize(b)
  BY DEF IntgenSize, ScanSize
<1>5. \A w, p : Younger(w, p)' <=> Younger(w, p)
  BY <1>1 DEF Younger, Gen
<1> QED BY <1>1, <1>2, <1>3, <1>4, <1>5

(* Words are traversed only up to the size of a block. *)
LEMMA SizesFit ==
  ASSUME HeapOK, NEW b \in Block
  PROVE  /\ IntgenSize(b) \in Nat /\ IntgenSize(b) <= Len(before[b])
         /\ ScanSize(b) \in Nat /\ ScanSize(b) <= Len(before[b])
<1>1. before[b] \in Seq(Word) /\ active[b] \in Nat
      /\ (label[b] = "DYNAMIC" => active[b] <= Len(before[b]))
  BY DEF HeapOK
<1>2. Len(before[b]) \in Nat
  BY <1>1
<1> QED BY <1>1, <1>2 DEF IntgenSize, ScanSize

(* Cloning a block keeps copies and blocks paired. *)
LEMMA ClonePairs ==
  ASSUME HeapOK, CopiesOK, UNCHANGED heapVars, NEW u, CloneBlock(u),
         u \in Block, fwd[u] = 0, label[u] # "REF",
         \/ gen[u] < target /\ root' = root
         \/ top = 0 /\ root' = 1
  PROVE  /\ CopiesOK' /\ top' = top + 1 /\ from'[top + 1] = u
         /\ \A a \in Addr : a \in Addr' /\ from'[a] = from[a]
         /\ \A a \in Addr : a # u => fwd'[a] = fwd[a]
<1>1. top \in Nat /\ Addr' = Block \cup 1..(top + 1) /\ 1..(top + 1) = 1..top \cup {top + 1}
      /\ top + 1 \notin 1..top
  BY DEF CopiesOK, Addr, CloneBlock
<1>2. top + 1 \notin Block /\ top + 1 \notin Addr
  BY <1>1, Kinds DEF Addr
<1>3. /\ from' = [a \in Addr' |-> IF a = top + 1 THEN u ELSE from[a]]
      /\ fwd' = [a \in Addr' |-> IF a = top + 1 THEN 0 ELSE IF a = u THEN top + 1 ELSE fwd[a]]
      /\ top' = top + 1
  BY <1>1 DEF CloneBlock, CopiesOK
<1>4. \A a \in Addr : a \in Addr' /\ a # top + 1 /\ from'[a] = from[a]
                      /\ (a # u => fwd'[a] = fwd[a])
  BY <1>1, <1>2, <1>3 DEF Addr
<1>5. top + 1 \in Addr' /\ from'[top + 1] = u /\ fwd'[top + 1] = 0 /\ fwd'[u] = top + 1
  BY <1>1, <1>2, <1>3
<1>6. Addr' = Addr \cup {top + 1}
  BY <1>1 DEF Addr
<1>7. from' \in [Addr' -> Block]
  <2>1. \A a \in Addr : from[a] \in Block
    BY DEF CopiesOK
  <2> QED BY <1>3, <1>6, <2>1
<1>8. fwd' \in [Addr' -> 0..top']
  <2>1. \A a \in Addr : fwd[a] \in 0..top
    BY DEF CopiesOK
  <2>2. \A a \in Addr' : fwd'[a] \in 0..top'
    BY <1>1, <1>3, <1>4, <1>5, <1>6, <2>1
  <2> QED BY <1>3, <2>2
<1>9. \A b \in Block : from'[b] = b
  BY <1>4 DEF CopiesOK, Addr
<1>10. ASSUME NEW n \in 1..top'
       PROVE  /\ fwd'[n] = 0 /\ fwd'[from'[n]] = n /\ label'[from'[n]] # "REF"
              /\ gen'[from'[n]] < target' \/ root' = n
  <2>1. CASE n = top + 1
    BY <1>5, <2>1 DEF heapVars
  <2>2. CASE n \in 1..top
    <3>1. n \in Addr /\ n \notin Block /\ from[n] \in Block /\ from[n] \in Addr
      BY <2>2, Kinds DEF Addr, CopiesOK
    <3>2. fwd[n] = 0 /\ fwd[from[n]] = n /\ label[from[n]] # "REF"
          /\ (gen[from[n]] < target \/ root = n) /\ n # 0
      BY <2>2 DEF CopiesOK
    <3>3. from[n] # u /\ n # u
      BY <3>1, <3>2
    <3>4. top # 0
      BY <2>2
    <3> QED BY <1>4, <3>1, <3>2, <3>3, <3>4 DEF heapVars
  <2> QED BY <1>1, <1>3, <1>10, <2>1, <2>2
<1>11. ASSUME NEW b \in Block, fwd'[b] # 0 PROVE from'[fwd'[b]] = b
  <2>1. CASE b = u
    BY <1>5, <2>1
  <2>2. CASE b # u
    <3>1. b \in Addr /\ fwd'[b] = fwd[b] /\ fwd[b] # 0
      BY <1>4, <1>11, <2>2 DEF Addr
    <3>2. from[fwd[b]] = b /\ fwd[b] \in 0..top
      BY <3>1 DEF CopiesOK
    <3>3. fwd[b] \in 1..top
      BY <1>1, <3>1, <3>2
    <3> QED BY <1>4, <3>1, <3>2, <3>3 DEF Addr
  <2> QED BY <2>1, <2>2
<1>12. CopiesOK'
  <2>1. top' \in Nat
    BY <1>1, <1>3
  <2>2. \A n \in 1..top' : /\ fwd'[n] = 0 /\ fwd'[from'[n]] = n /\ label'[from'[n]] # "REF"
                           /\ gen'[from'[n]] < target' \/ root' = n
    BY <1>10
  <2>3. \A b \in Block : fwd'[b] # 0 => from'[fwd'[b]] = b
    BY <1>11
  <2> QED BY <1>7, <1>8, <1>9, <2>1, <2>2, <2>3, Zenon DEF CopiesOK
<1> QED BY <1>3, <1>4, <1>5, <1>12

(* A word that leads to u is replaced by a survivor that stands for the same. *)
LEMMA ForwardCopies ==
  ASSUME HeapOK, CopiesOK, WordsOK, UNCHANGED heapVars, root' = root,
         NEW u \in Value \cup Addr, u \notin RefsBefore, target = 3 => u \in Word,
         NEW w, Forward(u, w)
  PROVE  /\ CopiesOK' /\ top' \in {top, top + 1}
         /\ \A a \in Addr : a \in Addr' /\ from'[a] = from[a]
         /\ \A b \in Block : Old(b)' <=> Old(b)
         /\ Alive(w)' /\ w \notin RefsBefore /\ Orig(w)' = Orig(u) /\ w \in Value \cup Addr'
         /\ top' = top + 1 => u \in Block /\ gen[u] < target /\ from'[top + 1] = u
<1> USE DEF heapVars
<1>1. CASE u \in Value /\ w = u /\ UNCHANGED <<top, from, fwd>>
  <2>1. CopiesOK' /\ Addr' = Addr
    BY <1>1 DEF CopiesOK, Addr
  <2> QED BY <1>1, <2>1 DEF Old, Alive, Orig, CopiesOK
<1>2. CASE u \in Addr /\ fwd[u] # 0 /\ w = fwd[u] /\ UNCHANGED <<top, from, fwd>>
  <2>1. CopiesOK' /\ Addr' = Addr
    BY <1>2 DEF CopiesOK, Addr
  <2>2. u \in Block /\ from[w] = u /\ w \in 0..top /\ top \in Nat
    BY <1>2 DEF CopiesOK, Addr
  <2>3. w \in 1..top
    BY <1>2, <2>2
  <2>4. w \notin RefsBefore /\ w \notin Value /\ u \notin Value /\ from[u] = u
    BY <2>2, <2>3, Kinds DEF RefsBefore, CopiesOK
  <2> QED BY <1>2, <2>1, <2>2, <2>3, <2>4 DEF Old, Alive, Orig, Addr
<1>3. CASE u \in Addr /\ fwd[u] = 0 /\ Gen(u) < target /\ w = top + 1 /\ CloneBlock(u)
  <2>1. u \in Block /\ gen[u] < target
    <3>1. CASE u \in Block
      BY <1>3, <3>1 DEF Gen
    <3>2. CASE u \notin Block
      <4>1. u \in 1..top /\ u \notin Word
        BY <1>3, <3>2, Kinds DEF Addr, Word, CopiesOK
      <4>2. target \in 1..3 /\ target # 3
        BY <4>1, Generations
      <4> QED BY <1>3, <3>2, <4>2 DEF Gen, CopyGen, STORE_GENERATION_NUM
    <3> QED BY <3>1, <3>2
  <2>2. label[u] # "REF"
    BY <2>1 DEF RefsBefore
  <2>3. /\ CopiesOK' /\ top' = top + 1 /\ from'[top + 1] = u
        /\ \A a \in Addr : a \in Addr' /\ from'[a] = from[a]
        /\ \A a \in Addr : a # u => fwd'[a] = fwd[a]
    BY <1>3, <2>1, <2>2, ClonePairs
  <2>4. top \in Nat /\ w \in 1..top' /\ w \in Nat
    BY <1>3, <2>3 DEF CopiesOK
  <2>5. w \notin RefsBefore /\ w \notin Value /\ u \notin Value /\ from[u] = u /\ w \in Addr'
    BY <2>1, <2>4, Kinds DEF RefsBefore, CopiesOK, Addr
  <2>6. \A b \in Block : Old(b)' <=> Old(b)
    <3> TAKE b \in Block
    <3>1. CASE b = u
      <4>1. ~(gen[b] >= target)
        BY <2>1, <3>1, Generations
      <4> QED BY <4>1 DEF Old
    <3>2. CASE b # u
      BY <2>3, <3>2 DEF Old, Addr
    <3> QED BY <3>1, <3>2
  <2> QED BY <1>3, <2>1, <2>3, <2>4, <2>5, <2>6 DEF Alive, Orig
<1>4. CASE u \in Addr /\ fwd[u] = 0 /\ Gen(u) >= target /\ w = u /\ UNCHANGED <<top, from, fwd>>
  <2>1. CopiesOK' /\ Addr' = Addr
    BY <1>4 DEF CopiesOK, Addr
  <2>2. u \in 1..top \/ Old(u)
    BY <1>4 DEF Old, Addr, Gen
  <2> QED BY <1>4, <2>1, <2>2 DEF Old, Alive, Orig, CopiesOK
<1> QED BY <1>1, <1>2, <1>3, <1>4 DEF Forward

(* What survives keeps surviving, and so do forwarded words. *)
LEMMA GoodKept ==
  ASSUME HeapOK, CopiesOK, CopiesOK', UNCHANGED heapVars, top' \in {top, top + 1},
         \A a \in Addr : a \in Addr' /\ from'[a] = from[a],
         \A b \in Block : Old(b)' <=> Old(b)
  PROVE  /\ \A x : Alive(x) => Alive(x)'
         /\ \A x, v : Good(x, v) => Good(x, v)'
<1>1. \A x : Alive(x) => Alive(x)'
  <2> TAKE x
  <2>1. CASE x \in Value
    BY <2>1 DEF Alive
  <2>2. CASE x \in 1..top
    <3>1. top \in Nat
      BY DEF CopiesOK
    <3>2. x \in 1..top'
      BY <2>2, <3>1
    <3> QED BY <3>2 DEF Alive
  <2>3. CASE Old(x)
    <3>1. x \in Block
      BY <2>3 DEF Old
    <3> QED BY <2>3, <3>1 DEF Alive
  <2> QED BY <2>1, <2>2, <2>3 DEF Alive
<1>2. \A x : Alive(x) => Orig(x)' = Orig(x)
  BY DEF Alive, Orig, Addr, Old
<1> QED BY <1>1, <1>2, HeapKept DEF Good

(* The whole of a step that reads a word, follows it and replaces it *)
LEMMA ForwardStep ==
  ASSUME HeapOK, CopiesOK, WordsOK, UNCHANGED heapVars, root' = root,
         NEW p \in Addr, NEW n \in 1..Len(args[p]), target = 3 => args[p][n] \in Word,
         NEW u, NEW w, ForwardArg(p, n, u, w)
  PROVE  /\ HeapOK' /\ CopiesOK' /\ top' \in {top, top + 1}
         /\ \A a \in Addr : a \in Addr' /\ from'[a] = from[a]
         /\ \A b \in Block : Old(b)' <=> Old(b)
         /\ \A x : Alive(x) => Alive(x)'
         /\ \A x, v : Good(x, v) => Good(x, v)'
         /\ \A v : v = before[from[p]][n] => Good(w, v)'
         /\ w \in Value \cup Addr'
         /\ \A a \in Addr : args'[a] = IF a = p THEN [args[p] EXCEPT ![n] = w] ELSE args[a]
         /\ top' = top + 1 => args'[top + 1] = before[from'[top + 1]]
         /\ args' = [a \in Addr' |-> args'[a]]
<1> DEFINE x == args[p][n]
<1>1. x \in Value \cup Addr /\ Deref(x, u) /\ Forward(u, w)
  <2>1. args[p] \in Seq(Value \cup Addr)
    BY DEF WordsOK
  <2> QED BY <2>1 DEF ForwardArg
<1>2. u \in Value \cup Addr /\ u \notin RefsBefore /\ DerefBefore(Orig(x), Orig(u))
  <2> HIDE DEF x
  <2> QED BY <1>1, DerefOrig
<1>3. target = 3 => u \in Word
  BY <1>1, DerefMajor
<1>4. /\ CopiesOK' /\ top' \in {top, top + 1}
      /\ \A a \in Addr : a \in Addr' /\ from'[a] = from[a]
      /\ \A b \in Block : Old(b)' <=> Old(b)
      /\ Alive(w)' /\ w \notin RefsBefore /\ Orig(w)' = Orig(u) /\ w \in Value \cup Addr'
      /\ top' = top + 1 => u \in Block /\ gen[u] < target /\ from'[top + 1] = u
  <2> HIDE DEF x
  <2> QED BY <1>1, <1>2, <1>3, ForwardCopies
<1>5. /\ \A y : Alive(y) => Alive(y)'
      /\ \A y, v : Good(y, v) => Good(y, v)'
  BY <1>4, GoodKept
<1>6. DerefBefore(before[from[p]][n], Orig(u))
  <2>1. CASE x = before[from[p]][n]
    <3>1. from[p] \in Block /\ before[from[p]] \in Seq(Word) /\ Len(args[p]) = Len(before[from[p]])
      BY DEF CopiesOK, HeapOK, WordsOK
    <3>2. x \in Word
      BY <2>1, <3>1
    <3>3. Orig(x) = x
      BY <3>2 DEF Orig, CopiesOK, Word
    <3> QED BY <1>2, <2>1, <3>3
  <2>2. CASE Good(x, before[from[p]][n])
    <3>1. x \notin Refs
      BY <2>2, RefsSame DEF Good
    <3>2. u = x
      BY <1>1, <3>1, EndOnlyHere DEF Deref
    <3> QED BY <2>2, <3>2 DEF Good
  <2> QED BY <2>1, <2>2 DEF WordsOK
<1>7. \A v : v = before[from[p]][n] => Good(w, v)'
  BY <1>4, <1>6, HeapKept DEF Good
<1>8. args' = [a \in Block \cup 1..top' |->
                IF a = top + 1 THEN args[u]
                ELSE IF a = p THEN [args[p] EXCEPT ![n] = w] ELSE args[a]]
  BY DEF ForwardArg
<1>9. \A a \in Addr : a # top + 1
  BY Kinds DEF Addr, CopiesOK
<1>10. \A a \in Addr : args'[a] = IF a = p THEN [args[p] EXCEPT ![n] = w] ELSE args[a]
  BY <1>4, <1>8, <1>9 DEF Addr
<1>11. top' = top + 1 => args'[top + 1] = before[from'[top + 1]]
  <2> SUFFICES ASSUME top' = top + 1 PROVE args'[top + 1] = before[from'[top + 1]]
    OBVIOUS
  <2>1. top + 1 \in 1..top'
    BY DEF CopiesOK
  <2>2. args'[top + 1] = args[u]
    BY <1>8, <2>1
  <2> QED BY <1>4, <2>2 DEF WordsOK
<1>12. args' = [a \in Addr' |-> args'[a]]
  BY <1>8 DEF Addr
<1> QED BY <1>4, <1>5, <1>7, <1>10, <1>11, <1>12, HeapKept

(* It keeps every word of the start or a survivor in its place, *)
LEMMA ForwardWords ==
  ASSUME HeapOK, CopiesOK, WordsOK, UNCHANGED heapVars, root' = root,
         NEW p \in Addr, NEW n \in 1..Len(args[p]), target = 3 => args[p][n] \in Word,
         NEW u, NEW w, ForwardArg(p, n, u, w),
         p \in Block => gen[p] >= target
  PROVE  /\ args' \in [Addr' -> Seq(Value \cup Addr')]
         /\ \A a \in Addr' : Len(args'[a]) = Len(before'[from'[a]])
         /\ \A a \in Addr' : \A m \in 1..Len(args'[a]) :
              \/ args'[a][m] = before'[from'[a]][m]
              \/ Good(args[a][m], before[from[a]][m])'
         /\ \A b \in Block : gen'[b] < target' => args'[b] = before'[b]
<1> USE DEF heapVars
<1>1. /\ CopiesOK' /\ top' \in {top, top + 1}
      /\ \A a \in Addr : a \in Addr' /\ from'[a] = from[a]
      /\ \A x, v : Good(x, v) => Good(x, v)'
      /\ \A v : v = before[from[p]][n] => Good(w, v)'
      /\ w \in Value \cup Addr'
      /\ \A a \in Addr : args'[a] = IF a = p THEN [args[p] EXCEPT ![n] = w] ELSE args[a]
      /\ top' = top + 1 => args'[top + 1] = before[from'[top + 1]]
      /\ args' = [a \in Addr' |-> args'[a]]
  BY ForwardStep
<1>2. \A a \in Addr' : a \in Addr \/ (a = top + 1 /\ top' = top + 1)
  <2>1. top \in Nat
    BY DEF CopiesOK
  <2>2. 1..(top + 1) = 1..top \cup {top + 1}
    BY <2>1
  <2> QED BY <1>1, <2>2 DEF Addr
<1>3. ASSUME NEW a \in Addr, a # p
      PROVE  /\ args'[a] = args[a] /\ args'[a] \in Seq(Value \cup Addr')
             /\ Len(args'[a]) = Len(before'[from'[a]])
             /\ \A m \in 1..Len(args'[a]) :
                  \/ args'[a][m] = before'[from'[a]][m]
                  \/ Good(args[a][m], before[from[a]][m])'
  <2>1. args'[a] = args[a] /\ from'[a] = from[a]
    BY <1>1, <1>3
  <2>2. args[a] \in Seq(Value \cup Addr) /\ Value \cup Addr \subseteq Value \cup Addr'
    BY <1>1 DEF WordsOK
  <2>3. args[a] \in Seq(Value \cup Addr')
    BY <2>2
  <2>4. ASSUME NEW m \in 1..Len(args[a])
        PROVE  \/ args'[a][m] = before'[from'[a]][m]
               \/ Good(args[a][m], before[from[a]][m])'
    <3>1. args[a][m] = before[from[a]][m] \/ Good(args[a][m], before[from[a]][m])
      BY DEF WordsOK
    <3>2. PICK x : x = args[a][m]
      OBVIOUS
    <3>3. PICK v : v = before[from[a]][m]
      OBVIOUS
    <3>4. Good(x, v) => Good(x, v)'
      BY <1>1
    <3>5. x = args'[a][m] /\ v = before'[from'[a]][m]
      BY <2>1, <3>2, <3>3
    <3> QED BY <3>1, <3>2, <3>3, <3>4, <3>5
  <2> QED BY <2>1, <2>3, <2>4 DEF WordsOK
<1>4. /\ args'[p] \in Seq(Value \cup Addr') /\ Len(args'[p]) = Len(args[p])
      /\ args'[p][n] = w /\ \A m \in 1..Len(args[p]) : m # n => args'[p][m] = args[p][m]
  <2>1. args[p] \in Seq(Value \cup Addr) /\ Value \cup Addr \subseteq Value \cup Addr'
    BY <1>1 DEF WordsOK
  <2>2. args'[p] = [args[p] EXCEPT ![n] = w] /\ args[p] \in Seq(Value \cup Addr')
    BY <1>1, <2>1
  <2> QED BY <1>1, <2>2
<1>5. ASSUME NEW m \in 1..Len(args'[p])
      PROVE  \/ args'[p][m] = before'[from'[p]][m]
             \/ Good(args[p][m], before[from[p]][m])'
  <2>1. from'[p] = from[p]
    BY <1>1
  <2>2. PICK v : v = before[from[p]][m]
    OBVIOUS
  <2>3. v = before'[from'[p]][m]
    BY <2>1, <2>2
  <2>4. CASE m = n
    <3>1. Good(w, v)' /\ args'[p][m] = w
      BY <1>1, <1>4, <2>2, <2>4
    <3> QED BY <2>3, <3>1
  <2>5. CASE m # n
    <3>1. PICK x : x = args[p][m]
      OBVIOUS
    <3>2. x = args'[p][m] /\ m \in 1..Len(args[p])
      BY <1>4, <2>5, <3>1
    <3>3. x = v \/ Good(x, v)
      BY <2>2, <3>1, <3>2 DEF WordsOK
    <3>4. x = v \/ Good(x, v)'
      BY <1>1, <3>3
    <3> QED BY <2>3, <3>2, <3>4
  <2> QED BY <2>4, <2>5
<1>6. Len(args'[p]) = Len(before'[from'[p]])
  BY <1>1, <1>4 DEF WordsOK
<1>7. ASSUME top' = top + 1
      PROVE  /\ args'[top + 1] \in Seq(Value \cup Addr')
             /\ args'[top + 1] = before'[from'[top + 1]]
  <2>1. args'[top + 1] = before[from'[top + 1]]
    BY <1>1, <1>7
  <2>2. top + 1 \in Addr' /\ from'[top + 1] \in Block
    BY <1>1, <1>7 DEF CopiesOK, Addr
  <2>3. before[from'[top + 1]] \in Seq(Word) /\ Word \subseteq Value \cup Addr'
    BY <2>2 DEF HeapOK, Word, Addr
  <2> QED BY <2>1, <2>3
<1>8. args' \in [Addr' -> Seq(Value \cup Addr')]
  <2>1. \A a \in Addr' : args'[a] \in Seq(Value \cup Addr')
    BY <1>2, <1>3, <1>4, <1>7
  <2> QED BY <1>1, <2>1
<1>9. \A a \in Addr' : Len(args'[a]) = Len(before'[from'[a]])
  BY <1>2, <1>3, <1>6, <1>7
<1>10. ASSUME NEW a \in Addr', NEW m \in 1..Len(args'[a])
       PROVE  \/ args'[a][m] = before'[from'[a]][m]
              \/ Good(args[a][m], before[from[a]][m])'
  BY <1>2, <1>3, <1>5, <1>7
<1>11. \A b \in Block : gen'[b] < target' => args'[b] = before'[b]
  <2> SUFFICES ASSUME NEW b \in Block, gen[b] < target PROVE args'[b] = before[b]
    OBVIOUS
  <2>1. b # p
    BY Generations
  <2> QED BY <1>3, <2>1 DEF Addr, WordsOK
<1> QED BY <1>8, <1>9, <1>10, <1>11

(* What steps that copy nothing leave as it is *)
LEMMA SameCopies ==
  ASSUME HeapOK, CopiesOK, UNCHANGED <<heapVars, root, copyVars>>
  PROVE  /\ HeapOK' /\ CopiesOK' /\ Addr' = Addr
         /\ \A x : (Alive(x)' <=> Alive(x)) /\ (Old(x)' <=> Old(x))
         /\ \A x, v : Good(x, v)' <=> Good(x, v)
<1> USE DEF heapVars, copyVars
<1>1. CopiesOK' /\ Addr' = Addr
  BY DEF CopiesOK, Addr
<1>2. \A x : (Alive(x)' <=> Alive(x)) /\ (Old(x)' <=> Old(x)) /\ Orig(x)' = Orig(x)
  BY DEF Alive, Old, Orig
<1> QED BY <1>1, <1>2, HeapKept DEF Good

-----------------------------------------------------------------------------
(* A settled block stays so while its words do and it stays in the set. *)
LEMMA SettledKept ==
  ASSUME HeapOK, UNCHANGED heapVars, \A x : Alive(x) => Alive(x)',
         NEW b, args'[b] = args[b], Settled(b),
         (\E m \in 1..kept : intgenSet[m] = b) => \E m \in 1..kept' : intgenSet'[m] = b
  PROVE  Settled(b)'
<1>1. IntgenSize(b)' = IntgenSize(b)
  BY HeapKept
<1>2. ASSUME NEW n \in 1..IntgenSize(b)
      PROVE  /\ Alive(args[b][n])'
             /\ Younger(args[b][n], b)' => \E m \in 1..kept' : intgenSet'[m] = b
  <2>1. PICK x : x = args[b][n]
    OBVIOUS
  <2>2. x = args'[b][n]
    BY <2>1
  <2>3. Alive(x) /\ (Younger(x, b) => \E m \in 1..kept : intgenSet[m] = b)
    BY <2>1 DEF Settled
  <2>4. Alive(x)' /\ (Younger(x, b)' <=> Younger(x, b))
    BY <2>3, HeapKept
  <2> QED BY <2>2, <2>3, <2>4
<1> QED BY <1>1, <1>2 DEF Settled

(* A step of a scan forwards one word of the copy that is scanned. *)
LEMMA ScanArgInv ==
  ASSUME CopyInv, ScanArg
  PROVE  CopyInv'
<1> USE DEF heapVars, setVars
<1>1. /\ HeapOK /\ CopiesOK /\ RootOK /\ WordsOK /\ ScanOK /\ SetOK /\ OldOK
      /\ UNCHANGED <<heapVars, root, scan, setVars, pc>> /\ i' = i - 1 /\ i > 0 /\ pc # "root"
  BY DEF CopyInv, ScanArg
<1>2. PICK u, w : ForwardArg(scan, i, u, w)
  BY DEF ScanArg
<1>3. /\ scan \in 1..top /\ scan \in Addr /\ scan \notin Block /\ top \in Nat /\ from[scan] \in Block
      /\ i \in Nat /\ i <= ScanSize(from[scan])
  <2>1. /\ top \in Nat /\ scan \in 0..top /\ i \in Nat /\ scan # 0
        /\ (scan > 0 => i <= ScanSize(from[scan]))
    BY <1>1 DEF CopiesOK, ScanOK
  <2>2. scan \in 1..top
    BY <2>1
  <2> QED BY <1>1, <2>1, <2>2, Kinds DEF Addr, CopiesOK
<1>4. i \in 1..Len(args[scan]) /\ Len(args[scan]) = Len(before[from[scan]])
  <2>1. Len(args[scan]) = Len(before[from[scan]])
    BY <1>1, <1>3 DEF WordsOK
  <2>2. ScanSize(from[scan]) \in Nat /\ ScanSize(from[scan]) <= Len(before[from[scan]])
        /\ Len(before[from[scan]]) \in Nat
    <3>1. before[from[scan]] \in Seq(Word)
      BY <1>1, <1>3 DEF HeapOK
    <3> QED BY <1>1, <1>3, <3>1, SizesFit
  <2> QED BY <1>1, <1>3, <2>1, <2>2
<1>5. args[scan][i] = before[from[scan]][i] /\ args[scan][i] \in Word
  <2>1. ~Passed(scan, i)
    BY <1>1, <1>3 DEF Passed
  <2>2. args[scan][i] = before[from[scan]][i]
    BY <1>1, <1>3, <1>4, <2>1 DEF WordsOK, CopyWord
  <2>3. before[from[scan]] \in Seq(Word)
    BY <1>1, <1>3 DEF HeapOK
  <2> QED BY <1>4, <2>2, <2>3
<1>6. /\ HeapOK' /\ CopiesOK' /\ top' \in {top, top + 1}
      /\ \A a \in Addr : a \in Addr' /\ from'[a] = from[a]
      /\ \A b \in Block : Old(b)' <=> Old(b)
      /\ \A x : Alive(x) => Alive(x)'
      /\ \A x, v : Good(x, v) => Good(x, v)'
      /\ \A v : v = before[from[scan]][i] => Good(w, v)'
      /\ w \in Value \cup Addr'
      /\ \A a \in Addr : args'[a] = IF a = scan THEN [args[scan] EXCEPT ![i] = w] ELSE args[a]
      /\ top' = top + 1 => args'[top + 1] = before[from'[top + 1]]
  BY <1>1, <1>2, <1>3, <1>4, <1>5, ForwardStep
<1>7. /\ args' \in [Addr' -> Seq(Value \cup Addr')]
      /\ \A a \in Addr' : Len(args'[a]) = Len(before'[from'[a]])
      /\ \A a \in Addr' : \A m \in 1..Len(args'[a]) :
           \/ args'[a][m] = before'[from'[a]][m]
           \/ Good(args[a][m], before[from[a]][m])'
      /\ \A b \in Block : gen'[b] < target' => args'[b] = before'[b]
  BY <1>1, <1>2, <1>3, <1>4, <1>5, ForwardWords
<1>8. RootOK'
  <2>1. root \in Addr' /\ from'[root] = from[root] /\ top' >= 1 /\ root = 1
    BY <1>1, <1>3, <1>6 DEF RootOK
  <2> QED BY <1>1, <2>1 DEF RootOK
<1>9. ScanOK'
  <2>1. scan \in 0..top' /\ i' \in Nat /\ scan # 0
    BY <1>1, <1>3, <1>6
  <2>2. i' <= ScanSize(from[scan])
    <3>1. ScanSize(from[scan]) \in Nat
      BY <1>1, <1>3, SizesFit
    <3> QED BY <1>1, <1>3, <3>1
  <2>3. ScanSize(from[scan])' = ScanSize(from[scan])
    <3>1. PICK b : b = from[scan]
      OBVIOUS
    <3>2. b = from'[scan']
      BY <1>1, <1>3, <1>6, <3>1
    <3>3. ScanSize(b)' = ScanSize(b)
      BY <1>1, HeapKept
    <3> QED BY <3>1, <3>2, <3>3
  <2>4. pc' # "root" /\ pc' # "done"
    BY <1>1 DEF ScanArg
  <2> QED BY <1>1, <2>1, <2>2, <2>3, <2>4 DEF ScanOK
<1>10. ASSUME NEW a \in 1..top', NEW m \in 1..Len(args'[a]) PROVE CopyWord(a, m)'
  <2>1. CASE a = top + 1 /\ top' = top + 1
    <3>1. args'[a][m] = before'[from'[a]][m]
      BY <1>1, <1>6, <2>1
    <3>2. ~Passed(a, m)'
      BY <1>1, <1>3, <2>1 DEF Passed
    <3> QED BY <3>1, <3>2 DEF CopyWord
  <2>2. CASE a \in 1..top
    <3>1. a \in Addr /\ from'[a] = from[a]
      BY <1>6, <2>2 DEF Addr
    <3>2. PICK c : c = from[a]
      OBVIOUS
    <3>3. ScanSize(c)' = ScanSize(c) /\ c = from'[a] /\ c \in Block /\ ScanSize(c) \in Nat
      BY <1>1, <3>1, <3>2, HeapKept, SizesFit DEF CopiesOK
    <3>4. PICK v : v = before[c][m]
      OBVIOUS
    <3>5. PICK x : x = args'[a][m]
      OBVIOUS
    <3>6. CASE a = scan /\ m = i
      <4>1. x = w
        <5>1. args[scan] \in Seq(Value \cup Addr)
          BY <1>1, <1>3 DEF WordsOK
        <5> QED BY <1>3, <1>4, <1>6, <3>5, <3>6, <5>1
      <4>2. Good(x, v)'
        BY <1>6, <3>2, <3>4, <3>6, <4>1
      <4>3. Passed(a, m)' /\ m <= ScanSize(c)
        BY <1>1, <1>3, <3>2, <3>6 DEF Passed
      <4> QED BY <1>1, <3>3, <3>4, <3>5, <4>2, <4>3 DEF CopyWord
    <3>7. CASE ~(a = scan /\ m = i)
      <4>1. x = args[a][m] /\ m \in 1..Len(args[a])
        <5>1. args[scan] \in Seq(Value \cup Addr)
          BY <1>1, <1>3 DEF WordsOK
        <5>2. CASE a = scan
          BY <1>4, <1>6, <3>1, <3>5, <3>7, <5>1, <5>2
        <5>3. CASE a # scan
          BY <1>6, <3>1, <3>5, <5>3
        <5> QED BY <5>2, <5>3
      <4>2. Passed(a, m)' <=> Passed(a, m)
        BY <1>1, <1>3, <2>2, <3>7, <4>1 DEF Passed
      <4>3. IF Passed(a, m) /\ m <= ScanSize(c) THEN Good(x, v) ELSE x = v
        BY <1>1, <2>2, <3>2, <3>4, <4>1 DEF WordsOK, CopyWord
      <4>4. Good(x, v) => Good(x, v)'
        BY <1>6
      <4> QED BY <1>1, <3>3, <3>4, <3>5, <4>2, <4>3, <4>4 DEF CopyWord
    <3> QED BY <3>6, <3>7
  <2> QED BY <1>3, <1>6, <1>10, <2>1, <2>2
<1>11. WordsOK'
  BY <1>7, <1>10 DEF WordsOK
<1>12. SetOK'
  <2>1. Live' = Live
    BY <1>1 DEF Live
  <2>2. \A n \in 1..Len(intgenSet) : intgenSet[n] \in Block
    BY <1>1 DEF SetOK
  <2>3. pc' # "words"
    BY <1>1 DEF ScanArg
  <2> QED BY <1>1, <1>6, <2>1, <2>2, <2>3 DEF SetOK
<1>13. OldOK'
  <2>1. ASSUME NEW b \in Block, Old(b)' PROVE Awaited(b)' \/ Settled(b)'
    <3>1. Old(b) /\ args'[b] = args[b]
      BY <1>3, <1>6, <2>1 DEF Addr
    <3>2. Awaited(b) \/ Settled(b)
      BY <1>1, <3>1 DEF OldOK, ScanArg
    <3>3. CASE Awaited(b)
      BY <1>1, <3>3 DEF Awaited
    <3>4. CASE Settled(b)
      BY <1>1, <1>6, <3>1, <3>4, SettledKept
    <3> QED BY <3>2, <3>3, <3>4
  <2>2. pc' # "words"
    BY <1>1 DEF ScanArg
  <2> QED BY <2>1, <2>2 DEF OldOK
<1> QED BY <1>6, <1>8, <1>9, <1>11, <1>12, <1>13 DEF CopyInv

(* A step of the traversal of the set forwards one word of an old block. *)
LEMMA EntryArgInv ==
  ASSUME CopyInv, EntryArg
  PROVE  CopyInv'
<1> USE DEF heapVars, scanVars
<1>1. /\ HeapOK /\ CopiesOK /\ RootOK /\ WordsOK /\ ScanOK /\ SetOK /\ OldOK
      /\ UNCHANGED <<heapVars, root, scanVars, intgenSet, entry, kept, childish, pc>>
      /\ k' = k - 1 /\ k > 0 /\ pc = "words"
  BY DEF CopyInv, EntryArg
<1>2. PICK p : p = intgenSet[entry]
  OBVIOUS
<1>3. PICK u, w : ForwardArg(p, k, u, w) /\ young' = (young \/ Younger(w, p))
  BY <1>2 DEF EntryArg
<1>4. p \in Block /\ Old(p) /\ p \in Addr /\ from[p] = p /\ gen[p] >= target
      /\ k \in Nat /\ k <= IntgenSize(p) /\ entry \in 1..Len(intgenSet)
  <2>1. /\ intgenSet \in Seq(Block) /\ entry \in 0..Len(intgenSet) /\ kept \in 0..entry
        /\ kept < entry /\ Old(intgenSet[entry]) /\ k <= IntgenSize(intgenSet[entry]) /\ k \in Nat
    BY <1>1 DEF SetOK
  <2>2. entry \in 1..Len(intgenSet)
    BY <2>1
  <2> QED BY <1>1, <1>2, <2>1, <2>2 DEF Old, Addr, CopiesOK
<1>5. k \in 1..Len(args[p]) /\ Len(args[p]) = Len(before[p]) /\ Len(before[p]) \in Nat
      /\ IntgenSize(p) \in Nat /\ IntgenSize(p) <= Len(before[p])
  <2>1. Len(args[p]) = Len(before[p])
    BY <1>1, <1>4 DEF WordsOK
  <2>2. before[p] \in Seq(Word)
    BY <1>1, <1>4 DEF HeapOK
  <2>3. IntgenSize(p) \in Nat /\ IntgenSize(p) <= Len(before[p])
    BY <1>1, <1>4, SizesFit
  <2> QED BY <1>1, <1>4, <2>1, <2>2, <2>3
<1>6. target # 3
  BY <1>1, <1>4, Generations
<1>7. /\ HeapOK' /\ CopiesOK' /\ top' \in {top, top + 1}
      /\ \A a \in Addr : a \in Addr' /\ from'[a] = from[a]
      /\ \A b \in Block : Old(b)' <=> Old(b)
      /\ \A x : Alive(x) => Alive(x)'
      /\ \A x, v : Good(x, v) => Good(x, v)'
      /\ \A v : v = before[from[p]][k] => Good(w, v)'
      /\ w \in Value \cup Addr'
      /\ \A a \in Addr : args'[a] = IF a = p THEN [args[p] EXCEPT ![k] = w] ELSE args[a]
      /\ top' = top + 1 => args'[top + 1] = before[from'[top + 1]]
  BY <1>1, <1>3, <1>4, <1>5, <1>6, ForwardStep
<1>8. /\ args' \in [Addr' -> Seq(Value \cup Addr')]
      /\ \A a \in Addr' : Len(args'[a]) = Len(before'[from'[a]])
      /\ \A a \in Addr' : \A m \in 1..Len(args'[a]) :
           \/ args'[a][m] = before'[from'[a]][m]
           \/ Good(args[a][m], before[from[a]][m])'
      /\ \A b \in Block : gen'[b] < target' => args'[b] = before'[b]
  BY <1>1, <1>3, <1>4, <1>5, <1>6, ForwardWords
<1>9. RootOK'
  <2>1. root \in Addr' /\ from'[root] = from[root] /\ top' >= 1 /\ root = 1
    BY <1>1, <1>7 DEF RootOK, CopiesOK
  <2> QED BY <1>1, <2>1 DEF RootOK
<1>10. top \in Nat /\ scan \in 0..top
  BY <1>1 DEF CopiesOK, ScanOK
<1>11. ScanOK'
  <2>1. scan' \in 0..top' /\ i' \in Nat /\ (scan = 0 => i = 0)
    BY <1>1, <1>7, <1>10 DEF ScanOK
  <2>2. ASSUME scan > 0 PROVE i <= ScanSize(from[scan])'
    <3>1. i <= ScanSize(from[scan]) /\ scan \in Addr
      BY <1>1, <1>10, <2>2 DEF ScanOK, Addr
    <3>2. PICK b : b = from[scan]
      OBVIOUS
    <3>3. b = from'[scan']
      BY <1>1, <1>7, <3>1, <3>2
    <3>4. ScanSize(b)' = ScanSize(b)
      BY <1>1, HeapKept
    <3> QED BY <3>1, <3>2, <3>3, <3>4
  <2> QED BY <1>1, <2>1, <2>2 DEF ScanOK
<1>12. ASSUME NEW a \in 1..top', NEW m \in 1..Len(args'[a]) PROVE CopyWord(a, m)'
  <2>1. CASE a = top + 1 /\ top' = top + 1
    <3>1. args'[a][m] = before'[from'[a]][m]
      BY <1>1, <1>7, <2>1
    <3>2. ~Passed(a, m)'
      BY <1>1, <1>10, <2>1 DEF Passed
    <3> QED BY <3>1, <3>2 DEF CopyWord
  <2>2. CASE a \in 1..top
    <3>1. a \in Addr /\ from'[a] = from[a] /\ a # p
      BY <1>4, <1>7, <2>2, Kinds DEF Addr
    <3>2. PICK c : c = from[a]
      OBVIOUS
    <3>3. ScanSize(c)' = ScanSize(c) /\ c = from'[a]
      BY <1>1, <3>1, <3>2, HeapKept
    <3>4. PICK v : v = before[c][m]
      OBVIOUS
    <3>5. PICK x : x = args'[a][m]
      OBVIOUS
    <3>6. x = args[a][m] /\ m \in 1..Len(args[a])
      BY <1>7, <3>1, <3>5
    <3>7. Passed(a, m)' <=> Passed(a, m)
      BY <1>1 DEF Passed
    <3>8. IF Passed(a, m) /\ m <= ScanSize(c) THEN Good(x, v) ELSE x = v
      BY <1>1, <2>2, <3>2, <3>4, <3>6 DEF WordsOK, CopyWord
    <3>9. Good(x, v) => Good(x, v)'
      BY <1>7
    <3> QED BY <1>1, <3>3, <3>4, <3>5, <3>7, <3>8, <3>9 DEF CopyWord
  <2> QED BY <1>7, <1>10, <1>12, <2>1, <2>2
<1>13. WordsOK'
  BY <1>8, <1>12 DEF WordsOK
<1>14. SetOK'
  <2>1. Live' = Live
    BY <1>1 DEF Live
  <2>2. young' \in BOOLEAN
    BY <1>3
  <2>3. k' \in Nat /\ k' <= IntgenSize(p)
    BY <1>1, <1>4, <1>5
  <2>4. IntgenSize(p)' = IntgenSize(p) /\ Old(p)' /\ p = intgenSet'[entry']
    BY <1>1, <1>2, <1>4, <1>7, HeapKept
  <2>5. k' <= IntgenSize(intgenSet[entry])' /\ Old(intgenSet[entry])'
    BY <2>3, <2>4
  <2> QED BY <1>1, <1>7, <2>1, <2>2, <2>3, <2>5 DEF SetOK
<1>15. OldOK'
  <2>1. ASSUME NEW b \in Block, Old(b)'
        PROVE  (Awaited(b) \/ (pc = "words" /\ b = intgenSet[entry]) \/ Settled(b))'
    <3>1. CASE b = p
      BY <1>1, <1>2, <3>1
    <3>2. CASE b # p
      <4>1. Old(b) /\ args'[b] = args[b]
        BY <1>7, <2>1, <3>2 DEF Addr
      <4>2. Awaited(b) \/ Settled(b)
        BY <1>1, <1>2, <3>2, <4>1 DEF OldOK
      <4>3. CASE Awaited(b)
        BY <1>1, <4>3 DEF Awaited
      <4>4. CASE Settled(b)
        BY <1>1, <1>7, <4>1, <4>4, SettledKept
      <4> QED BY <4>2, <4>3, <4>4
    <3> QED BY <3>1, <3>2
  <2>2. ASSUME NEW n \in 1..IntgenSize(p), n > k'
        PROVE  Alive(args[p][n])' /\ (Younger(args[p][n], p)' => young')
    <3>0. args[p] \in Seq(Value \cup Addr) /\ args'[p] = [args[p] EXCEPT ![k] = w]
      BY <1>1, <1>4, <1>7 DEF WordsOK
    <3>1. PICK x : x = args'[p][n]
      OBVIOUS
    <3>2. Younger(x, p)' <=> Younger(x, p)
      BY <1>1, HeapKept
    <3>3. CASE n = k
      <4>1. x = w
        BY <1>5, <3>0, <3>1, <3>3
      <4>2. \E v : Good(w, v)'
        BY <1>7
      <4>3. Alive(x)'
        BY <4>1, <4>2 DEF Good
      <4> QED BY <1>3, <3>1, <3>2, <4>1, <4>3
    <3>4. CASE n # k
      <4>1. x = args[p][n] /\ n > k
        BY <1>1, <1>4, <1>5, <2>2, <3>0, <3>1, <3>4
      <4>2. Alive(x) /\ (Younger(x, p) => young)
        BY <1>1, <1>2, <4>1 DEF OldOK
      <4> QED BY <1>3, <1>7, <3>1, <3>2, <4>2
    <3> QED BY <3>3, <3>4
  <2>3. p = intgenSet'[entry'] /\ IntgenSize(p)' = IntgenSize(p)
    BY <1>1, <1>2, HeapKept
  <2>4. ASSUME NEW n \in 1..IntgenSize(intgenSet[entry])', n > k'
        PROVE  Alive(args[intgenSet[entry]][n])'
               /\ (Younger(args[intgenSet[entry]][n], intgenSet[entry])' => young')
    BY <2>2, <2>3, <2>4
  <2> QED BY <2>1, <2>4 DEF OldOK
<1> QED BY <1>7, <1>9, <1>11, <1>13, <1>14, <1>15 DEF CopyInv

-----------------------------------------------------------------------------
(* The scan turns to the next copy. *)
LEMMA NextBlockInv ==
  ASSUME CopyInv, NextBlock
  PROVE  CopyInv'
<1> USE DEF heapVars, setVars, copyVars
<1>1. /\ HeapOK /\ CopiesOK /\ RootOK /\ WordsOK /\ ScanOK /\ SetOK /\ OldOK
      /\ UNCHANGED <<heapVars, root, copyVars, setVars, pc>>
      /\ i = 0 /\ scan < top /\ scan' = scan + 1 /\ i' = ScanSize(from[scan + 1])
      /\ pc \in {"scan", "rescan"}
  BY DEF CopyInv, NextBlock
<1>2. /\ HeapOK' /\ CopiesOK' /\ Addr' = Addr
      /\ \A x : (Alive(x)' <=> Alive(x)) /\ (Old(x)' <=> Old(x))
      /\ \A x, v : Good(x, v)' <=> Good(x, v)
  BY <1>1, SameCopies
<1>3. \A b : ScanSize(b)' = ScanSize(b) /\ IntgenSize(b)' = IntgenSize(b)
  BY <1>1, HeapKept
<1>4. top \in Nat /\ scan \in 0..top /\ scan + 1 \in 1..top
      /\ from[scan + 1] \in Block /\ ScanSize(from[scan + 1]) \in Nat
  <2>1. top \in Nat /\ scan \in 0..top
    BY <1>1 DEF CopiesOK, ScanOK
  <2>2. scan + 1 \in 1..top
    BY <1>1, <2>1
  <2>3. from[scan + 1] \in Block
    BY <1>1, <2>2 DEF CopiesOK, Addr
  <2> QED BY <1>1, <2>1, <2>2, <2>3, SizesFit
<1>5. RootOK'
  BY <1>1, <1>2 DEF RootOK
<1>6. ScanOK'
  <2>1. i' = ScanSize(from[scan])'
    <3>1. PICK b : b = from[scan + 1]
      OBVIOUS
    <3> QED BY <1>1, <1>3, <3>1
  <2>2. i' <= ScanSize(from[scan])'
    BY <1>1, <1>4, <2>1
  <2> QED BY <1>1, <1>4, <2>2 DEF ScanOK
<1>7. ASSUME NEW a \in 1..top, NEW m \in 1..Len(args[a]) PROVE CopyWord(a, m)'
  <2>1. PICK c : c = from[a]
    OBVIOUS
  <2>2. PICK v : v = before[c][m]
    OBVIOUS
  <2>3. PICK x : x = args[a][m]
    OBVIOUS
  <2>4. c \in Block /\ ScanSize(c) \in Nat
    BY <1>1, <2>1, SizesFit DEF CopiesOK, Addr
  <2>5. IF Passed(a, m) /\ m <= ScanSize(c) THEN Good(x, v) ELSE x = v
    BY <1>1, <2>1, <2>2, <2>3 DEF WordsOK, CopyWord
  <2>6. Passed(a, m)' /\ m <= ScanSize(c) <=> Passed(a, m) /\ m <= ScanSize(c)
    <3>1. m \in Nat /\ m > 0 /\ a \in Nat
      BY <1>4
    <3>2. CASE a = scan + 1
      BY <1>1, <1>4, <2>1, <2>4, <3>1, <3>2 DEF Passed
    <3>3. CASE a # scan + 1
      BY <1>1, <1>4, <3>1, <3>3 DEF Passed
    <3> QED BY <3>2, <3>3
  <2> QED BY <1>1, <1>2, <1>3, <2>1, <2>2, <2>3, <2>5, <2>6 DEF CopyWord
<1>8. WordsOK'
  <2>1. \A a \in Addr : \A n \in 1..Len(args[a]) :
          args[a][n] = before[from[a]][n] \/ Good(args[a][n], before[from[a]][n])'
    BY <1>1, <1>2 DEF WordsOK, Good
  <2> QED BY <1>1, <1>2, <1>7, <2>1 DEF WordsOK
<1>9. SetOK'
  <2>1. Live' = Live
    BY <1>1 DEF Live
  <2> QED BY <1>1, <1>2, <2>1 DEF SetOK
<1>10. OldOK'
  <2>1. ASSUME NEW b \in Block, Old(b)' PROVE Awaited(b)' \/ Settled(b)'
    <3>1. Old(b) /\ (Awaited(b) \/ Settled(b))
      BY <1>1, <1>2, <2>1 DEF OldOK
    <3>2. CASE Awaited(b)
      BY <1>1, <3>2 DEF Awaited
    <3>3. CASE Settled(b)
      BY <1>1, <1>2, <3>3, SettledKept
    <3> QED BY <3>1, <3>2, <3>3
  <2> QED BY <1>1, <2>1 DEF OldOK
<1> QED BY <1>2, <1>5, <1>6, <1>8, <1>9, <1>10 DEF CopyInv

(* What steps that touch neither words nor copies leave as it is *)
LEMMA SameScan ==
  ASSUME CopyInv, UNCHANGED <<heapVars, root, copyVars, scanVars>>,
         pc # "root", pc' # "root", pc' = "done" => scan = top /\ i = 0
  PROVE  /\ HeapOK' /\ CopiesOK' /\ RootOK' /\ WordsOK' /\ ScanOK'
         /\ \A x : (Alive(x)' <=> Alive(x)) /\ (Old(x)' <=> Old(x))
<1> USE DEF heapVars, copyVars, scanVars
<1>1. /\ HeapOK /\ CopiesOK /\ RootOK /\ WordsOK /\ ScanOK
  BY DEF CopyInv
<1>2. /\ HeapOK' /\ CopiesOK' /\ Addr' = Addr
      /\ \A x : (Alive(x)' <=> Alive(x)) /\ (Old(x)' <=> Old(x))
      /\ \A x, v : Good(x, v)' <=> Good(x, v)
  BY <1>1, SameCopies
<1>3. \A b : ScanSize(b)' = ScanSize(b)
  BY <1>1, HeapKept
<1>4. RootOK'
  BY <1>1, <1>2 DEF RootOK
<1>5. ScanOK'
  BY <1>1, <1>3 DEF ScanOK
<1>6. \A a, n : CopyWord(a, n)' <=> CopyWord(a, n)
  BY <1>2, <1>3 DEF CopyWord, Passed
<1>7. WordsOK'
  <2>1. \A a \in Addr : \A n \in 1..Len(args[a]) :
          args[a][n] = before[from[a]][n] \/ Good(args[a][n], before[from[a]][n])'
    BY <1>1, <1>2 DEF WordsOK, Good
  <2> QED BY <1>1, <1>2, <1>6, <2>1 DEF WordsOK
<1> QED BY <1>2, <1>4, <1>5, <1>7

(* The ends of the two scans, and of the traversal of the set *)
LEMMA EndInv ==
  ASSUME CopyInv, EndScan \/ EndSet
  PROVE  CopyInv'
<1> USE DEF heapVars, copyVars, scanVars, setVars
<1>1. /\ HeapOK /\ SetOK /\ OldOK /\ UNCHANGED <<heapVars, root, copyVars, scanVars, setVars>>
      /\ pc \in {"scan", "rescan", "set"} /\ pc' \in {"set", "rescan", "done"}
      /\ (pc' = "done" => scan = top /\ i = 0)
      /\ (pc' = "rescan" => entry = Len(intgenSet))
      /\ (pc' = "done" => pc = "rescan")
  BY DEF CopyInv, EndScan, EndSet
<1>2. /\ HeapOK' /\ CopiesOK' /\ RootOK' /\ WordsOK' /\ ScanOK'
      /\ \A x : (Alive(x)' <=> Alive(x)) /\ (Old(x)' <=> Old(x))
  BY <1>1, SameScan
<1>3. Live' = Live
  BY <1>1 DEF Live
<1>4. SetOK'
  <2>1. pc' \in {"rescan", "done"} => entry = Len(intgenSet)
    BY <1>1 DEF SetOK
  <2> QED BY <1>1, <1>2, <1>3, <2>1 DEF SetOK
<1>5. ASSUME NEW b \in Block, Old(b)' PROVE Awaited(b)' \/ Settled(b)'
  <2>1. Old(b) /\ (Awaited(b) \/ Settled(b))
    BY <1>1, <1>2, <1>5 DEF OldOK
  <2>2. CASE Awaited(b)
    BY <1>1, <2>2 DEF Awaited
  <2>3. CASE Settled(b)
    BY <1>1, <1>2, <2>3, SettledKept
  <2> QED BY <2>1, <2>2, <2>3
<1>6. OldOK'
  BY <1>1, <1>5 DEF OldOK
<1> QED BY <1>2, <1>4, <1>6 DEF CopyInv

(* An entry of the set is read: it was moved, it is garbage or it is old. *)
LEMMA NextEntryInv ==
  ASSUME CopyInv, NextEntry
  PROVE  CopyInv'
<1> USE DEF heapVars, copyVars, scanVars
<1>1. /\ HeapOK /\ CopiesOK /\ SetOK /\ OldOK
      /\ UNCHANGED <<heapVars, root, copyVars, scanVars, intgenSet, kept>>
      /\ pc = "set" /\ entry < Len(intgenSet) /\ entry' = entry + 1
  BY DEF CopyInv, NextEntry
<1>2. PICK b : b = intgenSet[entry + 1]
  OBVIOUS
<1>3. \/ fwd[b] # 0 /\ childish' = childish \ {fwd[b]} /\ UNCHANGED <<k, young, pc>>
      \/ fwd[b] = 0 /\ gen[b] < target /\ UNCHANGED <<k, young, pc, childish>>
      \/ /\ fwd[b] = 0 /\ gen[b] >= target /\ k' = IntgenSize(b) /\ young' = FALSE
         /\ pc' = "words" /\ UNCHANGED childish
  BY <1>2 DEF NextEntry
<1>4. pc' \in {"set", "words"}
  BY <1>1, <1>3
<1>5. /\ HeapOK' /\ CopiesOK' /\ RootOK' /\ WordsOK' /\ ScanOK'
      /\ \A x : (Alive(x)' <=> Alive(x)) /\ (Old(x)' <=> Old(x))
  BY <1>1, <1>4, SameScan
<1>6. /\ intgenSet \in Seq(Block) /\ entry \in 0..Len(intgenSet) /\ kept \in 0..entry
      /\ Len(intgenSet) \in Nat /\ entry \in Nat /\ kept \in Nat /\ kept <= entry
      /\ entry + 1 \in 1..Len(intgenSet) /\ b \in Block
      /\ \A n \in 1..Len(intgenSet) : intgenSet[n] \in Block
  <2>1. intgenSet \in Seq(Block) /\ entry \in 0..Len(intgenSet) /\ kept \in 0..entry
    BY <1>1 DEF SetOK
  <2>2. entry + 1 \in 1..Len(intgenSet) /\ Len(intgenSet) \in Nat /\ entry \in Nat
    BY <1>1, <2>1
  <2> QED BY <1>2, <2>1, <2>2
<1>7. childish' = childish /\ childish \in SUBSET Block
  <2>1. childish \in SUBSET Block
    BY <1>1 DEF SetOK
  <2>2. fwd[b] \notin Block
    BY <1>1, <1>6, Kinds DEF CopiesOK, Addr
  <2> QED BY <1>3, <2>1, <2>2
<1>8. (pc' = "words" <=> Old(b)) /\ (pc' = "words" => k' = IntgenSize(b) /\ young' = FALSE)
  <2>1. gen[b] \in 0..2 /\ target \in 1..3
    BY <1>1, <1>6, Generations
  <2> QED BY <1>1, <1>3, <1>6, <2>1 DEF Old
<1>9. Live' = IF Old(b) THEN Live ELSE Live \ {entry + 1}
  <2>1. \A n \in 1..Len(intgenSet) : n \in Live <=> n <= kept \/ n > entry
    BY <1>1 DEF Live
  <2>2. \A n \in 1..Len(intgenSet) :
          n \in Live' <=> n <= kept \/ n > entry + 1 \/ (n = entry + 1 /\ Old(b))
    BY <1>1, <1>8 DEF Live
  <2>3. Live \subseteq 1..Len(intgenSet) /\ Live' \subseteq 1..Len(intgenSet)
    BY <1>1 DEF Live
  <2>4. \A n \in 1..Len(intgenSet) :
          n \in Live' <=> n \in (IF Old(b) THEN Live ELSE Live \ {entry + 1})
    BY <1>6, <2>1, <2>2
  <2> QED BY <2>3, <2>4
<1>10. SetOK'
  <2>1. /\ entry' \in 0..Len(intgenSet) /\ kept \in 0..entry' /\ kept < entry'
    BY <1>1, <1>6
  <2>2. k' \in Nat /\ young' \in BOOLEAN
    <3>1. IntgenSize(b) \in Nat
      BY <1>1, <1>6, SizesFit
    <3>2. k \in Nat /\ young \in BOOLEAN
      BY <1>1 DEF SetOK
    <3> QED BY <1>3, <3>1, <3>2
  <2>3. pc' = "words" => (Old(intgenSet[entry]) /\ k <= IntgenSize(intgenSet[entry]))'
    <3>1. b = intgenSet'[entry'] /\ IntgenSize(b)' = IntgenSize(b) /\ IntgenSize(b) \in Nat
      BY <1>1, <1>2, <1>6, HeapKept, SizesFit
    <3>2. pc' = "words" => Old(b)' /\ k' <= IntgenSize(b)'
      BY <1>5, <1>8, <3>1
    <3> QED BY <3>1, <3>2
  <2>4. \A m, n \in Live' : intgenSet'[m] = intgenSet'[n] => m = n
    BY <1>1, <1>9 DEF SetOK
  <2>5. ASSUME NEW c \in Block, Old(c)'
        PROVE  c \in childish' <=> \E n \in Live' : intgenSet'[n] = c
    <3>1. Old(c) /\ (c \in childish <=> \E n \in Live : intgenSet[n] = c)
      BY <1>1, <1>5, <2>5 DEF SetOK
    <3>2. CASE Old(b)
      BY <1>1, <1>7, <1>9, <3>1, <3>2
    <3>3. CASE ~Old(b)
      <4>1. c # b
        BY <3>1, <3>3
      <4> QED BY <1>1, <1>2, <1>7, <1>9, <3>1, <3>3, <4>1
    <3> QED BY <3>2, <3>3
  <2> QED BY <1>1, <1>4, <1>6, <1>7, <2>1, <2>2, <2>3, <2>4, <2>5 DEF SetOK
<1>11. OldOK'
  <2>1. ASSUME NEW c \in Block, Old(c)'
        PROVE  (Awaited(c) \/ (pc = "words" /\ c = intgenSet[entry]) \/ Settled(c))'
    <3>1. Old(c) /\ (Awaited(c) \/ Settled(c))
      BY <1>1, <1>5, <2>1 DEF OldOK
    <3>2. CASE c = b
      BY <1>1, <1>2, <1>8, <3>1, <3>2
    <3>3. CASE c # b /\ Awaited(c)
      <4>1. PICK n \in 1..Len(intgenSet) : n > entry /\ intgenSet[n] = c
        BY <3>3 DEF Awaited
      <4>2. n > entry + 1
        BY <1>2, <1>6, <3>3, <4>1
      <4> QED BY <1>1, <4>1, <4>2 DEF Awaited
    <3>4. CASE Settled(c)
      BY <1>1, <1>5, <3>4, SettledKept
    <3> QED BY <3>1, <3>2, <3>3, <3>4
  <2>2. pc' = "words" => k' = IntgenSize(intgenSet[entry])'
    <3>1. b = intgenSet'[entry'] /\ IntgenSize(b)' = IntgenSize(b)
      BY <1>1, <1>2, HeapKept
    <3> QED BY <1>8, <3>1
  <2>3. pc' = "words" => IntgenSize(intgenSet[entry])' \in Nat
    <3>1. b = intgenSet'[entry'] /\ IntgenSize(b)' = IntgenSize(b) /\ IntgenSize(b) \in Nat
      BY <1>1, <1>2, <1>6, HeapKept, SizesFit
    <3> QED BY <3>1
  <2>4. pc' = "words" => \A n \in 1..IntgenSize(intgenSet[entry])' : ~(n > k')
    BY <2>2, <2>3
  <2> QED BY <2>1, <2>4 DEF OldOK
<1> QED BY <1>5, <1>10, <1>11 DEF CopyInv

(* An entry stays in the set, at most at the place where it was read, or leaves it. *)
LEMMA EntryDoneInv ==
  ASSUME CopyInv, EntryDone
  PROVE  CopyInv'
<1> USE DEF heapVars, copyVars, scanVars
<1>1. /\ HeapOK /\ CopiesOK /\ SetOK /\ OldOK
      /\ UNCHANGED <<heapVars, root, copyVars, scanVars, entry, k, young>>
      /\ pc = "words" /\ pc' = "set" /\ k = 0
  BY DEF CopyInv, EntryDone
<1>2. PICK b : b = intgenSet[entry]
  OBVIOUS
<1>3. \/ /\ young /\ kept' = kept + 1 /\ intgenSet' = [intgenSet EXCEPT ![kept + 1] = b]
         /\ UNCHANGED childish
      \/ ~young /\ childish' = childish \ {b} /\ UNCHANGED <<intgenSet, kept>>
  BY <1>2 DEF EntryDone
<1>4. /\ HeapOK' /\ CopiesOK' /\ RootOK' /\ WordsOK' /\ ScanOK'
      /\ \A x : (Alive(x)' <=> Alive(x)) /\ (Old(x)' <=> Old(x))
  BY <1>1, SameScan
<1>5. /\ intgenSet \in Seq(Block) /\ Len(intgenSet) \in Nat /\ entry \in Nat /\ kept \in Nat
      /\ kept < entry /\ entry <= Len(intgenSet) /\ entry \in 1..Len(intgenSet)
      /\ kept + 1 \in 1..Len(intgenSet) /\ b \in Block /\ Old(b) /\ childish \in SUBSET Block
      /\ young \in BOOLEAN
  <2>1. /\ intgenSet \in Seq(Block) /\ entry \in 0..Len(intgenSet) /\ kept \in 0..entry
        /\ kept < entry /\ Old(intgenSet[entry]) /\ childish \in SUBSET Block
        /\ young \in BOOLEAN
    BY <1>1 DEF SetOK
  <2>2. Len(intgenSet) \in Nat /\ entry \in Nat /\ kept \in Nat /\ entry \in 1..Len(intgenSet)
        /\ kept + 1 \in 1..Len(intgenSet)
    BY <2>1
  <2> QED BY <1>2, <2>1, <2>2
<1>6. \A m, n \in Live : intgenSet[m] = intgenSet[n] => m = n
  BY <1>1 DEF SetOK
<1>7. \A n \in 1..Len(intgenSet) : n \in Live <=> n <= kept \/ n >= entry
  BY <1>1, <1>5 DEF Live
<1>8. Live \subseteq 1..Len(intgenSet) /\ entry \in Live
  BY <1>5, <1>7 DEF Live
<1>9. ASSUME NEW n \in 1..IntgenSize(b)
      PROVE  Alive(args[b][n]) /\ (Younger(args[b][n], b) => young)
  <2>1. IntgenSize(b) \in Nat /\ n > k
    BY <1>1, <1>5, SizesFit
  <2> QED BY <1>1, <1>2, <2>1 DEF OldOK
<1>10. CASE young /\ kept' = kept + 1 /\ intgenSet' = [intgenSet EXCEPT ![kept + 1] = b]
            /\ childish' = childish
  <2>1. /\ intgenSet' \in Seq(Block) /\ Len(intgenSet') = Len(intgenSet)
        /\ intgenSet'[kept + 1] = b
        /\ \A n \in 1..Len(intgenSet) : n # kept + 1 => intgenSet'[n] = intgenSet[n]
    BY <1>5, <1>10
  <2>2. \A n \in 1..Len(intgenSet) : n \in Live' <=> n <= kept + 1 \/ n > entry
    BY <1>1, <1>10, <2>1 DEF Live
  <2>3. Live' \subseteq 1..Len(intgenSet)
    BY <2>1 DEF Live
  <2>4. \A n \in Live' : n # kept + 1 => n \in Live /\ n # entry /\ intgenSet'[n] = intgenSet[n]
    BY <1>5, <1>7, <2>1, <2>2, <2>3
  <2>5. \A n \in Live : n # entry => n \in Live' /\ n # kept + 1
    BY <1>5, <1>7, <1>8, <2>2
  <2>6. \A m, n \in Live' : intgenSet'[m] = intgenSet'[n] => m = n
    BY <1>2, <1>6, <1>8, <2>1, <2>4
  <2>7. kept + 1 \in Live'
    BY <1>5, <2>2
  <2>8. \A c : (\E n \in Live' : intgenSet'[n] = c) <=> \E n \in Live : intgenSet[n] = c
    <3> TAKE c
    <3>1. ASSUME NEW n \in Live', intgenSet'[n] = c PROVE \E m \in Live : intgenSet[m] = c
      BY <1>2, <1>8, <2>1, <2>4, <3>1
    <3>2. ASSUME NEW n \in Live, intgenSet[n] = c PROVE \E m \in Live' : intgenSet'[m] = c
      <4>1. CASE n = entry
        BY <1>2, <2>1, <2>7, <3>2, <4>1
      <4>2. CASE n # entry
        <5>1. n \in Live' /\ n # kept + 1
          BY <2>5, <4>2
        <5> QED BY <2>4, <3>2, <5>1
      <4> QED BY <4>1, <4>2
    <3> QED BY <3>1, <3>2
  <2>9. SetOK'
    <3>1. entry' \in 0..Len(intgenSet') /\ kept' \in 0..entry'
      BY <1>1, <1>5, <1>10, <2>1
    <3>2. \A c \in Block : Old(c)' => (c \in childish' <=> \E n \in Live' : intgenSet'[n] = c)
      BY <1>1, <1>4, <1>10, <2>8 DEF SetOK
    <3>3. k' \in Nat /\ young' \in BOOLEAN /\ childish' \in SUBSET Block
      BY <1>1, <1>5, <1>10
    <3> QED BY <1>1, <2>1, <2>6, <3>1, <3>2, <3>3 DEF SetOK
  <2>10. ASSUME NEW c \in Block, Old(c)' PROVE Awaited(c)' \/ Settled(c)'
    <3>1. Old(c) /\ (Awaited(c) \/ c = b \/ Settled(c))
      BY <1>1, <1>2, <1>4, <2>10 DEF OldOK
    <3>2. CASE Awaited(c)
      <4>1. PICK n \in 1..Len(intgenSet) : n > entry /\ intgenSet[n] = c
        BY <3>2 DEF Awaited
      <4>2. n # kept + 1
        BY <1>5, <4>1
      <4> QED BY <1>1, <2>1, <4>1, <4>2 DEF Awaited
    <3>3. CASE c = b
      <4>1. \E m \in 1..kept' : intgenSet'[m] = b
        BY <1>5, <1>10, <2>1
      <4>2. IntgenSize(b)' = IntgenSize(b)
        BY <1>1, HeapKept
      <4>3. ASSUME NEW n \in 1..IntgenSize(b) PROVE Alive(args[b][n])'
        <5>1. PICK x : x = args[b][n]
          OBVIOUS
        <5> QED BY <1>1, <1>4, <1>9, <5>1
      <4> QED BY <3>3, <4>1, <4>2, <4>3 DEF Settled
    <3>4. CASE Settled(c)
      <4>1. (\E m \in 1..kept : intgenSet[m] = c) => \E m \in 1..kept' : intgenSet'[m] = c
        <5> SUFFICES ASSUME NEW m \in 1..kept, intgenSet[m] = c
                     PROVE  m \in 1..kept' /\ intgenSet'[m] = c
          OBVIOUS
        <5>1. m \in 1..kept' /\ m \in 1..Len(intgenSet) /\ m # kept + 1
          BY <1>5, <1>10
        <5> QED BY <2>1, <5>1
      <4> QED BY <1>1, <1>4, <3>4, <4>1, SettledKept
    <3> QED BY <3>1, <3>2, <3>3, <3>4
  <2>11. OldOK'
    BY <1>1, <2>10 DEF OldOK
  <2> QED BY <1>4, <2>9, <2>11 DEF CopyInv
<1>11. CASE ~young /\ childish' = childish \ {b} /\ UNCHANGED <<intgenSet, kept>>
  <2>1. Live' = Live \ {entry}
    <3>1. \A n \in 1..Len(intgenSet) : n \in Live' <=> n <= kept \/ n > entry
      BY <1>1, <1>11 DEF Live
    <3>2. Live' \subseteq 1..Len(intgenSet)
      BY <1>11 DEF Live
    <3>3. \A n \in 1..Len(intgenSet) : n \in Live' <=> n \in Live \ {entry}
      BY <1>5, <1>7, <3>1
    <3> QED BY <1>8, <3>2, <3>3
  <2>2. SetOK'
    <3>1. entry' \in 0..Len(intgenSet') /\ kept' \in 0..entry' /\ intgenSet' \in Seq(Block)
      BY <1>1, <1>5, <1>11
    <3>2. \A c \in Block : Old(c)' => (c \in childish' <=> \E n \in Live' : intgenSet'[n] = c)
      <4> SUFFICES ASSUME NEW c \in Block, Old(c)
                   PROVE  c \in childish \ {b} <=> \E n \in Live \ {entry} : intgenSet[n] = c
        BY <1>4, <1>11, <2>1
      <4>1. c \in childish <=> \E n \in Live : intgenSet[n] = c
        BY <1>1 DEF SetOK
      <4> QED BY <1>2, <1>6, <1>8, <4>1
    <3>3. k' \in Nat /\ young' \in BOOLEAN /\ childish' \in SUBSET Block
      BY <1>1, <1>5, <1>11
    <3>4. \A m, n \in Live' : intgenSet'[m] = intgenSet'[n] => m = n
      BY <1>6, <1>11, <2>1
    <3> QED BY <1>1, <3>1, <3>2, <3>3, <3>4 DEF SetOK
  <2>3. ASSUME NEW c \in Block, Old(c)' PROVE Awaited(c)' \/ Settled(c)'
    <3>1. Old(c) /\ (Awaited(c) \/ c = b \/ Settled(c))
      BY <1>1, <1>2, <1>4, <2>3 DEF OldOK
    <3>2. CASE Awaited(c)
      BY <1>1, <1>11, <3>2 DEF Awaited
    <3>3. CASE c = b
      <4>1. Settled(c)
        BY <1>9, <1>11, <3>3 DEF Settled
      <4> QED BY <1>1, <1>4, <1>11, <4>1, SettledKept
    <3>4. CASE Settled(c)
      BY <1>1, <1>4, <1>11, <3>4, SettledKept
    <3> QED BY <3>1, <3>2, <3>3, <3>4
  <2>4. OldOK'
    BY <1>1, <2>3 DEF OldOK
  <2> QED BY <1>4, <2>2, <2>4 DEF CopyInv
<1> QED BY <1>3, <1>10, <1>11

(* The root is cloned first, whatever its generation. *)
LEMMA CloneRootInv ==
  ASSUME CopyInv, CloneRoot
  PROVE  CopyInv'
<1> USE DEF heapVars, scanVars, setVars
<1>1. /\ HeapOK /\ CopiesOK /\ RootOK /\ WordsOK /\ ScanOK /\ SetOK /\ OldOK
      /\ UNCHANGED <<heapVars, scanVars, setVars>>
      /\ pc = "root" /\ pc' = "scan" /\ CloneBlock(root) /\ root' = top + 1
  BY DEF CopyInv, CloneRoot
<1>2. top = 0 /\ root \in Block /\ label[root] # "REF" /\ args = before
      /\ (\A b \in Block : fwd[b] = 0) /\ from[root] = root /\ entry = 0 /\ scan = 0 /\ i = 0
      /\ Addr = Block /\ root' = 1
  <2>1. /\ top = 0 /\ root \in Addr /\ label[root] # "REF" /\ args = before
        /\ (\A b \in Block : fwd[b] = 0) /\ entry = 0 /\ scan = 0 /\ i = 0
    BY <1>1 DEF RootOK, ScanOK
  <2>2. Addr = Block
    BY <2>1 DEF Addr
  <2> QED BY <1>1, <2>1, <2>2 DEF CopiesOK
<1>3. /\ CopiesOK' /\ top' = 1 /\ from'[1] = root
      /\ \A a \in Addr : a \in Addr' /\ from'[a] = from[a]
      /\ \A a \in Addr : a # root => fwd'[a] = fwd[a]
  <2>1. /\ CopiesOK' /\ top' = top + 1 /\ from'[top + 1] = root
        /\ \A a \in Addr : a \in Addr' /\ from'[a] = from[a]
        /\ \A a \in Addr : a # root => fwd'[a] = fwd[a]
    BY <1>1, <1>2, ClonePairs
  <2> QED BY <1>2, <2>1
<1>4. HeapOK'
  BY <1>1, HeapKept
<1>5. Addr' = Block \cup {1} /\ 1 \notin Block /\ 1..top' = {1}
  BY <1>3, Kinds DEF Addr
<1>6. args' = [a \in Addr' |-> before[from'[a]]]
  <2>1. args' = [a \in Block \cup 1..(top + 1) |-> IF a = top + 1 THEN args[root] ELSE args[a]]
    BY DEF CloneRoot
  <2>2. args' = [a \in Addr' |-> IF a = 1 THEN before[root] ELSE before[a]]
    BY <1>2, <1>3, <1>5, <2>1
  <2>3. \A a \in Addr' : (IF a = 1 THEN before[root] ELSE before[a]) = before[from'[a]]
    BY <1>1, <1>2, <1>3, <1>5 DEF CopiesOK
  <2> QED BY <2>2, <2>3
<1>7. RootOK'
  <2>1. \A b \in Block : \A n \in 1..Len(before[b]) : before[b][n] # root
    BY <1>1, <1>2 DEF RootOK
  <2> QED BY <1>1, <1>2, <1>3, <1>5, <2>1 DEF RootOK
<1>8. WordsOK'
  <2>1. \A a \in Addr' : from'[a] \in Block
    BY <1>3 DEF CopiesOK
  <2>2. Word \subseteq Value \cup Addr'
    BY <1>5 DEF Word
  <2>3. \A b \in Block : before[b] \in Seq(Value \cup Addr')
    <3> TAKE b \in Block
    <3>1. before[b] \in Seq(Word)
      BY <1>1 DEF HeapOK
    <3> QED BY <2>2, <3>1
  <2>4. args' \in [Addr' -> Seq(Value \cup Addr')]
    BY <1>6, <2>1, <2>3
  <2>5. \A b \in Block : from'[b] = b /\ b \in Addr'
    BY <1>1, <1>2, <1>3 DEF CopiesOK
  <2>6. \A a \in Addr' : args'[a] = before'[from'[a]]
    BY <1>1, <1>6
  <2>7. \A m : ~Passed(1, m)'
    BY <1>1, <1>2 DEF Passed
  <2>8. \A a \in 1..top' : \A m \in 1..Len(args'[a]) : CopyWord(a, m)'
    BY <1>1, <1>5, <2>6, <2>7 DEF CopyWord
  <2> QED BY <2>4, <2>5, <2>6, <2>8 DEF WordsOK
<1>9. ScanOK'
  BY <1>1, <1>2, <1>3 DEF ScanOK
<1>10. \A b \in Block : Old(b)' => Old(b) /\ b # root
  <2> SUFFICES ASSUME NEW b \in Block, Old(b)' PROVE Old(b) /\ b # root
    OBVIOUS
  <2>1. b # root
    <3>1. fwd'[root] = 1
      BY <1>2, <1>3, <1>5 DEF CopiesOK
    <3> QED BY <3>1 DEF Old
  <2> QED BY <1>1, <1>2, <2>1 DEF Old
<1>11. SetOK'
  <2>1. Live' = Live
    BY <1>1 DEF Live
  <2>2. \A b \in Block : Old(b)' => (b \in childish <=> \E n \in Live : intgenSet[n] = b)
    BY <1>1, <1>10 DEF SetOK
  <2> QED BY <1>1, <2>1, <2>2 DEF SetOK
<1>12. OldOK'
  <2>1. ASSUME NEW b \in Block, Old(b)' PROVE Awaited(b)' \/ Settled(b)'
    <3>1. Old(b) /\ (Awaited(b) \/ Settled(b))
      BY <1>1, <1>10, <2>1 DEF OldOK
    <3>2. CASE Awaited(b)
      BY <1>1, <3>2 DEF Awaited
    <3>3. CASE Settled(b)
      <4>1. IntgenSize(b)' = IntgenSize(b) /\ IntgenSize(b) \in Nat
            /\ IntgenSize(b) <= Len(before[b]) /\ before[b] \in Seq(Word)
        BY <1>1, HeapKept, SizesFit DEF HeapOK
      <4>2. ASSUME NEW n \in 1..IntgenSize(b)
            PROVE  /\ Alive(args[b][n])'
                   /\ Younger(args[b][n], b)' => \E m \in 1..kept' : intgenSet'[m] = b
        <5>1. PICK x : x = args[b][n]
          OBVIOUS
        <5>2. n \in 1..Len(before[b])
          BY <4>1
        <5>3. x = args'[b][n]
          BY <1>1, <1>2, <1>5, <1>6, <1>3, <5>1 DEF CopiesOK
        <5>4. x # root
          BY <1>1, <1>2, <5>1, <5>2 DEF RootOK
        <5>5. Alive(x) /\ (Younger(x, b) => \E m \in 1..kept : intgenSet[m] = b)
          BY <3>3, <5>1 DEF Settled
        <5>6. x \in Value \/ Old(x)
          BY <1>2, <5>5 DEF Alive
        <5>7. Old(x) => Old(x)'
          BY <1>1, <1>2, <1>3, <5>4 DEF Old
        <5>8. Younger(x, b)' <=> Younger(x, b)
          BY <1>1, HeapKept
        <5> QED BY <1>1, <5>3, <5>5, <5>6, <5>7, <5>8 DEF Alive
      <4> QED BY <4>1, <4>2 DEF Settled
    <3> QED BY <3>1, <3>2, <3>3
  <2> QED BY <1>1, <2>1 DEF OldOK
<1> QED BY <1>4, <1>3, <1>7, <1>8, <1>9, <1>11, <1>12 DEF CopyInv

(* A collection starts from any heap that a program can leave behind. *)
LEMMA InitInv ==
  ASSUME Init
  PROVE  CopyInv
<1> USE DEF STORE_GENERATION_NUM, STORE_GEN_OLDEST
<1>1. /\ target \in 1..3 /\ root \in Block /\ label \in [Block -> Label] /\ label[root] = "BLOCK"
      /\ gen \in [Block -> 0..2] /\ args = before /\ pc = "root"
      /\ fwd = [b \in Block |-> 0] /\ from = [b \in Block |-> b]
      /\ top = 0 /\ scan = 0 /\ i = 0 /\ entry = 0 /\ k = 0 /\ young = FALSE /\ kept = 0
  BY DEF Init
<1>2. Addr = Block
  BY <1>1 DEF Addr
<1>3. \A b \in Block : before[b] \in Seq(Word \ {root})
  <2>1. Sizes \cup RootSizes \subseteq Nat
    BY HeapAssumption
  <2>2. Arrays(Sizes \cup RootSizes) \subseteq Seq(Word \ {root})
    BY <2>1 DEF Arrays
  <2>3. before \in [Block -> Arrays(Sizes \cup RootSizes)]
    BY DEF Init
  <2> QED BY <2>2, <2>3
<1>4. before \in [Block -> Seq(Word)]
  <2>1. \E S : before \in [Block -> S]
    BY DEF Init
  <2>2. \A b \in Block : before[b] \in Seq(Word)
    <3> TAKE b \in Block
    <3>1. before[b] \in Seq(Word \ {root}) /\ Word \ {root} \subseteq Word
      BY <1>3
    <3> QED BY <3>1
  <2> QED BY <2>1, <2>2
<1>5. active \in [Block -> Nat]
      /\ \A b \in Block : label[b] = "DYNAMIC" => active[b] <= Len(before[b])
  <2>1. Sizes \cup RootSizes \subseteq Nat
    BY HeapAssumption
  <2>2. UNION {0..n : n \in Sizes \cup RootSizes} \subseteq Nat
    BY <2>1
  <2>3. active \in [Block -> UNION {0..n : n \in Sizes \cup RootSizes}]
        /\ \A b \in Block : active[b] <= IF label[b] = "DYNAMIC" THEN Len(before[b]) ELSE 0
    BY DEF Init
  <2> QED BY <2>2, <2>3
<1>6. HeapOK
  <2>1. \A b \in RefsBefore : Len(before[b]) = 1
    BY DEF Init
  <2>2. \A b \in RefsBefore : \E u \in Word : DerefBefore(b, u)
    BY DEF Init
  <2> QED BY <1>1, <1>4, <1>5, <2>1, <2>2 DEF HeapOK
<1>7. CopiesOK
  BY <1>1, <1>2 DEF CopiesOK
<1>8. RootOK
  <2>1. from[root] = root
    BY <1>1
  <2>2. \A b \in Block : \A n \in 1..Len(before[b]) : before[b][n] # root
    BY <1>3
  <2> QED BY <1>1, <1>2, <2>1, <2>2 DEF RootOK
<1>9. WordsOK
  <2>1. Word = Value \cup Addr
    BY <1>2 DEF Word
  <2>2. args \in [Addr -> Seq(Value \cup Addr)]
    BY <1>1, <1>2, <1>4, <2>1
  <2> QED BY <1>1, <1>2, <2>2 DEF WordsOK
<1>10. ScanOK
  BY <1>1 DEF ScanOK
<1>11. intgenSet \in Seq(Block) /\ Len(intgenSet) \in Nat
       /\ \A n \in 1..Len(intgenSet) : intgenSet[n] \in Block
  <2>1. PICK n \in 0..MaxEntries : intgenSet \in [1..n -> Block]
    BY DEF Init
  <2>2. n \in Nat
    BY <2>1, HeapAssumption
  <2> QED BY <2>1, <2>2
<1>12. Live = 1..Len(intgenSet)
  BY <1>1, <1>11 DEF Live
<1>13. childish = {intgenSet[n] : n \in 1..Len(intgenSet)}
       /\ {b \in Block : Recorded(b)} \subseteq childish
       /\ \A m, n \in 1..Len(intgenSet) : intgenSet[m] = intgenSet[n] => m = n
  BY DEF Init
<1>14. SetOK
  <2>1. entry \in 0..Len(intgenSet) /\ kept \in 0..entry /\ k \in Nat
    <3>1. entry = 0 /\ kept = 0 /\ k = 0
      BY <1>1
    <3> QED BY <1>11, <3>1
  <2>2. childish \in SUBSET Block
    BY <1>11, <1>13
  <2>3. \A b \in Block : b \in childish <=> \E n \in Live : intgenSet[n] = b
    BY <1>12, <1>13
  <2>4. young \in BOOLEAN
    BY <1>1
  <2> QED BY <1>1, <1>11, <1>12, <1>13, <2>1, <2>2, <2>3, <2>4 DEF SetOK
<1>15. OldOK
  <2>1. ASSUME NEW b \in Block, Old(b), ~Awaited(b) PROVE Settled(b)
    <3>1. b \notin childish
      BY <1>1, <1>13, <2>1 DEF Awaited
    <3>2. ~Recorded(b)
      BY <1>13, <3>1
    <3>3. ASSUME NEW n \in 1..IntgenSize(b)
          PROVE  Alive(args[b][n]) /\ ~Younger(args[b][n], b)
      <4>1. ~Younger(before[b][n], b)
        BY <3>2 DEF Recorded
      <4>2. before[b][n] \in Word
        <5>1. IntgenSize(b) \in Nat /\ IntgenSize(b) <= Len(before[b]) /\ before[b] \in Seq(Word)
          BY <1>4, <1>6, SizesFit
        <5> QED BY <5>1
      <4>3. CASE before[b][n] \in Value
        BY <1>1, <4>1, <4>3 DEF Alive
      <4>4. CASE before[b][n] \in Block /\ before[b][n] \notin Value
        <5>1. PICK w \in Block : w = before[b][n]
          BY <4>4
        <5>2. ~(gen[w] < gen[b])
          BY <4>1, <4>4, <5>1 DEF Younger, Gen
        <5>3. gen[w] >= target
          <6>1. gen[w] \in 0..2 /\ gen[b] \in 0..2 /\ target \in 1..3 /\ gen[b] >= target
            BY <1>1, <2>1 DEF Old
          <6> QED BY <5>2, <6>1
        <5>4. Old(w)
          BY <1>1, <5>3 DEF Old
        <5> QED BY <1>1, <4>1, <5>1, <5>4 DEF Alive
      <4> QED BY <4>2, <4>3, <4>4 DEF Word
    <3> QED BY <3>3 DEF Settled
  <2> QED BY <1>1, <2>1 DEF OldOK
<1> QED BY <1>6, <1>7, <1>8, <1>9, <1>10, <1>14, <1>15 DEF CopyInv

(* A state in which nothing has changed *)
LEMMA StutterInv ==
  ASSUME CopyInv, UNCHANGED vars
  PROVE  CopyInv'
<1> USE DEF vars, heapVars, copyVars, scanVars, setVars
<1>1. /\ HeapOK /\ CopiesOK /\ RootOK /\ WordsOK /\ ScanOK /\ SetOK /\ OldOK
      /\ UNCHANGED <<heapVars, root, copyVars>>
  BY DEF CopyInv
<1>2. /\ HeapOK' /\ CopiesOK' /\ Addr' = Addr
      /\ \A x : (Alive(x)' <=> Alive(x)) /\ (Old(x)' <=> Old(x))
      /\ \A x, v : Good(x, v)' <=> Good(x, v)
  BY <1>1, SameCopies
<1>3. \A b : ScanSize(b)' = ScanSize(b) /\ IntgenSize(b)' = IntgenSize(b)
  BY <1>1, HeapKept
<1>4. RootOK' /\ ScanOK'
  BY <1>1, <1>2, <1>3 DEF RootOK, ScanOK
<1>5. WordsOK'
  <2>1. \A a, n : CopyWord(a, n)' <=> CopyWord(a, n)
    BY <1>2, <1>3 DEF CopyWord, Passed
  <2>2. \A a \in Addr : \A n \in 1..Len(args[a]) :
          args[a][n] = before[from[a]][n] \/ Good(args[a][n], before[from[a]][n])'
    BY <1>1, <1>2 DEF WordsOK, Good
  <2> QED BY <1>1, <1>2, <2>1, <2>2 DEF WordsOK
<1>6. SetOK'
  <2>1. Live' = Live
    BY DEF Live
  <2> QED BY <1>1, <1>2, <1>3, <2>1 DEF SetOK
<1>7. OldOK'
  <2>1. \A w, p : Younger(w, p)' <=> Younger(w, p)
    BY <1>1, HeapKept
  <2>2. \A b : (Settled(b)' <=> Settled(b)) /\ (Awaited(b)' <=> Awaited(b))
    BY <1>2, <1>3, <2>1 DEF Settled, Awaited
  <2> QED BY <1>1, <1>2, <1>3, <2>1, <2>2 DEF OldOK
<1> QED BY <1>2, <1>4, <1>5, <1>6, <1>7 DEF CopyInv

(***************************************************************************)
(* The inductive invariant of a collection: copies and moved blocks are    *)
(* paired, each word is as it was or stands for the same survivor, and an  *)
(* old block waits in intgenSet until its words are survivors.             *)
(***************************************************************************)
THEOREM CollectionInvariant == Spec => []CopyInv
<1>1. Init => CopyInv
  BY InitInv
<1>2. CopyInv /\ [Next]_vars => CopyInv'
  <2> SUFFICES ASSUME CopyInv, [Next]_vars PROVE CopyInv'
    OBVIOUS
  <2>1. CASE CloneRoot BY <2>1, CloneRootInv
  <2>2. CASE NextBlock BY <2>2, NextBlockInv
  <2>3. CASE ScanArg BY <2>3, ScanArgInv
  <2>4. CASE EndScan BY <2>4, EndInv
  <2>5. CASE NextEntry BY <2>5, NextEntryInv
  <2>6. CASE EntryArg BY <2>6, EntryArgInv
  <2>7. CASE EntryDone BY <2>7, EntryDoneInv
  <2>8. CASE EndSet BY <2>8, EndInv
  <2>9. CASE Finished BY <2>9, StutterInv DEF Finished
  <2>10. CASE UNCHANGED vars BY <2>10, StutterInv
  <2> QED BY <2>1, <2>2, <2>3, <2>4, <2>5, <2>6, <2>7, <2>8, <2>9, <2>10 DEF Next
<1> QED BY <1>1, <1>2, PTL DEF Spec

-----------------------------------------------------------------------------
(* The types are part of the invariant. *)
THEOREM CollectionTypes == Spec => []TypeOK
<1>1. CopyInv => TypeOK
  <2> SUFFICES ASSUME CopyInv PROVE TypeOK
    OBVIOUS
  <2> QED BY Zenon DEF CopyInv, HeapOK, CopiesOK, RootOK, WordsOK, ScanOK, SetOK, TypeOK
<1> QED BY <1>1, CollectionInvariant, PTL

(***************************************************************************)
(* Store::CloneBlock is applied to no block twice, and to no copy, in any  *)
(* collection of any heap; and it copies only what is collected, and the   *)
(* root.                                                                   *)
(***************************************************************************)
THEOREM NoBlockCopiedTwice == Spec => []CopiedOnce
<1>1. CopyInv => CopiedOnce
  <2> SUFFICES ASSUME CopyInv PROVE CopiedOnce
    OBVIOUS
  <2>1. \A n \in 1..top : fwd[from[n]] = n /\ (gen[from[n]] < target \/ root = n)
    BY DEF CopyInv, CopiesOK
  <2> QED BY <2>1 DEF CopiedOnce
<1> QED BY <1>1, CollectionInvariant, PTL

(* What is alive for the proofs is what survives. *)
LEMMA AliveSurvives ==
  \A w : /\ Alive(w) => w \in Value \/ Survives(w)
         /\ Survives(w) => w \in 1..top \/ Old(w)
BY DEF Alive, Survives, Old

(* When the collection is over, every word in use is alive, *)
LEMMA WordsAlive ==
  ASSUME CopyInv, pc = "done", NEW a \in Addr, Survives(a), NEW n \in 1..Size(a)
  PROVE  /\ Alive(args[a][n])
         /\ args[a][n] = before[from[a]][n] \/ Good(args[a][n], before[from[a]][n])
         /\ args[a][n] \in Value \cup Addr /\ before[from[a]][n] \in Word
         /\ Younger(args[a][n], a) => a \in childish
<1>1. /\ HeapOK /\ CopiesOK /\ RootOK /\ WordsOK /\ ScanOK /\ SetOK /\ OldOK
  BY DEF CopyInv
<1>2. from[a] \in Block /\ before[from[a]] \in Seq(Word) /\ Len(args[a]) = Len(before[from[a]])
      /\ args[a] \in Seq(Value \cup Addr) /\ (a \in Block => from[a] = a)
  BY <1>1 DEF CopiesOK, HeapOK, WordsOK
<1>3. n \in 1..Len(args[a])
  <2>1. /\ IntgenSize(from[a]) \in Nat /\ IntgenSize(from[a]) <= Len(before[from[a]])
        /\ ScanSize(from[a]) \in Nat /\ ScanSize(from[a]) <= Len(before[from[a]])
    BY <1>1, <1>2, SizesFit
  <2>2. Size(a) \in {IntgenSize(from[a]), ScanSize(from[a])} /\ Len(before[from[a]]) \in Nat
    BY <1>2 DEF Size
  <2> QED BY <1>2, <2>1, <2>2
<1>4. args[a][n] \in Value \cup Addr /\ before[from[a]][n] \in Word
  BY <1>2, <1>3
<1>5. args[a][n] = before[from[a]][n] \/ Good(args[a][n], before[from[a]][n])
  BY <1>1, <1>3 DEF WordsOK
<1>6. CASE a \in 1..top
  <2>1. a \notin Block /\ a \notin childish
    BY <1>1, <1>6, Kinds DEF SetOK
  <2>2. Passed(a, n) /\ n <= ScanSize(from[a])
    <3>1. top \in Nat /\ scan = top /\ i = 0 /\ Size(a) = ScanSize(from[a])
          /\ ScanSize(from[a]) \in Nat
      BY <1>1, <1>2, <2>1, SizesFit DEF CopiesOK, ScanOK, Size
    <3> QED BY <1>6, <3>1 DEF Passed
  <2>3. Good(args[a][n], before[from[a]][n])
    BY <1>1, <1>3, <1>6, <2>2 DEF WordsOK, CopyWord
  <2>4. PICK w : w = args[a][n]
    OBVIOUS
  <2>5. w \in Value \/ w \in 1..top \/ Old(w)
    BY <2>3, <2>4 DEF Good, Alive
  <2>6. target \in 1..3 /\ Gen(a) = IF target = 3 THEN 2 ELSE target
    BY <1>1, <2>1, Generations DEF Gen, CopyGen, STORE_GENERATION_NUM, STORE_GEN_OLDEST
  <2>7. ~Younger(w, a)
    <3>1. CASE w \in Value
      BY <3>1 DEF Younger
    <3>2. CASE w \in 1..top
      <4>1. w \notin Block
        BY <3>2, Kinds
      <4>2. Gen(w) = Gen(a)
        BY <2>1, <4>1 DEF Gen
      <4> QED BY <2>6, <4>2 DEF Younger
    <3>3. CASE Old(w)
      <4>1. w \in Block /\ gen[w] >= target /\ gen[w] \in 0..2 /\ Gen(w) = gen[w]
        BY <1>1, <3>3, Generations DEF Old, Gen
      <4> QED BY <2>6, <4>1 DEF Younger
    <3> QED BY <2>5, <3>1, <3>2, <3>3
  <2> QED BY <1>4, <2>3, <2>4, <2>7 DEF Good
<1>7. CASE Old(a)
  <2>1. a \in Block /\ Size(a) = IntgenSize(a)
    BY <1>7 DEF Old, Size
  <2>2. entry = Len(intgenSet)
    BY <1>1 DEF SetOK
  <2>3. ~Awaited(a)
    <3>1. Len(intgenSet) \in Nat
      BY <1>1 DEF SetOK
    <3> QED BY <2>2, <3>1 DEF Awaited
  <2>4. Settled(a)
    BY <1>1, <1>7, <2>1, <2>3 DEF OldOK
  <2>5. Alive(args[a][n]) /\ (Younger(args[a][n], a) => \E m \in 1..kept : intgenSet[m] = a)
    BY <2>1, <2>4 DEF Settled
  <2>6. \A m \in 1..kept : m \in Live
    <3>1. intgenSet \in Seq(Block) /\ entry \in 0..Len(intgenSet) /\ kept \in 0..entry
      BY <1>1 DEF SetOK
    <3>2. \A m \in 1..kept : m \in 1..Len(intgenSet) /\ m <= kept
      BY <3>1
    <3> QED BY <3>2 DEF Live
  <2>7. Younger(args[a][n], a) => a \in childish
    BY <1>1, <1>7, <2>1, <2>5, <2>6 DEF SetOK
  <2> QED BY <1>4, <1>5, <2>5, <2>7
<1> QED BY <1>6, <1>7, AliveSurvives

(***************************************************************************)
(* For any heap, roots and set of old blocks with younger words: after the *)
(* second scan no word in use leads into a heap that is released.          *)
(***************************************************************************)
THEOREM NoWordLost == Spec => []NothingLost
<1>1. CopyInv => NothingLost
  <2> SUFFICES ASSUME CopyInv, pc = "done" PROVE NothingLost
    BY DEF NothingLost
  <2>1. Survives(root)
    BY DEF CopyInv, RootOK, CopiesOK, Survives
  <2>2. ASSUME NEW a \in Addr, Survives(a), NEW n \in 1..Size(a)
        PROVE  args[a][n] \in Value \/ Survives(args[a][n])
    <3>1. Alive(args[a][n])
      BY <2>2, WordsAlive
    <3> QED BY <3>1, AliveSurvives
  <2> QED BY <2>1, <2>2 DEF NothingLost
<1> QED BY <1>1, CollectionInvariant, PTL

(***************************************************************************)
(* For any heap: every word of a survivor leads where it led before, to    *)
(* the same value, or to the block, or the one copy of it.                 *)
(***************************************************************************)
THEOREM GraphUnchanged == Spec => []GraphKept
<1>1. CopyInv => GraphKept
  <2> SUFFICES ASSUME CopyInv, pc = "done",
                      NEW a \in Addr, Survives(a), NEW n \in 1..Size(a)
               PROVE  \E u \in Value \cup Addr :
                        /\ Deref(args[a][n], u)
                        /\ DerefBefore(before[from[a]][n], IF u \in Value THEN u ELSE from[u])
    BY DEF GraphKept
  <2>1. HeapOK /\ CopiesOK /\ WordsOK
    BY DEF CopyInv
  <2>2. PICK x : x = args[a][n]
    OBVIOUS
  <2>3. PICK v : v = before[from[a]][n]
    OBVIOUS
  <2>4. (x = v \/ Good(x, v)) /\ x \in Value \cup Addr /\ v \in Word
    BY <2>2, <2>3, WordsAlive
  <2>5. PICK u \in Value \cup Addr : Deref(x, u)
    BY <2>1, <2>4, DerefEnds
  <2>6. DerefBefore(Orig(x), Orig(u))
    BY <2>1, <2>4, <2>5, DerefOrig
  <2>7. CASE x = v
    <3>1. Orig(x) = v
      BY <2>1, <2>4, <2>7 DEF Orig, Word, CopiesOK
    <3> QED BY <2>2, <2>3, <2>5, <2>6, <3>1 DEF Orig
  <2>8. CASE Good(x, v)
    <3>1. x \notin Refs
      BY <2>1, <2>8, RefsSame DEF Good
    <3>2. u = x
      BY <2>4, <2>5, <3>1, EndOnlyHere DEF Deref
    <3> QED BY <2>2, <2>3, <2>5, <2>8, <3>2 DEF Good, Orig
  <2> QED BY <2>4, <2>7, <2>8
<1> QED BY <1>1, CollectionInvariant, PTL

(***************************************************************************)
(* For any heap: the set that HandleInterGenerationalPointers builds in    *)
(* the array that it reads holds every survivor with a younger word, once, *)
(* and the childish flags agree with it, so that the next collection       *)
(* starts as this one did.                                                 *)
(***************************************************************************)
THEOREM BarrierReady == Spec => []BarrierRestored
<1>1. CopyInv => BarrierRestored
  <2> SUFFICES ASSUME CopyInv, pc = "done" PROVE BarrierRestored
    BY DEF BarrierRestored
  <2>1. SetOK
    BY DEF CopyInv
  <2>2. intgenSet \in Seq(Block) /\ kept \in 0..entry /\ entry = Len(intgenSet)
        /\ childish \in SUBSET Block /\ Len(intgenSet) \in Nat
    BY <2>1 DEF SetOK
  <2>3. Live = 1..kept
    <3>1. \A n \in 1..Len(intgenSet) : n \in Live <=> n <= kept
      BY <2>2 DEF Live
    <3>2. Live \subseteq 1..Len(intgenSet)
      BY DEF Live
    <3>3. \A n : n \in 1..kept <=> n \in 1..Len(intgenSet) /\ n <= kept
      <4>1. kept \in Nat /\ kept <= Len(intgenSet)
        BY <2>2
      <4> QED BY <2>2, <4>1
    <3> QED BY <3>1, <3>2, <3>3
  <2>4. \A m, n \in 1..kept : intgenSet[m] = intgenSet[n] => m = n
    BY <2>1, <2>3 DEF SetOK
  <2>5. ASSUME NEW a \in Addr, Survives(a)
        PROVE  a \in childish <=> \E n \in 1..kept : intgenSet[n] = a
    <3>1. CASE a \in 1..top
      <4>1. a \notin Block
        BY <3>1, Kinds
      <4>2. \A n \in 1..kept : intgenSet[n] \in Block
        BY <2>2
      <4> QED BY <2>2, <4>1, <4>2
    <3>2. CASE Old(a)
      BY <2>1, <2>3, <3>2 DEF SetOK, Old
    <3> QED BY <2>5, <3>1, <3>2, AliveSurvives
  <2>6. ASSUME NEW a \in Addr, Survives(a), NEW n \in 1..Size(a), Younger(args[a][n], a)
        PROVE  a \in childish
    BY <2>6, WordsAlive
  <2> QED BY <2>4, <2>5, <2>6 DEF BarrierRestored
<1> QED BY <1>1, CollectionInvariant, PTL

=============================================================================
