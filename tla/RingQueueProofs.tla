--------------------------- MODULE RingQueueProofs ---------------------------
(***************************************************************************)
(* Proofs about RingQueue, for any elements, initial size and length.      *)
(***************************************************************************)
EXTENDS RingQueue, SequenceTheorems, LeastNumber

Word == Elem \cup {Zero}

-----------------------------------------------------------------------------
(* Arithmetic of the indices *)

(* Integer division by two, in Enlarge and Blank *)
LEMMA Half == \A n \in Nat : n \div 2 \in Nat /\ 2 * (n \div 2) <= n /\ n <= 2 * (n \div 2) + 1
  OBVIOUS

(* The index after r, as ShortenAtBeginning computes it *)
LEMMA NextIndex ==
  \A s \in Nat \ {0} : \A r \in 0..(s - 1) : (r + 1) % s = IF r + 1 = s THEN 0 ELSE r + 1
  OBVIOUS

(***************************************************************************)
(* The operators of the queue for an array a of n slots and indices r and  *)
(* v, so that they can be taken before and after a step.                   *)
(***************************************************************************)
CountOf(n, r, v) == IF v >= r THEN v - r ELSE v + n - r
IndexOf(n, r, i) == IF r + i >= n THEN r + i - n ELSE r + i
ItemsOf(a, n, r, v) == [i \in 1..CountOf(n, r, v) |-> a[IndexOf(n, r, i - 1)]]

(* Before a step: GetNumberOfElements and the elements the queue stands for. *)
LEMMA ItemsBefore == /\ GetNumberOfElements = CountOf(size, read, write)
                     /\ Items = ItemsOf(array, size, read, write)
  BY DEF GetNumberOfElements, CountOf, Items, ItemsOf, At, IndexOf

(* After a step: the elements the queue stands for. *)
LEMMA ItemsAfter == Items' = ItemsOf(array', size', read', write')
  BY DEF GetNumberOfElements, CountOf, Items, ItemsOf, At, IndexOf

(* The indices delimit fewer elements than there are slots. *)
LEMMA Count ==
  ASSUME NEW n \in Nat, NEW r \in 0..(n - 1), NEW v \in 0..(n - 1)
  PROVE  /\ CountOf(n, r, v) \in 0..(n - 1)
         /\ CountOf(n, r, v) = 0 <=> v = r
         /\ \A i \in 1..CountOf(n, r, v) : IndexOf(n, r, i - 1) \in 0..(n - 1)
  BY DEF CountOf, IndexOf

(* A sequence is a function of the positions in it. *)
LEMMA SeqFunction ==
  ASSUME NEW S, NEW s \in Seq(S), NEW n, Len(s) = n
  PROVE  s = [i \in 1..n |-> s[i]]
<1>1. s \in [1..n -> S]
  BY LenProperties
<1> QED BY <1>1

(* The array represents a sequence of words. *)
LEMMA ItemsSeq ==
  TypeOK => /\ Items \in Seq(Word)
            /\ Len(Items) = CountOf(size, read, write)
            /\ \A i \in 1..CountOf(size, read, write) : Items[i] = array[IndexOf(size, read, i - 1)]
<1> SUFFICES ASSUME TypeOK
             PROVE  /\ Items \in Seq(Word)
                    /\ Len(Items) = CountOf(size, read, write)
                    /\ \A i \in 1..CountOf(size, read, write) :
                         Items[i] = array[IndexOf(size, read, i - 1)]
  OBVIOUS
<1> DEFINE n == CountOf(size, read, write)
<1>1. n \in Nat /\ \A i \in 1..n : array[IndexOf(size, read, i - 1)] \in Word
  <2>1. /\ size \in Nat /\ read \in 0..(size - 1) /\ write \in 0..(size - 1)
        /\ array \in [0..(size - 1) -> Word]
    BY DEF TypeOK, Slots, Word
  <2>2. n \in 0..(size - 1) /\ \A i \in 1..n : IndexOf(size, read, i - 1) \in 0..(size - 1)
    BY <2>1, Count
  <2> QED BY <2>1, <2>2
<1>2. Items = [i \in 1..n |-> array[IndexOf(size, read, i - 1)]]
  BY ItemsBefore DEF ItemsOf
<1> HIDE DEF n
<1> QED BY <1>1, <1>2, IsASeq DEF n

-----------------------------------------------------------------------------
(* Type correctness *)

(* A new queue is empty. *)
LEMMA InitType == Init => TypeOK
<1> SUFFICES ASSUME Init PROVE TypeOK
  OBVIOUS
<1>1. size \in Nat /\ size >= 2 /\ read \in Slots /\ write \in Slots
  BY QueueAssumption DEF Init, Slots
<1>2. array \in [Slots -> Elem \cup {Zero}]
  BY DEF Init, Slots
<1>3. blanked \in BOOLEAN
  BY DEF Init
<1> QED BY <1>1, <1>2, <1>3 DEF TypeOK

(* The array and the indices after a step, in terms of the state before it *)
LEMMA TypeFromParts ==
  ASSUME NEW n \in Nat, n >= 2, NEW r \in 0..(n - 1), NEW v \in 0..(n - 1),
         NEW a \in [0..(n - 1) -> Word],
         size' = n, read' = r, write' = v, array' = a, blanked' \in BOOLEAN
  PROVE  TypeOK'
  BY DEF TypeOK, Slots, Word

(* Enqueue writes inside the array, and Enlarge makes one more slot at least. *)
LEMMA EnqueueType ==
  ASSUME TypeOK, NEW w \in Elem, Enqueue(w)
  PROVE  TypeOK'
<1> DEFINE a == [array EXCEPT ![write] = w]
<1>1. a \in [0..(size - 1) -> Word]
  BY DEF TypeOK, Word, Slots
<1> HIDE DEF a
<1>2. CASE (IF write + 1 = size THEN 0 ELSE write + 1) = read
  <2> DEFINE n == size + size \div 2
             b == [i \in 0..(n - 1) |-> IF i < size - read THEN a[read + i]
                                       ELSE IF i < size THEN a[i - (size - read)] ELSE Zero]
  <2>1. size' = n /\ read' = 0 /\ write' = size /\ array' = b /\ blanked' = FALSE
    BY <1>2 DEF Enqueue, Enlarge, a
  <2>2. n \in Nat /\ n > size /\ n >= 2
    BY Half DEF TypeOK
  <2> HIDE DEF n
  <2>3. 0 \in 0..(n - 1) /\ size \in 0..(n - 1)
    BY <2>2 DEF TypeOK
  <2>4. \A i \in 0..(n - 1) : b[i] \in Word
    BY <1>1, <2>2 DEF Slots, TypeOK, Word
  <2>5. b \in [0..(n - 1) -> Word]
    BY <2>4
  <2> HIDE DEF b
  <2> QED BY <2>1, <2>2, <2>3, <2>5, TypeFromParts
<1>3. CASE (IF write + 1 = size THEN 0 ELSE write + 1) # read
  <2> DEFINE v == IF write + 1 = size THEN 0 ELSE write + 1
  <2>1. array' = a /\ blanked' = FALSE /\ size' = size /\ read' = read /\ write' = v
    BY <1>3 DEF Enqueue, a
  <2>2. size \in Nat /\ size >= 2 /\ read \in 0..(size - 1) /\ v \in 0..(size - 1)
    BY DEF TypeOK, Slots
  <2> QED BY <1>1, <2>1, <2>2, TypeFromParts
<1> QED BY <1>2, <1>3

(* Dequeue moves one index, with wrap-around. *)
LEMMA DequeueType == ASSUME TypeOK, Dequeue PROVE TypeOK'
<1> DEFINE r == IF read + 1 = size THEN 0 ELSE read + 1
<1>1. /\ size \in Nat /\ size >= 2 /\ r \in 0..(size - 1) /\ write \in 0..(size - 1)
      /\ array \in [0..(size - 1) -> Word]
  BY DEF TypeOK, Slots, Word
<1>2. read' = r /\ size' = size /\ write' = write /\ array' = array /\ blanked' = FALSE
  BY DEF Dequeue
<1> QED BY <1>1, <1>2, TypeFromParts

(* What memmove leaves in the array, when its source is inside *)
LEMMA MemMoveType ==
  ASSUME NEW n \in Nat, NEW to \in Nat, NEW from \in Nat, NEW len \in Nat,
         NEW a \in [0..(n - 1) -> Word], from + len <= n
  PROVE  /\ MemMove(a, to, from, len) \in [0..(n - 1) -> Word]
         /\ \A i \in 0..(n - 1) :
              MemMove(a, to, from, len)[i] = IF i \in to..(to + len - 1) THEN a[i + from - to] ELSE a[i]
  BY DEF MemMove

(* ShortenAtBeginning moves words inside the array. *)
LEMMA BeginningType ==
  ASSUME TypeOK, NEW i \in read..(size - 1), ShortenAtBeginning(i)
  PROVE  /\ TypeOK'
         /\ size' = size /\ write' = write
         /\ read' = IF read + 1 = size THEN 0 ELSE read + 1
         /\ \A j \in Slots : array'[j] = IF j \in (read + 1)..i THEN array[j - 1] ELSE array[j]
<1>1. /\ size \in Nat /\ size >= 2 /\ read \in 0..(size - 1) /\ write \in 0..(size - 1)
      /\ array \in [0..(size - 1) -> Word]
  BY DEF TypeOK, Slots, Word
<1> DEFINE len == i - read
           r == IF read + 1 = size THEN 0 ELSE read + 1
<1>2. len \in Nat /\ read + 1 \in Nat /\ read \in Nat /\ read + len <= size /\ size \in Nat \ {0}
  BY <1>1
<1>3. /\ array' = MemMove(array, read + 1, read, len) /\ read' = (read + 1) % size
      /\ size' = size /\ write' = write /\ blanked' = FALSE
  BY DEF ShortenAtBeginning
<1>4. read' = r
  BY <1>1, <1>2, <1>3, NextIndex
<1>5. /\ MemMove(array, read + 1, read, len) \in [0..(size - 1) -> Word]
      /\ \A j \in 0..(size - 1) :
           MemMove(array, read + 1, read, len)[j]
             = IF j \in (read + 1)..(read + 1 + len - 1) THEN array[j + read - (read + 1)] ELSE array[j]
  <2> DEFINE to == read + 1
  <2>1. to \in Nat /\ read \in Nat /\ len \in Nat /\ size \in Nat /\ read + len <= size
    BY <1>2
  <2>2. array \in [0..(size - 1) -> Word]
    BY <1>1
  <2> HIDE DEF len, to
  <2>3. /\ MemMove(array, to, read, len) \in [0..(size - 1) -> Word]
        /\ \A j \in 0..(size - 1) :
             MemMove(array, to, read, len)[j]
               = IF j \in to..(to + len - 1) THEN array[j + read - to] ELSE array[j]
    BY <2>1, <2>2, MemMoveType, SMTT(30)
  <2> QED BY <2>3 DEF to
<1>6. \A j \in 0..(size - 1) : array'[j] = IF j \in (read + 1)..i THEN array[j - 1] ELSE array[j]
  <2>1. (read + 1) + len - 1 = i /\ \A j \in 0..(size - 1) : j + read - (read + 1) = j - 1
    BY <1>1
  <2> HIDE DEF len
  <2> QED BY <1>3, <1>5, <2>1
<1>7. r \in 0..(size - 1)
  BY <1>1
<1>8. TypeOK'
  <2> HIDE DEF r, len
  <2> QED BY <1>1, <1>3, <1>4, <1>5, <1>7, TypeFromParts
<1> QED BY <1>3, <1>4, <1>6, <1>8 DEF Slots

(***************************************************************************)
(* ShortenAtEnd, as Remove calls it (n = write - i) and as RemoveNth does  *)
(* (n = write - i - 1): neither reads a word past the array.               *)
(***************************************************************************)
LEMMA EndType ==
  ASSUME TypeOK, NEW i \in 0..(write - 1), NEW n \in (write - i - 1)..(write - i), ShortenAtEnd(i, n)
  PROVE  /\ TypeOK'
         /\ size' = size /\ read' = read /\ write' = write - 1
         /\ \A j \in Slots :
              /\ j < i \/ j >= write => array'[j] = array[j]
              /\ j \in i..(write - 2) => array'[j] = array[j + 1]
<1>1. /\ size \in Nat /\ size >= 2 /\ read \in 0..(size - 1) /\ write \in 0..(size - 1)
      /\ array \in [0..(size - 1) -> Word]
  BY DEF TypeOK, Slots, Word
<1>2. n \in Nat /\ i \in Nat /\ i + 1 \in Nat /\ i + 1 + n <= size
  BY <1>1
<1>3. /\ array' = MemMove(array, i, i + 1, n) /\ write' = write - 1
      /\ size' = size /\ read' = read /\ blanked' = FALSE
  BY DEF ShortenAtEnd
<1>4. /\ MemMove(array, i, i + 1, n) \in [0..(size - 1) -> Word]
      /\ \A j \in 0..(size - 1) :
           MemMove(array, i, i + 1, n)[j]
             = IF j \in i..(i + n - 1) THEN array[j + (i + 1) - i] ELSE array[j]
  BY <1>1, <1>2, MemMoveType
<1>5. \A j \in 0..(size - 1) : /\ j < i \/ j >= write => array'[j] = array[j]
                               /\ j \in i..(write - 2) => array'[j] = array[j + 1]
  <2>1. \A j \in 0..(size - 1) : j + (i + 1) - i = j + 1
    BY <1>2
  <2>2. \A j \in 0..(size - 1) : /\ j < i \/ j >= write => j \notin i..(i + n - 1)
                                 /\ j \in i..(write - 2) => j \in i..(i + n - 1)
    BY <1>1, <1>2
  <2> QED BY <1>3, <1>4, <2>1, <2>2
<1>6. write - 1 \in 0..(size - 1)
  BY <1>1
<1>7. TypeOK'
  BY <1>1, <1>3, <1>4, <1>6, TypeFromParts
<1> QED BY <1>3, <1>5, <1>7 DEF Slots
-----------------------------------------------------------------------------
(* What the operations do to the sequence *)

(* Dequeue takes the head. *)
LEMMA DequeueItems == ASSUME TypeOK, Dequeue PROVE Fifo!Dequeue
<1> DEFINE n == CountOf(size, read, write)
           r == IF read + 1 = size THEN 0 ELSE read + 1
<1>1. size \in Nat /\ size >= 2 /\ read \in 0..(size - 1) /\ write \in 0..(size - 1) /\ write # read
  BY DEF TypeOK, Slots, Dequeue, IsEmpty
<1>2. Items \in Seq(Word) /\ Len(Items) = n /\ \A i \in 1..n : Items[i] = array[IndexOf(size, read, i - 1)]
  BY ItemsSeq
<1>3. n \in Nat /\ n > 0 /\ CountOf(size, r, write) = n - 1
  BY <1>1 DEF CountOf
<1>4. Items' = ItemsOf(array, size, r, write)
  BY ItemsAfter DEF Dequeue
<1>5. \A i \in 1..(n - 1) : IndexOf(size, r, i - 1) = IndexOf(size, read, (i + 1) - 1)
  BY <1>1 DEF IndexOf, CountOf
<1> HIDE DEF n, r
<1>6. Items # <<>>
  BY <1>2, <1>3
<1>7. Tail(Items) = [i \in 1..(n - 1) |-> Items[i + 1]]
  <2>1. Len(Tail(Items)) = n - 1 /\ Tail(Items) \in Seq(Word)
        /\ \A i \in 1..Len(Tail(Items)) : Tail(Items)[i] = Items[i + 1]
    BY <1>2, <1>6, HeadTailProperties
  <2>2. Tail(Items) = [i \in 1..(n - 1) |-> Tail(Items)[i]]
    BY <2>1, SeqFunction
  <2> QED BY <2>1, <2>2
<1>8. \A i \in 1..(n - 1) : Items[i + 1] = array[IndexOf(size, r, i - 1)]
  BY <1>2, <1>3, <1>5
<1>9. Items' = Tail(Items)
  BY <1>3, <1>4, <1>7, <1>8 DEF ItemsOf
<1> QED BY <1>6, <1>9 DEF Fifo!Dequeue

(* Enqueue puts its argument at the end, also when the array is unwrapped. *)
LEMMA EnqueueItems == ASSUME TypeOK, NEW w \in Elem, Enqueue(w) PROVE Fifo!Enqueue(w)
<1> DEFINE n == CountOf(size, read, write)
           a == [array EXCEPT ![write] = w]
<1>1. /\ size \in Nat /\ size >= 2 /\ read \in 0..(size - 1) /\ write \in 0..(size - 1)
      /\ array \in [0..(size - 1) -> Word]
  BY DEF TypeOK, Slots, Word
<1>2. Items \in Seq(Word) /\ Len(Items) = n /\ \A i \in 1..n : Items[i] = array[IndexOf(size, read, i - 1)]
  BY ItemsSeq
<1>3. /\ n \in 0..(size - 1)
      /\ \A i \in 1..n : IndexOf(size, read, i - 1) \in 0..(size - 1) /\ IndexOf(size, read, i - 1) # write
      /\ IndexOf(size, read, n) = write
  BY <1>1 DEF CountOf, IndexOf
<1>4. /\ a[write] = w
      /\ \A i \in 1..n : a[IndexOf(size, read, i - 1)] = Items[i]
  BY <1>1, <1>2, <1>3
<1>5. Append(Items, w) = [i \in 1..(n + 1) |-> IF i <= n THEN Items[i] ELSE w]
  <2> HIDE DEF n, a
  <2>1. /\ w \in Word
        /\ Append(Items, w) \in Seq(Word)
        /\ Len(Append(Items, w)) = n + 1
        /\ \A i \in 1..n : Append(Items, w)[i] = Items[i]
        /\ Append(Items, w)[n + 1] = w
    BY <1>2, AppendProperties DEF Word
  <2>2. Append(Items, w) = [i \in 1..(n + 1) |-> Append(Items, w)[i]]
    BY <2>1, SeqFunction
  <2>3. \A i \in 1..(n + 1) : Append(Items, w)[i] = IF i <= n THEN Items[i] ELSE w
    BY <2>1, <1>3, <1>1
  <2> QED BY <2>2, <2>3
<1>6. CASE (IF write + 1 = size THEN 0 ELSE write + 1) = read
  <2> DEFINE m == size + size \div 2
             b == [i \in 0..(m - 1) |-> IF i < size - read THEN a[read + i]
                                       ELSE IF i < size THEN a[i - (size - read)] ELSE Zero]
  <2>1. Items' = ItemsOf(b, m, 0, size)
    BY <1>6, ItemsAfter DEF Enqueue, Enlarge
  <2>2. m \in Nat /\ m > size
    BY <1>1, Half
  <2>3. n = size - 1
    BY <1>1, <1>6 DEF CountOf
  <2> HIDE DEF m, a, n
  <2>4. CountOf(m, 0, size) = n + 1 /\ \A i \in 1..size : IndexOf(m, 0, i - 1) = i - 1
    BY <1>1, <2>2, <2>3 DEF CountOf, IndexOf
  <2>5. \A i \in 1..size : i - 1 \in 0..(m - 1) /\ b[i - 1] = a[IndexOf(size, read, i - 1)]
    BY <1>1, <2>2 DEF IndexOf
  <2> HIDE DEF b
  <2>6. \A i \in 1..(n + 1) : b[IndexOf(m, 0, i - 1)] = IF i <= n THEN Items[i] ELSE w
    <3>1. \A i \in 1..(n + 1) : i \in 1..size /\ (i <= n => i \in 1..n) /\ (~(i <= n) => i - 1 = n)
      BY <1>1, <2>3
    <3> QED BY <3>1, <1>3, <1>4, <2>4, <2>5
  <2>7. Items' = Append(Items, w)
    BY <1>5, <2>1, <2>4, <2>6 DEF ItemsOf
  <2> QED BY <2>7 DEF Fifo!Enqueue
<1>7. CASE (IF write + 1 = size THEN 0 ELSE write + 1) # read
  <2> DEFINE v == IF write + 1 = size THEN 0 ELSE write + 1
  <2>1. Items' = ItemsOf(a, size, read, v)
    BY <1>7, ItemsAfter DEF Enqueue
  <2>2. CountOf(size, read, v) = n + 1
    BY <1>1, <1>7 DEF CountOf
  <2> HIDE DEF a, n, v
  <2>3. \A i \in 1..(n + 1) : a[IndexOf(size, read, i - 1)] = IF i <= n THEN Items[i] ELSE w
    <3>1. \A i \in 1..(n + 1) : (i <= n => i \in 1..n) /\ (~(i <= n) => i - 1 = n)
      BY <1>3, <1>1
    <3> QED BY <3>1, <1>3, <1>4
  <2>4. Items' = Append(Items, w)
    BY <1>5, <2>1, <2>2, <2>3 DEF ItemsOf
  <2> QED BY <2>4 DEF Fifo!Enqueue
<1> QED BY <1>6, <1>7
(* ShortenAtBeginning drops the element in slot i and closes the gap. *)
LEMMA BeginningItems ==
  ASSUME TypeOK, NEW i \in read..(size - 1), i - read < CountOf(size, read, write),
         ShortenAtBeginning(i)
  PROVE  Items' = Fifo!Drop(i - read + 1)
<1> DEFINE n == CountOf(size, read, write)
           r == IF read + 1 = size THEN 0 ELSE read + 1
           k == i - read + 1
<1>1. size \in Nat /\ size >= 2 /\ read \in 0..(size - 1) /\ write \in 0..(size - 1)
  BY DEF TypeOK, Slots
<1>2. Items \in Seq(Word) /\ Len(Items) = n /\ \A j \in 1..n : Items[j] = array[IndexOf(size, read, j - 1)]
  BY ItemsSeq
<1>3. /\ size' = size /\ write' = write /\ read' = r
      /\ \A j \in 0..(size - 1) : array'[j] = IF j \in (read + 1)..i THEN array[j - 1] ELSE array[j]
  BY BeginningType DEF Slots
<1>4. Items' = ItemsOf(array', size, r, write)
  BY <1>3, ItemsAfter
<1>5. CountOf(size, r, write) = n - 1 /\ n \in 1..(size - 1) /\ k \in 1..n
  BY <1>1 DEF CountOf
<1>6. ASSUME NEW j \in 1..(n - 1)
      PROVE  array'[IndexOf(size, r, j - 1)] = IF j < k THEN Items[j] ELSE Items[j + 1]
  <2>1. j \in 1..n /\ j + 1 \in 1..n
    BY <1>5
  <2>2. IndexOf(size, r, j - 1) \in 0..(size - 1)
    BY <1>1, <1>5 DEF IndexOf
  <2>3. CASE j < k
    <3>1. IndexOf(size, r, j - 1) = read + j /\ read + j \in (read + 1)..i
          /\ IndexOf(size, read, j - 1) = (read + j) - 1
      BY <1>1, <2>3 DEF IndexOf
    <3> HIDE DEF n, r
    <3> QED BY <1>2, <1>3, <2>1, <2>2, <2>3, <3>1
  <2>4. CASE ~(j < k)
    <3>1. IndexOf(size, r, j - 1) \notin (read + 1)..i
          /\ IndexOf(size, r, j - 1) = IndexOf(size, read, (j + 1) - 1)
      BY <1>1, <1>5, <2>4 DEF IndexOf, CountOf
    <3> HIDE DEF n, r
    <3> QED BY <1>2, <1>3, <2>1, <2>2, <2>4, <3>1
  <2> QED BY <2>3, <2>4
<1> HIDE DEF n, r, k
<1>7. Items' = [j \in 1..(n - 1) |-> IF j < k THEN Items[j] ELSE Items[j + 1]]
  BY <1>4, <1>5, <1>6 DEF ItemsOf
<1> QED BY <1>2, <1>7 DEF Fifo!Drop, k

(* ShortenAtEnd drops the element in slot i and closes the gap from above. *)
LEMMA EndItems ==
  ASSUME TypeOK, NEW i \in 0..(write - 1), read < write => read <= i, write # read,
         NEW n \in (write - i - 1)..(write - i), ShortenAtEnd(i, n)
  PROVE  Items' = Fifo!Drop(IF read < write THEN i - read + 1 ELSE i + size - read + 1)
<1> DEFINE c == CountOf(size, read, write)
           k == IF read < write THEN i - read + 1 ELSE i + size - read + 1
<1>1. size \in Nat /\ size >= 2 /\ read \in 0..(size - 1) /\ write \in 0..(size - 1)
  BY DEF TypeOK, Slots
<1>2. Items \in Seq(Word) /\ Len(Items) = c /\ \A j \in 1..c : Items[j] = array[IndexOf(size, read, j - 1)]
  BY ItemsSeq
<1>3. /\ size' = size /\ read' = read /\ write' = write - 1
      /\ \A j \in 0..(size - 1) : /\ j < i \/ j >= write => array'[j] = array[j]
                                  /\ j \in i..(write - 2) => array'[j] = array[j + 1]
  BY EndType DEF Slots
<1>4. Items' = ItemsOf(array', size, read, write - 1)
  BY <1>3, ItemsAfter
<1>5. CountOf(size, read, write - 1) = c - 1 /\ c \in 1..(size - 1) /\ k \in 1..c
  BY <1>1 DEF CountOf
<1>6. ASSUME NEW j \in 1..(c - 1)
      PROVE  array'[IndexOf(size, read, j - 1)] = IF j < k THEN Items[j] ELSE Items[j + 1]
  <2> DEFINE x == IndexOf(size, read, j - 1)
  <2>1. j \in 1..c /\ j + 1 \in 1..c /\ x \in 0..(size - 1)
    BY <1>1, <1>5 DEF IndexOf
  <2>2. CASE j < k
    <3>1. x < i \/ x >= write
      BY <1>1, <1>5, <2>2 DEF IndexOf, CountOf
    <3> HIDE DEF c, k
    <3> QED BY <1>2, <1>3, <2>1, <2>2, <3>1
  <2>3. CASE ~(j < k)
    <3>1. x \in i..(write - 2) /\ IndexOf(size, read, (j + 1) - 1) = x + 1
      BY <1>1, <1>5, <2>3 DEF IndexOf, CountOf
    <3> HIDE DEF c, k
    <3> QED BY <1>2, <1>3, <2>1, <2>3, <3>1
  <2> QED BY <2>2, <2>3
<1> HIDE DEF c, k
<1>7. Items' = [j \in 1..(c - 1) |-> IF j < k THEN Items[j] ELSE Items[j + 1]]
  BY <1>4, <1>5, <1>6 DEF ItemsOf
<1> QED BY <1>2, <1>7 DEF Fifo!Drop, k

(* RemoveNthElement takes out the element of that number, counted from 0. *)
LEMMA RemoveNthItems ==
  ASSUME TypeOK, NEW n \in Nat, RemoveNthElement(n)
  PROVE  TypeOK' /\ n + 1 \in 1..Len(Items) /\ Fifo!RemoveNth(n + 1)
<1>1. size \in Nat /\ size >= 2 /\ read \in 0..(size - 1) /\ write \in 0..(size - 1)
  BY DEF TypeOK, Slots
<1>2. Len(Items) = CountOf(size, read, write) /\ n < CountOf(size, read, write)
  BY ItemsSeq, ItemsBefore DEF RemoveNthElement
<1>3. CountOf(size, read, write) \in 0..(size - 1)
  BY <1>1 DEF CountOf
<1>4. n + 1 \in 1..Len(Items)
  BY <1>2, <1>3
<1>5. CASE read + n >= size
  <2> DEFINE i == read + n - size
  <2>1. ShortenAtEnd(i, write - i - 1)
    BY <1>5 DEF RemoveNthElement
  <2>2. i \in 0..(write - 1) /\ write < read /\ write - i - 1 \in (write - i - 1)..(write - i)
    BY <1>1, <1>2, <1>5 DEF CountOf
  <2>3. i + size - read + 1 = n + 1
    BY <1>1
  <2> HIDE DEF i
  <2>4. TypeOK'
    BY <2>1, <2>2, EndType
  <2>5. Items' = Fifo!Drop(IF read < write THEN i - read + 1 ELSE i + size - read + 1)
    <3>1. (read < write => read <= i) /\ write # read /\ ~(read < write)
      BY <1>1, <2>2
    <3> QED BY <2>1, <2>2, <3>1, EndItems
  <2>6. ~(read < write)
    BY <1>1, <2>2
  <2> QED BY <1>4, <2>3, <2>4, <2>5, <2>6 DEF Fifo!RemoveNth
<1>6. CASE ~(read + n >= size)
  <2> DEFINE i == read + n
  <2>1. ShortenAtBeginning(i)
    BY <1>6 DEF RemoveNthElement
  <2>2. i \in read..(size - 1) /\ i - read < CountOf(size, read, write) /\ i - read + 1 = n + 1
    BY <1>1, <1>2, <1>6
  <2> HIDE DEF i
  <2>3. TypeOK' /\ Items' = Fifo!Drop(n + 1)
    BY <2>1, <2>2, BeginningType, BeginningItems
  <2> QED BY <1>4, <2>3 DEF Fifo!RemoveNth
<1> QED BY <1>4, <1>5, <1>6
(* The scan of Remove stops at the first slot with the word. *)
LEMMA FirstOf ==
  ASSUME NEW S \in SUBSET Nat, S # {}
  PROVE  First(S) \in S /\ \A j \in S : First(S) <= j
<1>1. \E i \in S : \A j \in S : i <= j
  BY LeastNat
<1> QED BY <1>1 DEF First

(***************************************************************************)
(* Remove takes out the occurrence that was queued first: when the queue   *)
(* wraps around, the upper part of the array is the older one.             *)
(***************************************************************************)
LEMMA RemoveItems ==
  ASSUME TypeOK, NEW w \in Elem, Remove(w)
  PROVE  TypeOK' /\ Fifo!Remove(w)
<1> DEFINE n == CountOf(size, read, write)
           upper == {i \in read..(size - 1) : read > write /\ array[i] = w}
           lower == {i \in (IF read > write THEN 0 ELSE read)..(write - 1) : array[i] = w}
<1>1. size \in Nat /\ size >= 2 /\ read \in 0..(size - 1) /\ write \in 0..(size - 1) /\ write # read
  BY DEF TypeOK, Slots, Remove, IsEmpty
<1>2. Len(Items) = n /\ \A j \in 1..n : Items[j] = array[IndexOf(size, read, j - 1)]
  BY ItemsSeq
<1>3. upper \in SUBSET Nat /\ lower \in SUBSET Nat
  BY <1>1
<1>4. ASSUME upper # {}, ShortenAtBeginning(First(upper)) PROVE TypeOK' /\ Fifo!Remove(w)
  <2> DEFINE i == First(upper)
             k == i - read + 1
  <2>1. i \in upper /\ \A j \in upper : i <= j
    <3> HIDE DEF upper
    <3> QED BY <1>3, <1>4, FirstOf
  <2>2. ShortenAtBeginning(i)
    BY <1>4
  <2> HIDE DEF i
  <2>3. /\ i \in read..(size - 1) /\ i - read < n /\ read > write /\ array[i] = w
        /\ k \in 1..n /\ IndexOf(size, read, k - 1) = i
    BY <1>1, <2>1 DEF CountOf, IndexOf
  <2>4. ASSUME NEW j \in 1..(k - 1) PROVE Items[j] # w
    <3>1. j \in 1..n /\ IndexOf(size, read, j - 1) = read + j - 1 /\ read + j - 1 \in read..(size - 1)
          /\ read + j - 1 < i
      BY <1>1, <2>3 DEF CountOf, IndexOf
    <3>2. read + j - 1 \notin upper
      <4> HIDE DEF upper
      <4> QED BY <1>1, <2>1, <2>3, <3>1
    <3>3. array[read + j - 1] # w
      BY <2>3, <3>1, <3>2
    <3> QED BY <1>2, <3>1, <3>3
  <2>5. Items[k] = w
    <3> HIDE DEF n, k, upper, lower
    <3> QED BY <1>2, <2>3
  <2>6. TypeOK' /\ Items' = Fifo!Drop(k)
    <3> HIDE DEF upper, lower
    <3> QED BY <2>2, <2>3, BeginningType, BeginningItems
  <2> HIDE DEF n, k, upper, lower
  <2> QED BY <1>2, <2>3, <2>4, <2>5, <2>6 DEF Fifo!Remove
<1>5. ASSUME upper = {}, lower # {}, ShortenAtEnd(First(lower), write - First(lower))
      PROVE  TypeOK' /\ Fifo!Remove(w)
  <2> DEFINE i == First(lower)
             k == IF read < write THEN i - read + 1 ELSE i + size - read + 1
  <2>1. i \in lower /\ \A j \in lower : i <= j
    <3> HIDE DEF lower
    <3> QED BY <1>3, <1>5, FirstOf
  <2>2. ShortenAtEnd(i, write - i)
    BY <1>5
  <2> HIDE DEF i
  <2>3. /\ i \in 0..(write - 1) /\ (read < write => read <= i) /\ array[i] = w
        /\ write - i \in (write - i - 1)..(write - i)
    BY <1>1, <2>1
  <2>4. k \in 1..n /\ IndexOf(size, read, k - 1) = i
    BY <1>1, <2>3 DEF CountOf, IndexOf
  <2>5. ASSUME NEW j \in 1..(k - 1) PROVE Items[j] # w
    <3> DEFINE x == IndexOf(size, read, j - 1)
    <3>1. j \in 1..n /\ ((x \in read..(size - 1) /\ read > write)
                       \/ (x \in (IF read > write THEN 0 ELSE read)..(write - 1) /\ x < i))
      BY <1>1, <2>3, <2>4 DEF CountOf, IndexOf
    <3> HIDE DEF x
    <3>2. array[x] # w
      <4>1. CASE x \in read..(size - 1) /\ read > write
        BY <1>5, <4>1
      <4>2. CASE x \in (IF read > write THEN 0 ELSE read)..(write - 1) /\ x < i
        <5>1. x \notin lower
          <6> HIDE DEF lower
          <6>1. x \in Nat /\ i \in Nat
            BY <1>1, <2>3, <4>2
          <6> QED BY <2>1, <4>2, <6>1
        <5> QED BY <4>2, <5>1
      <4> QED BY <3>1, <4>1, <4>2
    <3> HIDE DEF n
    <3> QED BY <1>2, <3>1, <3>2 DEF x
  <2>6. Items[k] = w
    <3> HIDE DEF n, k, upper, lower
    <3> QED BY <1>2, <2>3, <2>4
  <2>7. TypeOK' /\ Items' = Fifo!Drop(k)
    <3> HIDE DEF upper, lower
    <3>1. TypeOK'
      BY <2>2, <2>3, EndType
    <3>2. Items' = Fifo!Drop(IF read < write THEN i - read + 1 ELSE i + size - read + 1)
      BY <1>1, <2>2, <2>3, EndItems
    <3> QED BY <3>1, <3>2
  <2> HIDE DEF n, k, upper, lower
  <2> QED BY <1>2, <2>4, <2>5, <2>6, <2>7 DEF Fifo!Remove
<1> QED BY <1>4, <1>5, Zenon DEF Remove

-----------------------------------------------------------------------------
(* Blank *)

(* The new size leaves room for the elements and one slot more. *)
LEMMA BlankFits ==
  ASSUME TypeOK
  PROVE  /\ BlankSize \in Nat /\ BlankSize >= 2
         /\ write = read => BlankSize >= size
         /\ write # read => /\ BlankEntries = CountOf(size, read, write)
                           /\ BlankEntries < BlankSize
<1> DEFINE e == BlankEntries
           h == (e * 3) \div 2
           t == (h + 1 + size) \div 2
<1>1. size \in Nat /\ size >= 2 /\ read \in 0..(size - 1) /\ write \in 0..(size - 1)
  BY DEF TypeOK, Slots
<1>2. /\ e \in Nat /\ (write = read => e = size)
      /\ (write # read => e = CountOf(size, read, write) /\ e < size)
  BY <1>1 DEF BlankEntries, CountOf
<1> HIDE DEF e
<1>3. h \in Nat /\ 2 * h >= e * 3 - 1
  BY <1>2, Half
<1> HIDE DEF h
<1>4. t \in Nat /\ 2 * t + 1 >= h + 1 + size
  BY <1>1, <1>3, Half
<1>5. BlankSize = IF t < 2 THEN 2 ELSE t
  BY DEF BlankSize, h, e
<1> HIDE DEF t
<1>6. BlankSize \in Nat /\ BlankSize >= 2 /\ BlankSize >= t
  BY <1>4, <1>5
<1>7. write = read => BlankSize >= size
  BY <1>1, <1>2, <1>3, <1>4, <1>6
<1>8. write # read => e < BlankSize
  BY <1>1, <1>2, <1>3, <1>4, <1>6
<1> QED BY <1>2, <1>6, <1>7, <1>8 DEF e
(* What a layout of the elements in a smaller array has to satisfy *)
Lays(a, n, r, v) ==
  /\ n \in Nat /\ n >= 2 /\ n <= size
  /\ r \in 0..(n - 1) /\ v \in 0..(n - 1)
  /\ a \in [0..(size - 1) -> Word]
  /\ CountOf(n, r, v) = CountOf(size, read, write)
  /\ \A i \in 1..CountOf(size, read, write) : a[IndexOf(n, r, i - 1)] = array[IndexOf(size, read, i - 1)]

(***************************************************************************)
(* The three ways in which Blank moves the elements: none, the elements to *)
(* the front, the upper part of a wrapped queue to the end of what is left.*)
(***************************************************************************)
LEMMA BlankLaid ==
  ASSUME TypeOK
  PROVE  LET l == BlankLayout(BlankSize) IN Lays(l.array, l.size, l.read, l.write)
<1> DEFINE c == CountOf(size, read, write)
           m == BlankSize
<1>1. /\ size \in Nat /\ size >= 2 /\ read \in 0..(size - 1) /\ write \in 0..(size - 1)
      /\ array \in [0..(size - 1) -> Word]
  BY DEF TypeOK, Slots, Word
<1>2. m \in Nat /\ m >= 2 /\ (write = read => m >= size) /\ (write # read => BlankEntries = c /\ c < m)
  BY BlankFits
<1> HIDE DEF m
<1>3. SUFFICES LET l == BlankLayout(m) IN Lays(l.array, l.size, l.read, l.write)
  BY DEF m
<1>4. CASE m >= size \/ (read < write /\ ~(write >= m))
  <2>1. CASE m >= size
    <3>1. BlankLayout(m) = [array |-> array, size |-> size, read |-> read, write |-> write]
      BY <2>1 DEF BlankLayout
    <3>2. Lays(array, size, read, write)
      BY <1>1 DEF Lays
    <3> QED BY <3>1, <3>2
  <2>2. CASE ~(m >= size) /\ read < write /\ ~(write >= m)
    <3>1. BlankLayout(m) = [array |-> array, size |-> m, read |-> read, write |-> write]
      BY <2>2 DEF BlankLayout
    <3>2. /\ m <= size /\ read \in 0..(m - 1) /\ write \in 0..(m - 1) /\ CountOf(m, read, write) = c
          /\ \A i \in 1..c : IndexOf(m, read, i - 1) = IndexOf(size, read, i - 1)
      BY <1>1, <1>2, <2>2 DEF CountOf, IndexOf
    <3>3. Lays(array, m, read, write)
      <4> HIDE DEF c
      <4> QED BY <1>1, <1>2, <3>2 DEF Lays, c
    <3> QED BY <3>1, <3>3
  <2> QED BY <1>4, <2>1, <2>2
<1>5. CASE ~(m >= size) /\ read < write /\ write >= m
  <2> DEFINE a == MemMove(array, 0, read, c)
  <2>1. BlankLayout(m) = [array |-> a, size |-> m, read |-> 0, write |-> c]
    BY <1>1, <1>2, <1>5 DEF BlankLayout
  <2>2. c \in Nat /\ read \in Nat /\ read + c <= size /\ 0 \in Nat
    BY <1>1, <1>5 DEF CountOf
  <2>3. /\ a \in [0..(size - 1) -> Word]
        /\ \A i \in 0..(size - 1) : a[i] = IF i \in 0..(0 + c - 1) THEN array[i + read - 0] ELSE array[i]
    <3> HIDE DEF c
    <3> QED BY <1>1, <2>2, MemMoveType
  <2> HIDE DEF a
  <2>4. m <= size /\ 0 \in 0..(m - 1) /\ c \in 0..(m - 1) /\ CountOf(m, 0, c) = c
    BY <1>1, <1>2, <1>5 DEF CountOf
  <2>5. ASSUME NEW i \in 1..c PROVE a[IndexOf(m, 0, i - 1)] = array[IndexOf(size, read, i - 1)]
    <3>1. /\ IndexOf(m, 0, i - 1) = i - 1 /\ i - 1 \in 0..(size - 1) /\ i - 1 \in 0..(0 + c - 1)
          /\ IndexOf(size, read, i - 1) = (i - 1) + read - 0
      BY <1>1, <1>2, <1>5 DEF CountOf, IndexOf
    <3> HIDE DEF c
    <3> QED BY <2>3, <3>1
  <2>6. Lays(a, m, 0, c)
    <3> HIDE DEF c
    <3> QED BY <1>2, <2>3, <2>4, <2>5 DEF Lays, c
  <2> HIDE DEF c
  <2> QED BY <2>1, <2>6
<1>6. CASE ~(m >= size) /\ ~(read < write)
  <2> DEFINE len == size - read
             to == m - len
             a == MemMove(array, to, read, len)
  <2>1. BlankLayout(m) = [array |-> a, size |-> m, read |-> to, write |-> write]
    BY <1>6 DEF BlankLayout
  <2>2. write < read /\ c = write + size - read /\ c < m /\ m <= size
    BY <1>1, <1>2, <1>6 DEF CountOf
  <2>3. /\ len \in Nat /\ to \in Nat /\ read \in Nat /\ read + len <= size
        /\ to \in 0..(m - 1) /\ write < to /\ write \in 0..(m - 1) /\ to + len = m
        /\ CountOf(m, to, write) = c
    BY <1>1, <1>2, <2>2 DEF CountOf
  <2>4. \A i \in 1..c : \/ /\ i <= len
                           /\ IndexOf(m, to, i - 1) = to + i - 1
                           /\ IndexOf(size, read, i - 1) = read + i - 1
                        \/ /\ ~(i <= len)
                           /\ IndexOf(m, to, i - 1) = i - 1 - len
                           /\ IndexOf(size, read, i - 1) = i - 1 - len
                           /\ i - 1 - len < write
    BY <1>1, <1>2, <2>2, <2>3 DEF IndexOf, CountOf
  <2> HIDE DEF len, to
  <2>5. /\ a \in [0..(size - 1) -> Word]
        /\ \A i \in 0..(size - 1) :
             a[i] = IF i \in to..(to + len - 1) THEN array[i + read - to] ELSE array[i]
    <3>1. to \in Nat /\ read \in Nat /\ len \in Nat /\ size \in Nat /\ read + len <= size
      BY <1>1, <2>3
    <3>2. array \in [0..(size - 1) -> Word]
      BY <1>1
    <3> QED BY <3>1, <3>2, MemMoveType, SMTT(30)
  <2> HIDE DEF a
  <2>6. c \in Nat
    BY <1>1, <2>2
  <2> HIDE DEF c
  <2>7. ASSUME NEW i \in 1..c PROVE a[IndexOf(m, to, i - 1)] = array[IndexOf(size, read, i - 1)]
    <3>1. CASE i <= len
      <4>1. IndexOf(m, to, i - 1) = to + i - 1 /\ IndexOf(size, read, i - 1) = read + i - 1
        BY <2>3, <2>4, <2>6, <3>1
      <4>2. /\ to + i - 1 \in 0..(size - 1) /\ to + i - 1 \in to..(to + len - 1)
            /\ (to + i - 1) + read - to = read + i - 1
        BY <1>1, <1>2, <2>2, <2>3, <2>6, <3>1
      <4> QED BY <2>5, <4>1, <4>2
    <3>2. CASE ~(i <= len)
      <4>1. /\ IndexOf(m, to, i - 1) = i - 1 - len /\ IndexOf(size, read, i - 1) = i - 1 - len
            /\ i - 1 - len < write
        BY <2>3, <2>4, <2>6, <3>2
      <4>2. i - 1 - len \in 0..(size - 1) /\ i - 1 - len \notin to..(to + len - 1)
        BY <1>1, <2>3, <2>6, <3>2, <4>1
      <4> QED BY <2>5, <4>1, <4>2
    <3> QED BY <3>1, <3>2
  <2>8. Lays(a, m, to, write)
    <3>1. CountOf(m, to, write) = CountOf(size, read, write) /\ c = CountOf(size, read, write)
      BY <2>3 DEF c
    <3>2. \A i \in 1..CountOf(size, read, write) :
            a[IndexOf(m, to, i - 1)] = array[IndexOf(size, read, i - 1)]
      BY <2>7, <3>1
    <3>3. /\ m \in Nat /\ m >= 2 /\ m <= size /\ to \in 0..(m - 1) /\ write \in 0..(m - 1)
          /\ a \in [0..(size - 1) -> Word]
      BY <1>2, <2>2, <2>3, <2>5
    <3> QED BY <3>1, <3>2, <3>3 DEF Lays
  <2> QED BY <2>1, <2>8
<1> QED BY <1>4, <1>5, <1>6
(* The slots that Blank clears are those between the indices. *)
LEMMA ZeroedSlots ==
  ASSUME NEW n \in Nat, NEW r \in 0..(n - 1), NEW v \in 0..(n - 1),
         NEW l, l.size = n, l.read = r, l.write = v
  PROVE  /\ \A i \in 1..CountOf(n, r, v) : IndexOf(n, r, i - 1) \notin BlankZeroed(l)
         /\ r # v => \A j \in 0..(n - 1) : j \notin BlankZeroed(l) =>
                      \E i \in 1..CountOf(n, r, v) : j = IndexOf(n, r, i - 1)
<1>1. BlankZeroed(l) = IF r < v THEN 0..(r - 1) \cup v..(n - 1) ELSE v..(r - 1)
  BY DEF BlankZeroed
<1>2. \A i \in 1..CountOf(n, r, v) : IndexOf(n, r, i - 1) \notin BlankZeroed(l)
  BY <1>1 DEF CountOf, IndexOf
<1>3. ASSUME r # v, NEW j \in 0..(n - 1), j \notin BlankZeroed(l)
      PROVE  \E i \in 1..CountOf(n, r, v) : j = IndexOf(n, r, i - 1)
  <2>1. CASE j >= r
    <3>1. j - r + 1 \in 1..CountOf(n, r, v) /\ j = IndexOf(n, r, (j - r + 1) - 1)
      BY <1>1, <1>3, <2>1 DEF CountOf, IndexOf
    <3> QED BY <3>1
  <2>2. CASE ~(j >= r)
    <3>1. j + n - r + 1 \in 1..CountOf(n, r, v) /\ j = IndexOf(n, r, (j + n - r + 1) - 1)
      BY <1>1, <1>3, <2>2 DEF CountOf, IndexOf
    <3> QED BY <3>1
  <2> QED BY <2>1, <2>2
<1> QED BY <1>2, <1>3

(* Blank keeps the sequence and clears every slot outside it. *)
LEMMA BlankItems ==
  ASSUME TypeOK, Blank
  PROVE  TypeOK' /\ Items' = Items /\ BlankClears'
<1> DEFINE l == BlankLayout(BlankSize)
           c == CountOf(size, read, write)
           b == [i \in 0..(l.size - 1) |-> IF i \in BlankZeroed(l) THEN Zero ELSE l.array[i]]
<1>1. Lays(l.array, l.size, l.read, l.write)
  BY BlankLaid
<1>2. array' = b /\ size' = l.size /\ read' = l.read /\ write' = l.write /\ blanked' = TRUE
  BY DEF Blank
<1> HIDE DEF l
<1>3. /\ l.size \in Nat /\ l.size >= 2 /\ l.size <= size
      /\ l.read \in 0..(l.size - 1) /\ l.write \in 0..(l.size - 1)
      /\ CountOf(l.size, l.read, l.write) = c
      /\ \A i \in 1..c : l.array[IndexOf(l.size, l.read, i - 1)] = array[IndexOf(size, read, i - 1)]
  BY <1>1 DEF Lays
<1>4. b \in [0..(l.size - 1) -> Word]
  <2>1. size \in Nat /\ l.array \in [0..(size - 1) -> Word]
    BY <1>1 DEF Lays, TypeOK
  <2>2. \A i \in 0..(l.size - 1) : l.array[i] \in Word
    BY <1>3, <2>1
  <2> QED BY <2>2 DEF Word
<1>5. TypeOK'
  <2>1. blanked' \in BOOLEAN
    BY <1>2
  <2> HIDE DEF b
  <2> QED BY <1>2, <1>3, <1>4, <2>1, TypeFromParts
<1>6. \A i \in 1..c : /\ IndexOf(l.size, l.read, i - 1) \in 0..(l.size - 1)
                     /\ IndexOf(l.size, l.read, i - 1) \notin BlankZeroed(l)
  <2> HIDE DEF c
  <2> QED BY <1>3, Count, ZeroedSlots
<1>7. Items' = Items
  <2>1. Items' = ItemsOf(b, l.size, l.read, l.write)
    BY <1>2, ItemsAfter
  <2>2. Items = ItemsOf(array, size, read, write)
    BY ItemsBefore
  <2>3. \A i \in 1..c : b[IndexOf(l.size, l.read, i - 1)] = array[IndexOf(size, read, i - 1)]
    BY <1>3, <1>6
  <2> HIDE DEF b
  <2> QED BY <1>3, <2>1, <2>2, <2>3 DEF ItemsOf
<1>8. BlankClears'
  <2>1. SUFFICES ASSUME l.read # l.write, NEW j \in Unused' PROVE b[j] = Zero
    BY <1>2 DEF BlankClears, IsEmpty
  <2>2. /\ j \in 0..(l.size - 1)
        /\ \A i \in 1..CountOf(l.size, l.read, l.write) : j # IndexOf(l.size, l.read, i - 1)
    BY <1>2, <2>1 DEF Unused, Slots, GetNumberOfElements, At, CountOf, IndexOf
  <2>3. j \in BlankZeroed(l)
    BY <1>3, <2>1, <2>2, ZeroedSlots
  <2> QED BY <2>2, <2>3
<1> QED BY <1>5, <1>7, <1>8

-----------------------------------------------------------------------------
(* The theorems *)

(* What every step does, in terms of the sequence *)
LEMMA StepQueue ==
  ASSUME TypeOK, Next
  PROVE  TypeOK' /\ [Fifo!Next]_Items /\ BlankClears'
<1>1. ASSUME blanked' = FALSE PROVE BlankClears'
  BY <1>1 DEF BlankClears
<1>2. ASSUME NEW w \in Elem, Enqueue(w) PROVE TypeOK' /\ Fifo!Next /\ blanked' = FALSE
  <2>1. blanked' = FALSE
    BY <1>2 DEF Enqueue
  <2> QED BY <1>2, <2>1, EnqueueType, EnqueueItems DEF Fifo!Next
<1>3. ASSUME NEW w \in Elem, Remove(w) PROVE TypeOK' /\ Fifo!Next /\ blanked' = FALSE
  <2>1. blanked' = FALSE
    BY <1>3 DEF Remove, ShortenAtBeginning, ShortenAtEnd
  <2> QED BY <1>3, <2>1, RemoveItems DEF Fifo!Next
<1>4. ASSUME Dequeue PROVE TypeOK' /\ Fifo!Next /\ blanked' = FALSE
  <2>1. blanked' = FALSE
    BY <1>4 DEF Dequeue
  <2> QED BY <1>4, <2>1, DequeueType, DequeueItems DEF Fifo!Next
<1>5. ASSUME NEW n \in 0..(MaxLength - 1), RemoveNthElement(n)
      PROVE  TypeOK' /\ Fifo!Next /\ blanked' = FALSE
  <2>1. blanked' = FALSE
    BY <1>5 DEF RemoveNthElement, ShortenAtBeginning, ShortenAtEnd
  <2>2. n \in Nat
    BY QueueAssumption
  <2> QED BY <1>5, <2>1, <2>2, RemoveNthItems DEF Fifo!Next
<1>6. ASSUME Blank PROVE TypeOK' /\ Items' = Items /\ BlankClears'
  BY <1>6, BlankItems
<1> QED BY <1>1, <1>2, <1>3, <1>4, <1>5, <1>6 DEF Next

(* Indices stay inside the array, which keeps two slots or more. *)
THEOREM QueueTypes == Spec => []TypeOK
<1>1. TypeOK /\ [Next]_vars => TypeOK'
  <2>1. TypeOK /\ UNCHANGED vars => TypeOK'
    BY DEF TypeOK, Slots, vars
  <2> QED BY <2>1, StepQueue
<1> QED BY <1>1, InitType, PTL DEF Spec

(***************************************************************************)
(* The circular buffer of Queue.hh implements the sequence, for queues of  *)
(* every length and arrays of every size: wrap-around, Enlarge and Blank   *)
(* are invisible, and Remove takes the occurrence that was queued first.   *)
(***************************************************************************)
THEOREM QueueImplementsFifo == Spec => FifoSpec
<1>1. Init => Fifo!Init
  <2> SUFFICES ASSUME Init PROVE Items = <<>>
    BY DEF Fifo!Init
  <2>1. TypeOK
    BY InitType
  <2>2. CountOf(size, read, write) = 0
    BY DEF Init, CountOf
  <2> QED BY <2>1, <2>2, ItemsSeq, EmptySeq
<1>2. TypeOK /\ [Next]_vars => [Fifo!Next]_Items
  <2>1. UNCHANGED vars => UNCHANGED Items
    BY DEF vars, Items, GetNumberOfElements, At
  <2> QED BY <2>1, StepQueue
<1> QED BY <1>1, <1>2, QueueTypes, PTL DEF Spec, FifoSpec, Fifo!Spec

(***************************************************************************)
(* After Blank of a queue that holds something no unused slot holds a word *)
(* that the collector would follow, whatever the layout was.               *)
(***************************************************************************)
THEOREM QueueBlanked == Spec => []BlankClears
<1>1. Init => BlankClears
  BY DEF Init, BlankClears
<1>2. TypeOK /\ BlankClears /\ [Next]_vars => BlankClears'
  <2>1. BlankClears /\ UNCHANGED vars => BlankClears'
    BY DEF BlankClears, IsEmpty, Unused, Slots, At, GetNumberOfElements, vars
  <2> QED BY <2>1, StepQueue
<1> QED BY <1>1, <1>2, QueueTypes, PTL DEF Spec
=============================================================================
