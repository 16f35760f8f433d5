------------------------------ MODULE RingQueue ------------------------------
(***************************************************************************)
(* The circular buffer under every queue of SEAM (src/seam/adt/Queue.hh).  *)
(*                                                                         *)
(* array is the block of words, indexed from 0; read and write are the     *)
(* indices of the next element to dequeue and of the next free slot, equal *)
(* when the queue is empty.  Slots outside the queue keep what was written *)
(* there last: the garbage collector follows every word of the array.      *)
(***************************************************************************)
EXTENDS Naturals, Sequences

CONSTANTS Elem,        \* the words that are enqueued
          Zero,        \* the integer 0 in a slot
          InitialSize, \* size of the array of a new queue
          MaxLength    \* bound: no Enqueue beyond this number of elements

ASSUME QueueAssumption == /\ Zero \notin Elem
                          /\ InitialSize \in Nat \ {0, 1}
                          /\ MaxLength \in Nat

VARIABLES array, size, read, write,
          blanked  \* auxiliary: nothing was done since the last Blank

vars == <<array, size, read, write, blanked>>

Slots == 0..(size - 1)

(* The n-th slot after index i, with wrap-around *)
At(i, n) == IF i + n >= size THEN i + n - size ELSE i + n

GetNumberOfElements == IF write >= read THEN write - read ELSE write + size - read

IsEmpty == write = read

(* The queue that the array represents *)
Items == [i \in 1..GetNumberOfElements |-> array[At(read, i - 1)]]

Unused == Slots \ {At(read, i - 1) : i \in 1..GetNumberOfElements}

(* std::memmove of n words in the array *)
MemMove(a, to, from, n) ==
  [i \in DOMAIN a |-> IF i \in to..(to + n - 1) THEN a[i + from - to] ELSE a[i]]

-----------------------------------------------------------------------------
Init == /\ size = InitialSize
        /\ array = [i \in 0..(InitialSize - 1) |-> Zero]
        /\ read = 0
        /\ write = 0
        /\ blanked = FALSE

(* Mutant of Enlarge: the array is copied, not unwrapped *)
EnlargeWrapped(a) ==
  LET newSize == size + size \div 2
  IN  /\ array' = [i \in 0..(newSize - 1) |-> IF i < size THEN a[i] ELSE Zero]
      /\ size' = newSize
      /\ read' = 0
      /\ write' = size

(* Enlarge: unwraps a full array into a larger one *)
Enlarge(a) ==
  LET newSize == size + size \div 2
  IN  /\ array' = [i \in 0..(newSize - 1) |->
                     IF i < size - read THEN a[read + i]
                     ELSE IF i < size THEN a[i - (size - read)] ELSE Zero]
      /\ size' = newSize
      /\ read' = 0
      /\ write' = size

Enqueue(w) ==
  LET a    == [array EXCEPT ![write] = w]
      next == IF write + 1 = size THEN 0 ELSE write + 1
  IN  /\ GetNumberOfElements < MaxLength
      /\ blanked' = FALSE
      /\ IF next = read
         THEN Enlarge(a)
         ELSE /\ array' = a
              /\ write' = next
              /\ UNCHANGED <<size, read>>

Dequeue ==
  /\ ~IsEmpty
  /\ blanked' = FALSE
  /\ read' = IF read + 1 = size THEN 0 ELSE read + 1
  /\ UNCHANGED <<array, size, write>>

(* The elements before slot i move up by one. *)
ShortenAtBeginning(i) ==
  /\ array' = MemMove(array, read + 1, read, i - read)
  /\ read' = (read + 1) % size
  /\ blanked' = FALSE
  /\ UNCHANGED <<size, write>>

(* Those after slot i move down; n words are moved. *)
ShortenAtEnd(i, n) ==
  /\ array' = MemMove(array, i, i + 1, n)
  /\ write' = write - 1
  /\ blanked' = FALSE
  /\ UNCHANGED <<size, read>>

First(S) == CHOOSE i \in S : \A j \in S : i <= j

(* Remove: the upper half is scanned first when the queue wraps around.    *)
(* Its memmove takes one word more than the queue holds; the word past the *)
(* last slot is not read, write being less than size.                      *)
Remove(w) ==
  LET upper == {i \in read..(size - 1) : read > write /\ array[i] = w}
      lower == {i \in (IF read > write THEN 0 ELSE read)..(write - 1) : array[i] = w}
  IN  /\ ~IsEmpty
      /\ \/ upper # {} /\ ShortenAtBeginning(First(upper))
         \/ upper = {} /\ lower # {} /\ ShortenAtEnd(First(lower), write - First(lower))

RemoveNthElement(n) ==
  /\ n < GetNumberOfElements
  /\ IF read + n >= size
     THEN ShortenAtEnd(read + n - size, write - (read + n - size) - 1)
     ELSE ShortenAtBeginning(read + n)

(***************************************************************************)
(* Blank, called before a garbage collection: gives back half of the slots *)
(* that are not needed and clears the unused ones.                         *)
(***************************************************************************)
BlankEntries == IF write + size - read > size THEN write - read ELSE write + size - read

BlankSize ==
  LET wanted == ((BlankEntries * 3) \div 2 + 1 + size) \div 2
  IN  IF wanted < 2 THEN 2 ELSE wanted

(* Lays out the elements in the first newSize slots *)
BlankLayout(newSize) ==
  IF newSize >= size
  THEN [array |-> array, size |-> size, read |-> read, write |-> write]
  ELSE IF read < write
  THEN IF write >= newSize
       THEN [array |-> MemMove(array, 0, read, BlankEntries),
             size |-> newSize, read |-> 0, write |-> BlankEntries]
       ELSE [array |-> array, size |-> newSize, read |-> read, write |-> write]
  ELSE [array |-> MemMove(array, newSize - (size - read), read, size - read),
        size |-> newSize, read |-> newSize - (size - read), write |-> write]

(* The slots that the code overwrites with 0, for a given layout *)
BlankZeroed(l) ==
  IF l.read < l.write THEN 0..(l.read - 1) \cup l.write..(l.size - 1)
                      ELSE l.write..(l.read - 1)

Blank ==
  LET l == BlankLayout(BlankSize)
  IN  /\ array' = [i \in 0..(l.size - 1) |-> IF i \in BlankZeroed(l) THEN Zero ELSE l.array[i]]
      /\ size' = l.size
      /\ read' = l.read
      /\ write' = l.write
      /\ blanked' = TRUE

Next == \/ \E w \in Elem : Enqueue(w) \/ Remove(w)
        \/ Dequeue
        \/ \E n \in 0..(MaxLength - 1) : RemoveNthElement(n)
        \/ Blank

Spec == Init /\ [][Next]_vars

-----------------------------------------------------------------------------
(* Indices stay inside the array, which never shrinks to one slot, where   *)
(* Enlarge would not enlarge it ("size may not be 1!").                    *)
TypeOK == /\ size \in Nat /\ size >= 2
          /\ array \in [Slots -> Elem \cup {Zero}]
          /\ read \in Slots
          /\ write \in Slots
          /\ blanked \in BOOLEAN

(* The circular buffer implements the sequence, whatever wrap-around, growth *)
(* and shrinking happens: Blank is invisible, Remove takes the oldest one.   *)
Fifo == INSTANCE FifoQueue WITH items <- Items

FifoSpec == Fifo!Spec

(* Blank of a queue that holds something leaves no word in an unused slot:   *)
(* the collector does not keep a dequeued thread alive.  (For an empty queue *)
(* BlankEntries is the size of the array, and nothing is cleared.)           *)
BlankClears == blanked /\ ~IsEmpty => \A i \in Unused : array[i] = Zero
=============================================================================
