------------------------------ MODULE Pickling ------------------------------
(***************************************************************************)
(* A value is pickled by one thread and unpickled by another one, or in    *)
(* another process: the composition of Pickler and Unpickler through the   *)
(* file, of which the end may be missing (the process that saved it died), *)
(* or through a string.                                                    *)
(***************************************************************************)
EXTENDS Pickler, Unpickler

CONSTANT Cuts   \* how many bytes may be missing at the end of the file

VARIABLE cut    \* the bytes that are missing

vars == <<pvars, uvars, cut>>

Init == PInit /\ UInit /\ cut = 0

Pickle == PNext /\ UNCHANGED <<uvars, cut>>
Unpickle == UNext /\ UNCHANGED <<pvars, cut>>

\* Unpickler::Load of the file or Unpickler::Unpack of the string.
Open(type, k) ==
    /\ ppc = "done"
    /\ k < Len(output)
    /\ type = "STRING" => k = 0
    /\ Load(type, SubSeq(output, 1, Len(output) - k))
    /\ cut' = k
    /\ UNCHANGED pvars

Opened == \E type \in {"FILE", "STRING"}, k \in Cuts : Open(type, k)

Next == Pickle \/ Unpickle \/ Opened

\* When the actions are enabled.
PEnabled == ppc \in {"pickle", "blocked", "save"}
UEnabled == upc \notin {"idle", "loaded", "corrupt", "ioerror", "undefined"}
OEnabled == ppc = "done" /\ upc = "idle"

\* Weak fairness, with ENABLED written out: the scheduler runs every thread that
\* is not blocked; the futures that are asked for get bound by their threads.
Fairness ==
    /\ []<>~PEnabled \/ []<><<Pickle>>_vars
    /\ []<>~UEnabled \/ []<><<Unpickle>>_vars
    /\ []<>~OEnabled \/ []<><<Opened>>_vars

Spec == Init /\ [][Next]_vars /\ Fairness

(***************************************************************************)
(* Properties.                                                             *)
(***************************************************************************)
\* The graphs below the words of todo are isomorphic; m relates the nodes that
\* correspond to each other.
RECURSIVE Iso(_, _, _, _)
Iso(g, h, todo, m) ==
    IF todo = <<>> THEN TRUE ELSE
    LET a == Deref(g, Head(todo)[1])
        b == Deref(h, Head(todo)[2])
        x == g[a[2]]
        y == h[b[2]]
    IN  /\ IsInt(a) <=> IsInt(b)
        /\ IF IsInt(a) THEN a = b /\ Iso(g, h, Tail(todo), m)
           ELSE IF \E e \in m : e[1] = a[2] \/ e[2] = b[2]
           THEN <<a[2], b[2]>> \in m /\ Iso(g, h, Tail(todo), m)
           ELSE /\ x.kind = y.kind
                /\ Len(x.args) = Len(y.args)
                /\ Iso(g, h, [i \in DOMAIN x.args |-> <<x.args[i], y.args[i]>>]
                             \o Tail(todo),
                       m \cup {<<a[2], b[2]>>})

\* What is unpickled is what was pickled, with its sharing and its cycles: the
\* graph as it was at one moment, the last walk of the pickler, whatever other
\* threads did while it waited for transients.  This is what the comment in
\* PickleSaveWorker::Run calls a consistent state.
RoundTrip ==
    upc = "loaded" => Iso(snapshot, heap, <<<<root, frame.locals[0]>>>>, {})

\* The header is right: the stack of the unpickler never outgrows the height
\* that the pickler computed, never is empty when a word is taken from it, and
\* ends with the result alone; a local variable is stored once, and loaded only
\* after that (the assertions of UnpickleFrame).
FrameFits ==
    /\ Len(frame.stack) <= frame.stackSize
    /\ \A i \in DOMAIN frame.stored : frame.stored[i] <= 1
    /\ upc = "unpickle" /\ ~Decode.is.eob =>
         LET t == Decode.tag
             n == CASE t \in {"STORE", "UNIQUE", "ENDOFSTREAM"} -> 1
                    [] t = "TRANSFORM" -> 2
                    [] t \in {"BLOCK", "MBLOCK", "TUPLE", "CLOSURE"} ->
                         SizeOf(t, Decode.ops)
                    [] OTHER -> 0
         IN  /\ Len(frame.stack) >= n
             /\ t \in {"LOAD", "FULFILL"} => frame.stored[Decode.ops[1]] = 1
    /\ upc = "loaded" => Len(frame.stack) = 1

\* A pickle that is complete is never called corrupt when its handlers can be
\* loaded, wherever the buffer ends; one whose end is missing always is: no part
\* of a value is ever returned.
CorruptExact ==
    /\ upc = "corrupt" => cut > 0 \/ ~handlers
    /\ upc = "loaded" => cut = 0

\* A transform is applied to a name and an argument, also when it was announced
\* because its argument leads back to it (MakeFulfilledBlock).
TransformsNamed == upc # "undefined"

\* Pickling ends, however often it starts again, and then unpickling ends.
Ends == /\ <>(ppc \in {"done", "raised"})
        /\ ppc = "done" ~> upc \in {"loaded", "corrupt", "ioerror"}
=============================================================================
