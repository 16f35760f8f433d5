---------------------------- MODULE AbstractCode ----------------------------
(***************************************************************************)
(* Abstract code, the code format in which Alice procedures are stored in  *)
(* pickles (src/alice/vm-seam/alice/AbstractCode.hh, and the grammar of the *)
(* compiler in src/alice/compiler/backend-seam), and what both of its      *)
(* executions need: words, transients and the convention for passing       *)
(* arguments (src/seam/generic/Worker.cc).                                 *)
(*                                                                         *)
(* An instruction is a record with its name in op and the instruction that *)
(* follows in next, so that a body is a tree; a test has several           *)
(* successors.  A word is a tuple that starts with its kind:               *)
(*   <<"int", n>>  <<"str", n>>  <<"real", n>>  <<"cell", w>>              *)
(*   <<"tup", ws>>  <<"vec", ws>>  <<"tag", tag, ws>>                      *)
(*   <<"con", n>> (a constructor)  <<"conval", c, ws>>                     *)
(*   <<"clo", f, ws>> (procedure f, with its closure)  <<"ext", e>>        *)
(*   <<"fut", f>> (a transient)                                            *)
(* An idRef is <<"Local", id>>, <<"LastUseLocal", id>>, <<"Global", i>> or *)
(* <<"Immediate", w>>; an idDef is an id or Wildcard.                      *)
(***************************************************************************)
EXTENDS Integers, Sequences, FiniteSets, SequencesExt

CONSTANTS Functions,   \* the procedures: a sequence of records with the
                       \* fields args, subst, out, nLocals and body
          Externals,   \* procedures that are not abstract code: a sequence of
                       \* records with the fields in, out, strict and raises
          Futures      \* the transients of the run

VARIABLE fut           \* what each transient is bound to

Wildcard == -1
NoInstr == [op |-> "none"]
NoCont == [defs |-> <<>>, next |-> NoInstr]    \* the call is a tail call
Unknown == -1                                  \* an outArity of NONE
Unbound == <<"unbound">>

Unit == <<"int", 0>>
Junk == <<"junk">>                             \* a word that was never set
Package(exn) == <<"tup", <<exn, <<"backtrace">>>>>>

\* Procedures run with the numbers of their ids, words with their kinds.
Ids(f) == 0..(Functions[f].nLocals - 1)
Kind(w) == w[1]

\* Store::WordToTransient and the dereferencing in every conversion of a word.
Deref(w) == IF Kind(w) = "fut" /\ fut[w[2]] # Unbound THEN fut[w[2]] ELSE w
IsTransient(w) == Kind(Deref(w)) \in {"fut", "failed"}

(***************************************************************************)
(* The calling convention: a procedure of n arguments may be called with   *)
(* one tuple of n words, and the other way around.                         *)
(***************************************************************************)
\* Worker::Construct.
Constructed(args) ==
    CASE Len(args) = 0 -> <<Unit>>
      [] Len(args) = 1 -> args
      [] OTHER -> << <<"tup", args>> >>

\* Worker::Deconstruct; it requests args[1] when that is a transient.
Deconstructed(args) == IF Len(args) = 1 THEN Deref(args[1])[2] ELSE args

\* The request that receiving n arguments makes first; <<>> if it makes none.
CCCRequest(n, args) ==
    IF n # 1 /\ Len(args) = 1 /\ IsTransient(args[1]) THEN args ELSE <<>>

\* The arguments as a receiver of n arguments sees them.
Converted(n, args) == CASE n = 0 -> <<>>
                        [] n = 1 -> Constructed(args)
                        [] OTHER -> Deconstructed(args)

(***************************************************************************)
(* Instructions.                                                           *)
(***************************************************************************)
\* An idRef as the substitution of procedure f has it.
LookupSubst(f, ref) == IF ref[1] = "Global" THEN Functions[f].subst[ref[2]] ELSE ref

IsLocal(ref) == ref[1] \in {"Local", "LastUseLocal"}
LocalsOf(refs) == {r[2] : r \in {x \in refs : IsLocal(x)}}
Defs(defs) == Range(defs) \ {Wildcard}

\* AbstractCode::AllIdDefsWildcards.
AllIdDefsWildcards(defs) == Defs(defs) = {}

Constructions == {"PutTag", "PutTup", "PutVec", "PutRef", "PutCon", "Close"}
Tests == {"IntTest", "RealTest", "StringTest", "CompactIntTest", "TagTest",
          "CompactTagTest", "ConTest", "VecTest"}
\* Instructions without effect in byte code (Entry and Exit, which only the
\* debugger uses, are left out).
Skips == {"Coord", "Kill"}

\* The branches of a test without the else branch: the key that is tested,
\* the idDefs the branch binds (binds is FALSE where the grammar has none).
Branch(key, binds, defs, then) ==
    [key |-> key, binds |-> binds, defs |-> defs, then |-> then]

\* The subst of a procedure that a Close makes
\* (AbstractCodeInterpreter::GetCloseConcreteCode): what is immediate in the
\* parent stays so, the others are numbered anew.
InheritSubst(parent, refs) ==
    LET Imm(i) == refs[i][1] = "Global" /\ parent[refs[i][2]][1] = "Immediate"
    IN  [i \in DOMAIN refs |->
            IF Imm(i) THEN parent[refs[i][2]]
            ELSE <<"Global", Cardinality({j \in 1..i : ~Imm(j)})>>]

\* What of the globals of a Close ends up in the closure.
ClosureOf(globals, subst) ==
    [k \in 1..Cardinality({i \in DOMAIN subst : subst[i][1] = "Global"}) |->
        globals[CHOOSE i \in DOMAIN subst : subst[i] = <<"Global", k>>]]

(***************************************************************************)
(* Liveness, as the compiler stores it with the procedure                  *)
(* (compiler/backend-seam/MkLiveness.aml).  Program points are counted from *)
(* the last instruction to the first; st.range holds the first and the     *)
(* last point at which an id occurs.                                       *)
(***************************************************************************)
NoRange == <<>>

\* lId for a set of ids at the current point.
Mark(st, ids) ==
    [st EXCEPT !.range = [id \in DOMAIN @ |->
        IF id \notin ids THEN @[id]
        ELSE IF @[id] = NoRange THEN <<st.i, st.i>> ELSE <<@[id][1], st.i>>]]

\* A new program point at which the ids occur.
Point(st, ids) == Mark([st EXCEPT !.i = @ + 1], ids)

Uses(n) ==
    LocalsOf(CASE n.op \in {"PutVar", "PutRef", "GetRef", "GetTup", "Sel", "Raise",
                            "Reraise"} -> {n.src}
               [] n.op \in {"PutTag", "PutTup", "PutVec", "Close", "AppPrim",
                            "Return"} -> Range(n.args)
               [] n.op \in {"PutCon", "AppVar"} -> Range(n.args) \cup {n.fn}
               [] n.op = "ConTest" -> {n.src} \cup {b.key : b \in Range(n.tests)}
               [] n.op \in Tests -> {n.src}
               [] OTHER -> {})

RECURSIVE lInstr(_, _)

lBranch(b, st) == IF b.binds THEN Point(lInstr(b.then, st), Defs(b.defs))
                             ELSE lInstr(b.then, st)

lInstr(n, st) ==
    CASE n.op \in {"PutVar", "GetRef", "Sel"} ->
            Point(Point(lInstr(n.next, st), {n.id}), Uses(n))
      [] n.op = "PutNew" -> Point(lInstr(n.next, st), {n.id})
      [] n.op \in Constructions ->
            Point(Point(lInstr(n.next, st), Uses(n)), {n.id})
      [] n.op \in {"AppPrim", "AppVar"} /\ n.cont # NoCont ->
            Point(Point(lInstr(n.cont.next, st), Defs(n.cont.defs)), Uses(n))
      [] n.op = "GetTup" ->
            Mark(Point(lInstr(n.next, st), Uses(n)), Defs(n.defs))
      [] n.op = "Try" ->
            lInstr(n.body, Point(lInstr(n.handler, st), Defs(n.defs)))
      [] n.op \in Tests ->
            Point(FoldRight(lBranch, n.tests, lInstr(n.els, st)), Uses(n))
      [] n.op = "Shared" ->
            IF n.stamp \in st.shared THEN st
            ELSE lInstr(n.next, [st EXCEPT !.shared = @ \cup {n.stamp}])
      [] n.op \in Skips \cup {"EndTry", "EndHandle"} -> lInstr(n.next, st)
      [] n = NoInstr -> st
      [] OTHER -> Point(st, Uses(n))           \* Raise, Reraise, Return, tail calls

\* analyze: the first and the last point at which an id is live, counted from
\* the beginning.
Liveness(f) ==
    LET F  == Functions[f]
        st == lInstr(F.body, [i |-> 0, shared |-> {},
                              range |-> [id \in Ids(f) |-> NoRange]])
        R  == Mark(st, Defs(F.args)).range
    IN  [id \in Ids(f) |-> <<st.i - R[id][2], st.i - R[id][1]>>]
=============================================================================
