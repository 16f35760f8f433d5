------------------------------ MODULE MCHotSpot ------------------------------
(***************************************************************************)
(* Programs for HotSpot: families of small procedures that between them    *)
(* hold every instruction and the forms of its operands that the compiler  *)
(* treats differently, and calls that pass and return more, fewer and as   *)
(* many words as are expected.                                             *)
(***************************************************************************)
EXTENDS HotSpot

CONSTANT Form   \* "regular": all programs but those of the two forms for which
                \* compiled code has another outcome.  "sharing" adds self calls
                \* that use a register which they change in several others,
                \* "scratch" ConTests whose value and whose next constructor
                \* get the same scratch register.

ASSUME FormAssumption == Form \in {"regular", "sharing", "scratch"}

\* Operands.
L(i) == <<"Local", i>>
U(i) == <<"LastUseLocal", i>>
G(i) == <<"Global", i>>
I(w) == <<"Immediate", w>>
N(n) == <<"int", n>>
Tup(ws) == <<"tup", ws>>

\* Instructions.
Return_(args) == [op |-> "Return", args |-> args]
Put_(op, id, args, next) == [op |-> op, id |-> id, args |-> args, next |-> next]
Tag_(id, tag, args, next) ==
    [op |-> "PutTag", id |-> id, tag |-> tag, args |-> args, next |-> next]
Con_(id, fn, args, next) ==
    [op |-> "PutCon", id |-> id, fn |-> fn, args |-> args, next |-> next]
Close_(id, fn, args, next) ==
    [op |-> "Close", id |-> id, fn |-> fn, args |-> args, next |-> next]
One_(op, id, src, next) == [op |-> op, id |-> id, src |-> src, next |-> next]
New_(id, next) == [op |-> "PutNew", id |-> id, next |-> next]
Sel_(id, src, idx, next) ==
    [op |-> "Sel", id |-> id, src |-> src, idx |-> idx, next |-> next]
GetTup_(defs, src, next) == [op |-> "GetTup", defs |-> defs, src |-> src, next |-> next]
Cont_(defs, next) == [defs |-> defs, next |-> next]
App_(fn, args, cont) == [op |-> "AppVar", fn |-> fn, args |-> args, cont |-> cont]
Prim_(prim, args, cont) == [op |-> "AppPrim", prim |-> prim, args |-> args, cont |-> cont]
Raise_(op, src) == [op |-> op, src |-> src]
Try_(body, defs, handler) ==
    [op |-> "Try", body |-> body, defs |-> defs, handler |-> handler]
End_(op, next) == [op |-> op, next |-> next]
Shared_(stamp, next) == [op |-> "Shared", stamp |-> stamp, next |-> next]
Kill_(ids, next) == [op |-> "Kill", ids |-> ids, next |-> next]
Coord_(next) == [op |-> "Coord", next |-> next]
Test_(op, src, tests, els) ==
    [op |-> op, src |-> src, tests |-> tests, els |-> els, maxTag |-> 3]
Case_(key, then) == Branch(key, FALSE, <<>>, then)
Bind_(key, defs, then) == Branch(key, TRUE, defs, then)

Function(args, subst, out, nLocals, body) ==
    [args |-> args, subst |-> subst, out |-> out, nLocals |-> nLocals, body |-> body]

-----------------------------------------------------------------------------
(***************************************************************************)
(* Primitives: 1 answers its argument, 2 its two arguments, 3 fails, 4     *)
(* takes none, 5 needs its argument, 6 takes four.                         *)
(***************************************************************************)
P(in, out, strict, raises) ==
    [in |-> in, out |-> out, strict |-> strict, raises |-> raises]
MCExternals == << P(1, 1, FALSE, FALSE), P(2, 2, FALSE, FALSE), P(1, 1, FALSE, TRUE),
                  P(0, 0, FALSE, FALSE), P(1, 1, TRUE, FALSE), P(4, 1, FALSE, FALSE) >>

\* t is a pair, u unit, v a value of a datatype, c a procedure, k a constructor.
MCFutures == {"t", "u", "v", "c", "k"}
F(f) == <<"fut", f>>
MCFutValues == [f \in MCFutures |->
    CASE f = "t" -> {Tup(<<N(7), N(8)>>), <<"failed", <<"str", 1>>>>}
      [] f = "u" -> {Unit}
      [] f = "v" -> {N(0), N(2), <<"tag", 1, <<N(4), N(5)>>>>}
      [] f = "c" -> {<<"clo", 2, <<>>>>, <<"failed", <<"str", 2>>>>}
      [] f = "k" -> {<<"con", 9>>}]

\* A program: a procedure with its globals, called with args while the
\* transients of open are not bound yet.  Self stands for its own closure.
\* left: how often the procedure and those it calls are still interpreted.
Self == <<"self">>
Program(fn, globals, args, open, left) ==
    [fn |-> fn, globals |-> globals, args |-> args, open |-> open, left |-> left]
FutOf(open) ==
    [x \in MCFutures |-> IF x \in open THEN Unbound
                         ELSE CHOOSE w \in MCFutValues[x] : Kind(w) # "failed"]
Compiled_ == <<0, 0>>
Mixed == {<<0, 1>>, <<1, 0>>}

-----------------------------------------------------------------------------
(***************************************************************************)
(* Procedures that are called: each reports its arguments and returns them. *)
(* The last ones have one, two or five globals.                            *)
(***************************************************************************)
Callee(args, n) ==
    Function(args, <<>>, n, n,
             Prim_(1, [i \in 1..n |-> L(i - 1)],
                   Cont_(<<Wildcard>>, Return_([i \in 1..n |-> L(i - 1)]))))
Inner(subst) ==
    Function(<<0>>, subst, Unknown, 1, Return_(<<L(0)>> \o [i \in DOMAIN subst |-> G(i)]))
Callees == << Callee(<<>>, 0), Callee(<<0>>, 1), Callee(<<0, 1>>, 2),
              Callee(<<0, Wildcard>>, 1), Callee(<<0, 1, 2>>, 3),
              Callee(<<Wildcard, 0, 1>>, 2), Inner(<<>>), Inner(<<G(1)>>),
              Inner(<<I(N(5)), G(1), G(2)>>), Inner([i \in 1..5 |-> G(i)]) >>

\* A caller has the pair t in local 0 and unit in local 1.  It calls with
\* words, with one tuple, with words for one tuple, or with nothing for unit.
CallArgs == { <<1, <<>>>>, <<1, <<L(1)>>>>, <<2, <<L(0)>>>>, <<2, <<>>>>,
              <<2, <<L(1), I(N(2))>>>>, <<2, <<L(0), I(N(2)), L(1), L(0)>>>>,
              <<3, <<L(1), L(0)>>>>, <<3, <<L(0)>>>>, <<4, <<L(0)>>>>,
              <<5, <<L(1), I(N(2)), L(0)>>>>, <<6, <<L(0), L(1), L(0)>>>> }

\* The results go to the caller of the caller, into one local, or into several.
One == Cont_(<<2>>, Return_(<<L(0), L(2)>>))
Two == {Cont_(<<2, 3>>, Return_(<<L(3), L(2), L(1)>>)),
        Cont_(<<Wildcard, 2>>, Return_(<<L(2)>>))}
None == Cont_(<<>>, Return_(<<I(N(1))>>))
Results(c) ==
    {NoCont, One}
    \cup (IF c[1] \in {3, 6} \/ c = <<2, <<L(0)>>>> THEN Two ELSE {})
    \cup (IF c[1] = 1 \/ c = <<2, <<>>>> THEN {None} ELSE {})
Size(cont) == 2 + Cardinality(Defs(cont.defs))

\* The procedure is known when the caller is compiled, or it is a global of
\* the caller and may be a transient.
Caller(c, cont, ref) ==
    Function(<<0, 1>>, <<ref>>, Unknown, Size(cont), App_(G(1), c[2], cont))
TU == <<F("t"), F("u")>>
Callers ==
    UNION {{Program(Caller(c, r, I(<<"clo", c[1], <<>>>>)), <<>>, TU, {o}, Compiled_) :
               r \in Results(c), o \in {"t", "u"}} : c \in CallArgs}
    \cup UNION {{Program(Caller(c, r, G(1)), << <<"clo", c[1], <<>>>> >>, TU, {"t"}, l) :
                    r \in Results(c), l \in Mixed} : c \in CallArgs}
    \cup {Program(Caller(<<2, <<L(0)>>>>, r, G(1)), <<F("c")>>, TU, {"c"}, Compiled_) :
               r \in Results(<<2, <<L(0)>>>>)}

\* Primitives, as an instruction, as a known value and as a global.
PrimCalls ==
    ({ <<1, <<L(0)>>>>, <<1, <<>>>>, <<1, <<L(1), L(0)>>>>, <<3, <<L(1)>>>>,
       <<5, <<L(0)>>>>, <<6, <<L(0), L(1), I(N(3)), L(0)>>>>,
       <<6, <<I(Tup(<<N(1), N(2), N(3), N(4)>>))>>>> } \X {NoCont, One})
    \cup ({ <<2, <<L(0)>>>>, <<2, <<L(1), L(0)>>>> } \X ({NoCont, One} \cup Two))
    \cup ({ <<4, <<>>>>, <<4, <<L(1)>>>> } \X {NoCont, One, None})
PrimCallers ==
    {Program(Function(<<0, 1>>, <<>>, Unknown, Size(pc[2]),
                      Prim_(pc[1][1], pc[1][2], pc[2])), <<>>, TU, {"t"}, Compiled_) :
         pc \in PrimCalls}
    \cup {Program(Caller(pc[1], pc[2], I(<<"ext", pc[1][1]>>)), <<>>, TU, {"u"}, Compiled_) :
         pc \in PrimCalls}
    \cup {Program(Caller(pc[1], NoCont, G(1)), << <<"ext", pc[1][1]>> >>, TU, {}, Compiled_) :
         pc \in PrimCalls}

-----------------------------------------------------------------------------
(***************************************************************************)
(* Procedures that call themselves.                                        *)
(***************************************************************************)
SelfFn(args, nLocals, body) == Function(args, <<I(Self)>>, Unknown, nLocals, body)
Until(stop, key, result, again) ==
    Test_("IntTest", L(stop), <<Case_(key, Return_(result))>>, again)

\* Local 0 says whether to go on; 1, 2 and 3 are assigned at the same time,
\* from each other, from a constant and from a tuple that was just made.
Sources == {L(1), L(2), L(3), L(4), I(N(5))}
\* A local that changes is used in several others.
SharesSource(a) ==
    \E i \in 1..4 : /\ i = 4 \/ a[i] # L(i)
                    /\ \E j, k \in 1..3 : j # k /\ a[j] = L(i) /\ a[k] = L(i)
Permute(a) ==
    SelfFn(<<0, 1, 2, 3>>, 5,
           Until(0, 0, <<L(1), L(2), L(3)>>,
                 Put_("PutTup", 4, <<L(1), L(2)>>,
                     App_(G(1), <<I(N(0)), a[1], a[2], a[3]>>, NoCont))))
Assignments ==
    {Program(Permute(a), <<>>, <<N(1), N(2), N(3), N(4)>>, {}, Compiled_) :
        a \in {x \in Sources \X Sources \X Sources :
                 SharesSource(x) => Form = "sharing"}}

SelfCalls ==
    LET Loop(fn, args, open) ==
            {Program(fn, <<>>, args, open, l) : l \in {<<0, 0>>, <<1, 0>>}}
        Quad == Tup(<<N(1), N(2), N(3), N(4)>>)
    IN  \* one tuple for two arguments
        Loop(SelfFn(<<0, 1>>, 2, Until(0, 7, <<L(0), L(1)>>, App_(G(1), <<L(1)>>, NoCont))),
             <<N(1), F("t")>>, {"t"})
        \cup Loop(SelfFn(<<0, 1, Wildcard>>, 2,
                         Until(0, 7, <<L(1)>>,
                               App_(G(1), <<I(Tup(<<N(7), N(8), N(9)>>))>>, NoCont))),
                  <<N(1), N(2), N(3)>>, {})
        \* two, four and no arguments for one
        \cup Loop(SelfFn(<<0>>, 3,
                         GetTup_(<<1, 2>>, L(0),
                             Until(1, 0, <<L(0)>>, App_(G(1), <<I(N(0)), L(2)>>, NoCont)))),
                  <<F("t")>>, {"t"})
        \cup Loop(SelfFn(<<0>>, 4,
                         GetTup_(<<1, Wildcard, 2, 3>>, L(0),
                             Until(1, 0, <<L(0), L(2), L(3)>>,
                                   App_(G(1), <<I(N(0)), L(0), L(2), L(3)>>, NoCont)))),
                  <<Quad>>, {})
        \cup Loop(SelfFn(<<0>>, 1, Until(0, 0, <<L(0)>>, App_(G(1), <<>>, NoCont))),
                  <<N(1)>>, {})
        \* unit for no arguments, for ever
        \cup Loop(SelfFn(<<>>, 0, App_(G(1), <<I(F("u"))>>, NoCont)), <<>>, {"u"})
        \* one future for several arguments that are not used, for ever
        \cup Loop(SelfFn(<<Wildcard, Wildcard>>, 0, App_(G(1), <<I(F("t"))>>, NoCont)),
                  <<N(1), N(2)>>, {"t"})
        \cup Loop(SelfFn(<<Wildcard>>, 0, App_(G(1), <<I(N(1))>>, NoCont)), <<N(1)>>, {})
        \* no tail call
        \cup UNION {Loop(SelfFn(<<0, 1>>, 2 + Len(c.defs),
                         Until(0, 0, <<L(1), I(N(3))>>, App_(G(1), <<I(N(0)), L(1)>>, c))),
                         <<N(1), F("t")>>, {"t"}) :
                   c \in {Cont_(<<2>>, Return_(<<L(2), L(1)>>)),
                          Cont_(<<2, 3>>, Return_(<<L(3), L(1), L(2)>>))}}
        \* through an argument
        \cup Loop(Function(<<0, 1>>, <<>>, Unknown, 2,
                           Until(1, 0, <<I(N(6))>>, App_(L(0), <<L(0), I(N(0))>>, NoCont))),
                  <<Self, N(1)>>, {})

-----------------------------------------------------------------------------
(***************************************************************************)
(* Tests.  The value is an argument, a constant or a transient; the fields *)
(* go to locals that may take the register of the value.                   *)
(***************************************************************************)
Out(i) == Return_(<<I(N(i))>>)
LocalsIn(n) == UNION {Defs(b.defs) : b \in Range(n.tests)}
TestOf(n, w, open) ==
    Program(Function(<<0>>, <<G(1)>>, Unknown, Cardinality(LocalsIn(n) \cup {0}), n),
            <<w>>, <<w>>, open, Compiled_)
Fields2 == { << <<1, 2>>, <<L(2), L(1)>> >>, << <<1, Wildcard>>, <<L(1)>> >>,
             << <<Wildcard, 1>>, <<L(0), L(1)>> >>, << <<1, 2>>, <<L(1), L(2), L(0)>> >> }

ValueTests ==
    UNION {{TestOf(Test_(k[1], L(0), <<Case_(k[3], Out(1)), Case_(0, Out(2))>>, Out(3)),
                   <<k[2], i>>, {}) : i \in {0, 2, 3}} :
           k \in {<<"IntTest", "int", 2>>, <<"CompactIntTest", "int", 1>>,
                  <<"RealTest", "real", 2>>, <<"StringTest", "str", 2>>}}
    \cup {TestOf(Test_("CompactIntTest", G(1), <<Case_(0, Return_(<<L(0)>>))>>, Out(3)),
                 F("u"), {"u"})}
TagTests ==
    {TestOf([Test_(op, src, <<Case_(0, Out(1)), Bind_(1, d[1], Return_(d[2])),
                              Case_(2, Out(2))>>, els) EXCEPT !.maxTag = max],
            F("v"), {"v"}) :
        op \in {"TagTest", "CompactTagTest"}, src \in {L(0), G(1)}, d \in Fields2,
        els \in {Out(3)}, max \in {3, 40}}
    \cup {TestOf(Test_("CompactTagTest", src, <<Bind_(1, d[1], Return_(d[2]))>>, NoInstr),
                 <<"tag", 1, <<N(4), F("u")>>>>, {"u"}) : src \in {L(0), G(1)}, d \in Fields2}
    \cup {TestOf(Test_("TagTest", L(0), <<Bind_(0, <<1>>, Return_(<<L(1)>>)),
                        Bind_(3, <<1, 2, Wildcard, 3>>, Return_(<<L(3), L(2), L(1)>>))>>, Out(3)),
                 w, {}) :
            w \in {<<"tag", 0, <<N(4)>>>>, <<"tag", 3, <<N(4), N(5), N(6), N(7)>>>>, N(2)}}
VecTests ==
    {TestOf(Test_("VecTest", src, <<Bind_(0, <<>>, Out(1)), Bind_(0, d[1], Return_(d[2]))>>,
        Out(2)),
            <<"vec", ws>>, {}) :
        src \in {L(0), G(1)}, d \in Fields2,
        ws \in {<<>>, <<N(4), N(5)>>, <<N(4), N(5), N(6)>>}}

\* Constructors: 1 has no fields, 2 has two; a transient for a third.
ConTests ==
    {TestOf(Test_("ConTest", src, <<Bind_(I(<<"con", 2>>), d[1], Return_(d[2])),
                                    Case_(I(<<"con", 1>>), Out(1))>>, Out(2)), w, {}) :
        src \in {L(0), G(1)}, d \in Fields2,
        w \in {<<"con", 1>>, <<"con", 3>>, <<"conval", <<"con", 2>>, <<N(4), N(5)>>>>,
               <<"conval", <<"con", 3>>, <<N(4), N(5)>>>>}}
    \cup {TestOf(Test_("ConTest", L(0), <<Bind_(I(<<"con", 2>>), <<1>>, Return_(<<L(1)>>)),
                                          Bind_(I(F("k")), <<1>>, Return_(<<L(1), L(0)>>))>>,
                                              Out(2)),
                 <<"conval", <<"con", n>>, <<N(4)>>>>, {"k"}) : n \in {2, 9}}
    \cup {TestOf(Test_("ConTest", L(0), <<Case_(I(<<"con", 9>>), Out(1))>>, Out(2)), F("k"), {"k"})}
    \* the transient is the constructor of a branch of the other arity
    \cup {TestOf(Test_("ConTest", L(0), <<Bind_(I(<<"con", 2>>), <<1>>, Return_(<<L(1)>>)),
                                          Case_(I(F("k")), Out(1))>>, Out(2)), w, {"k"}) :
            w \in {<<"conval", <<"con", 2>>, <<N(4)>>>>, <<"conval", <<"con", 3>>, <<N(4)>>>>,
                   <<"con", 9>>, <<"con", 3>>}}
    \cup {TestOf(Test_("ConTest", L(0), <<Bind_(I(F("k")), <<1>>, Return_(<<L(1)>>)),
                                          Case_(I(<<"con", 1>>), Out(1))>>, Out(2)), w, {"k"}) :
            w \in {<<"con", 1>>, <<"con", 3>>, <<"conval", <<"con", 9>>, <<N(4)>>>>}}

\* The value is in a scratch register, and the first constructor in that of a
\* local.  A branch that ends by building a tuple of four says that the last
\* scratch register may be given out again.
ScratchTests ==
    {Program(Function(<<0, 1>>, <<G(1)>>, Unknown, 2,
                Test_("ConTest", G(1), <<Case_(L(0), then), Case_(I(<<"con", 1>>), Out(1))>>,
                      Out(2))),
             << <<"con", n>> >>, << <<"con", 2>>, N(4) >>, {}, Compiled_) :
        n \in {1, 2, 3},
        then \in {Out(3)} \cup (IF Form # "scratch" THEN {}
                   ELSE {Prim_(1, <<L(0), I(N(2)), L(1), L(0)>>, NoCont)})}

\* Both branches go on with the same code.
SharedTests ==
    {Program(Function(<<0, 1>>, <<>>, Unknown, 3,
                Test_("IntTest", L(0),
                      <<Case_(0, One_("PutVar", 2, L(1), Shared_(1, Return_(<<L(2), L(1)>>))))>>,
                      Put_("PutTup", 2, <<L(0), L(1)>>, Shared_(1, Return_(<<L(2), L(1)>>))))),
             <<>>, <<w, F("t")>>, {"t"}, Compiled_) : w \in {N(0), N(1)}}

-----------------------------------------------------------------------------
(***************************************************************************)
(* Constructions, and taking the values apart again.                       *)
(***************************************************************************)
Fn2(nLocals, body) == Function(<<0, 1>>, <<>>, Unknown, nLocals, body)
Rest(nLocals, body, open) == Program(Fn2(nLocals, body), <<>>, TU, open, Compiled_)
Operands == {<<>>, <<L(0)>>, <<L(0), L(1)>>, <<L(1), I(N(3)), L(0)>>,
             <<I(N(3)), L(0), I(N(4)), L(1)>>}
Result == Return_(<<L(2), L(0), L(1)>>)
Last2 == Coord_(Kill_({0}, Return_(<<L(2)>>)))
ConstructionsOf(args, next) ==
    {Put_("PutTup", 2, args, next), Put_("PutVec", 2, args, next),
     Tag_(2, 1, args, next), Con_(2, I(F("k")), args, next)}
Constructing ==
    {Rest(3, n, {"k"}) :
        n \in UNION {ConstructionsOf(args, next) : args \in Operands \ {<<>>, <<L(0)>>},
                                                   next \in {Result, Last2}}}
    \cup {Rest(3, n, {}) : n \in {Put_("PutTup", 2, <<>>, Result),
        Put_("PutTup", 2, <<L(0)>>, Result),
                                  Put_("PutVec", 2, <<>>, Result),
                                  Put_("PutTup", 2, <<U(0), U(1)>>, Last2),
                                  One_("PutVar", 2, U(0), Return_(<<L(2), L(1)>>))}}
    \cup {Rest(4, One_("PutRef", 2, L(0), One_("GetRef", 3, L(2), Return_(<<L(3), L(1)>>))), {"t"}),
          Rest(4, New_(2, Con_(3, L(2), <<L(0)>>,
                  Test_("ConTest", L(3), <<Bind_(L(2), <<Wildcard>>, Return_(<<L(1)>>))>>,
                      Out(1)))), {}),
          Rest(3, Sel_(2, L(0), 2, Return_(<<L(2), L(1)>>)), {"t"}),
          Rest(3, Sel_(2, L(0), 1, Return_(<<L(2)>>)), {"t"}),
          Rest(2, GetTup_(<<>>, L(1), Return_(<<L(0)>>)), {"u"}),
          Rest(2, GetTup_(<<Wildcard, Wildcard>>, L(0), Return_(<<L(1)>>)), {"t"})}
    \cup {Rest(4, GetTup_(d, L(0), Return_(<<L(3), L(2)>>)), {"t"}) : d \in {<<2, 3>>, <<3, 2>>}}
    \cup {Rest(3, GetTup_(d, L(0), Return_(<<L(2), L(1)>>)), {"t"}) :
            d \in {<<2, Wildcard>>, <<Wildcard, 2>>}}

\* The closures of procedures with no, one, two and five globals.
Closures ==
    {Program([Fn2(3, Close_(2, c[1], c[2], App_(L(2), <<L(1)>>, NoCont)))
                 EXCEPT !.subst = <<I(N(5)), G(1)>>], <<N(6)>>, TU, {}, l) :
        c \in {<<7, <<>>>>, <<8, <<L(0)>>>>, <<9, <<G(1), L(1), L(0)>>>>,
               <<10, <<L(0), L(1), G(2), L(1), L(0)>>>>},
        l \in {Compiled_, <<0, 1>>}}

-----------------------------------------------------------------------------
(***************************************************************************)
(* Exceptions: the failing primitive 3, the failed transient t, raise.     *)
(***************************************************************************)
Drop(p, args, next) == Prim_(p, args, Cont_(<<Wildcard>>, next))
Bodies == {Drop(3, <<L(1)>>, End_("EndTry", Out(1))), Drop(5, <<L(0)>>, End_("EndTry", Out(1))),
           End_("EndTry", Return_(<<L(0)>>)), Raise_("Raise", L(0)),
               Raise_("Raise", I(<<"str", 2>>))}
Trying ==
    {Rest(2, Try_(b, <<Wildcard, Wildcard>>, End_("EndHandle", Return_(<<L(1)>>))), {"t"}) :
        b \in Bodies}
    \cup {Rest(3, Try_(b, <<Wildcard, 2>>, End_("EndHandle", Return_(<<L(2), L(1)>>))), {"t"}) :
        b \in Bodies}
    \cup {Rest(4, Try_(b, <<2, 3>>, End_("EndHandle", Drop(1, <<L(3)>>, Raise_("Reraise", L(2))))),
        {"t"}) :
        b \in Bodies}
    \cup {Rest(3, Try_(Drop(3, <<L(1)>>, End_("EndTry", Out(1))), <<Wildcard, 2>>,
                       Raise_("Raise", L(2))), {})}
    \* the handler of a handler; a value that only the outer handler needs
    \cup {Rest(5, Put_("PutTup", 2, <<L(1), L(0)>>,
                  Try_(Try_(Put_("PutTup", 3, <<L(0), L(0)>>, Drop(3, <<L(3)>>,
                      End_("EndTry", End_("EndTry", Out(1))))),
                            <<Wildcard, Wildcard>>, h),
                       <<Wildcard, 4>>, End_("EndHandle", Return_(<<L(2), L(4)>>)))), {"t"}) :
            h \in {Raise_("Raise", L(0)),
                End_("EndHandle", Drop(3, <<L(1)>>, End_("EndTry", Out(2)))),
                   End_("EndHandle", End_("EndTry", Out(3)))}}
    \* an exception leaves the procedure that is called
    \cup {Program([Fn2(3, Try_(App_(G(1), <<L(0), L(1)>>,
        Cont_(<<2>>, End_("EndTry", Return_(<<L(2)>>)))),
                               <<Wildcard, Wildcard>>, End_("EndHandle", Return_(<<L(1)>>))))
                     EXCEPT !.subst = <<G(1)>>], << <<"ext", 3>> >>, TU, {}, Compiled_),
          Rest(2, Prim_(3, <<L(1)>>, NoCont), {})}

-----------------------------------------------------------------------------
RECURSIVE Listed(_)
Listed(S) == IF S = {} THEN <<>>
             ELSE LET x == CHOOSE x \in S : TRUE IN Append(Listed(S \ {x}), x)

Programs == Listed(Callers) \o Listed(PrimCallers) \o Listed(Assignments)
            \o Listed(SelfCalls) \o Listed(ValueTests) \o Listed(TagTests)
            \o Listed(VecTests) \o Listed(ConTests) \o Listed(ScratchTests)
            \o Listed(SharedTests)
            \o Listed(Constructing) \o Listed(Closures) \o Listed(Trying)
Own(i) == Len(Callees) + i
MCFunctions ==
    LET ps == Programs IN
    Callees \o [i \in 1..Len(ps) |->
        [ps[i].fn EXCEPT !.subst = [j \in DOMAIN @ |->
            IF @[j] = I(Self) THEN I(<<"clo", Own(i), <<>>>>) ELSE @[j]]]]
MCEntries ==
    LET ps == Programs IN
    {[clo |-> <<"clo", Own(i), ps[i].globals>>,
      args |-> [j \in DOMAIN ps[i].args |->
                  IF ps[i].args[j] = Self THEN <<"clo", Own(i), <<>>>> ELSE ps[i].args[j]],
      left |-> [f \in DOMAIN Callees \cup {Own(i)} |-> ps[i].left[IF f = Own(i) THEN 1 ELSE 2]],
      fut |-> FutOf(ps[i].open)] : i \in 1..Len(ps)}
=============================================================================
