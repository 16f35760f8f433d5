---------------------------- MODULE ByteCodeJitter ----------------------------
(***************************************************************************)
(* The compiler from abstract code to byte code                            *)
(* (src/alice/vm-seam/alice/ByteCodeJitter.cc): Compile(f) is the byte     *)
(* code of procedure f.                                                    *)
(*                                                                         *)
(* The state of the compiler is a record cs: the procedure f, the register *)
(* of each id (reg), currentNLocals, the code emitted so far, the scratch  *)
(* registers (scratch, topScratchReusable as top, nRegisters), the table   *)
(* of shared code, skipCCCPC, and what the last helper answered: a register *)
(* (r) or several (rs).  A byte code instruction is a record; the variants *)
(* of an instruction for a fixed number of registers, for big tags or for  *)
(* small constants are one instruction here, and jumps are absolute.       *)
(***************************************************************************)
EXTENDS AbstractCode

(***************************************************************************)
(* Registers.                                                              *)
(***************************************************************************)
\* CmpEvents: by program point, and a life starts before another one ends.
START_LIFE == 0
END_LIFE == 1
CmpEvents(a, b) == \/ a[1] < b[1]
                   \/ a[1] = b[1] /\ a[2] < b[2]
                   \/ a[1] = b[1] /\ a[2] = b[2] /\ a[3] < b[3]
Events(liveness, n) ==
    SortSeq([i \in 1..n |-> <<liveness[i - 1][1], START_LIFE, i - 1>>]
                \o [i \in 1..n |-> <<liveness[i - 1][2], END_LIFE, i - 1>>], CmpEvents)

Take(al, id, reg) ==
    [used |-> al.used \cup {reg}, freed |-> al.freed \ {reg},
     mapping |-> [al.mapping EXCEPT ![id] = reg]]

\* One event: a register that was freed is taken again, the least one first.
Allocate(al, e) ==
    IF e[2] = END_LIFE
    THEN [al EXCEPT !.used = @ \ {al.mapping[e[3]]}, !.freed = @ \cup {al.mapping[e[3]]}]
    ELSE Take(al, e[3], IF al.freed # {} THEN Min(al.freed) ELSE Cardinality(al.used))

\* RegisterAllocator::Run
RegisterAllocator(f) ==
    FoldLeft(Allocate, [used |-> {}, freed |-> {}, mapping |-> [id \in Ids(f) |-> 0]],
             Events(Liveness(f), Functions[f].nLocals))

\* What is emitted next depends on what the helpers before have answered.
Then(cs, Emits(_)) == Emits(cs)

Emit(cs, instr) == [cs EXCEPT !.code = Append(@, instr)]
PC(cs) == Len(cs.code) + 1

\* A scratch register that is reusable is given out again until one that is
\* not is taken.
TakeScratch(cs, s, reuse) ==
    [cs EXCEPT !.scratch = s, !.top = reuse, !.r = s - 1, !.nRegs = IF s > @ THEN s ELSE @]
GetNewScratch(cs, reuse) ==
    TakeScratch(cs, IF reuse /\ cs.top THEN cs.scratch ELSE cs.scratch + 1, reuse)

LoadReg(cs, dst, src) == Emit(cs, [op |-> "load_reg", dst |-> dst, src |-> src])

\* load_global, or load_immediate, load_int and load_zero
LoadConst(cs, dst, ref) ==
    Emit(cs, IF ref[1] = "Global"
             THEN [op |-> "load_global", dst |-> dst, index |-> ref[2]]
             ELSE [op |-> "load_immediate", dst |-> dst, val |-> ref[2]])

LoadRefInto(cs, dst, ref) ==
    CASE ~IsLocal(ref) -> LoadConst(cs, dst, ref)
      [] IsLocal(ref) /\ cs.reg[ref[2]] # dst -> LoadReg(cs, dst, cs.reg[ref[2]])
      [] OTHER -> cs
LoadIdRefInto(cs, dst, idRef) == LoadRefInto(cs, dst, LookupSubst(cs.f, idRef))

\* Into the register of a local or else into a new one, which is cs.r.
LoadRefKill(cs, ref, reuse) ==
    IF IsLocal(ref) THEN [cs EXCEPT !.r = cs.reg[ref[2]]]
    ELSE Then(GetNewScratch(cs, reuse), LAMBDA c : LoadConst(c, c.r, ref))
LoadIdRefKill(cs, idRef, reuse) == LoadRefKill(cs, LookupSubst(cs.f, idRef), reuse)

\* The registers of several idRefs, loaded from the first to the last or from
\* the last to the first.
AddReg(cs) == [cs EXCEPT !.rs = Append(@, cs.r)]
LoadNext(cs, idRef) == AddReg(LoadIdRefKill(cs, idRef, FALSE))
LoadUp(cs, idRefs) == FoldLeft(LoadNext, [cs EXCEPT !.rs = <<>>], idRefs)
LoadDown(cs, idRefs) == [LoadUp(cs, Reverse(idRefs)) EXCEPT !.rs = Reverse(@)]

-----------------------------------------------------------------------------
(***************************************************************************)
(* Constructions.                                                          *)
(***************************************************************************)
Dst(cs, n) == cs.reg[n.id]

\* init_tup, init_vec, init_con and init_closure for the fields in order.
Init1(cs, dst, idRef, i) ==
    Then(LoadIdRefKill(cs, idRef, TRUE), LAMBDA c :
         Emit(c, [op |-> "init", dst |-> dst, src |-> c.r, index |-> i]))
InitFields(cs, dst, idRefs, order) ==
    FoldLeft(LAMBDA c, i : Init1(c, dst, idRefs[i], i), cs, order)
Up(s) == [i \in 1..Len(s) |-> i]
Down(s) == Reverse(Up(s))

\* A tuple of unusual size that is read from the register it is built in is
\* built in another one.
BuildTup(cs, idRefs) ==
    InitFields(Emit(cs, [op |-> "new", kind |-> "tup", dst |-> cs.r,
                         size |-> Len(idRefs)]), cs.r, idRefs, Down(idRefs))
Conflict(cs, dst, idRefs) ==
    \E i \in DOMAIN idRefs : IsLocal(idRefs[i]) /\ cs.reg[idRefs[i][2]] = dst

NewTupInto(cs, dst, idRefs) ==
    CASE idRefs = <<>> -> LoadConst(cs, dst, <<"Immediate", Unit>>)
      [] Len(idRefs) \in {2, 3} ->
            Then(LoadUp(cs, idRefs), LAMBDA c :
                 Emit(c, [op |-> "new_pair", dst |-> dst, regs |-> c.rs]))
      [] Len(idRefs) \notin {0, 2, 3} /\ Conflict(cs, dst, idRefs) ->
            Then(GetNewScratch(cs, FALSE), LAMBDA c :
                 LoadReg(BuildTup(c, idRefs), dst, c.r))
      [] OTHER -> BuildTup([cs EXCEPT !.r = dst], idRefs)

\* The new tuple is in a scratch register.
NewTup(cs, idRefs) ==
    Then(GetNewScratch(cs, FALSE), LAMBDA c :
         [NewTupInto(c, c.r, idRefs) EXCEPT !.r = c.r])

InstrPutCon(cs, n) ==
    InitFields(Then(LoadIdRefKill(cs, n.fn, FALSE), LAMBDA c :
                    Emit(c, [op |-> "prepare_con", dst |-> Dst(cs, n), con |-> c.r,
                             size |-> Len(n.args)])),
               Dst(cs, n), n.args, Down(n.args))

InstrPutTag(cs, n) ==
    Then(LoadUp(cs, n.args), LAMBDA c :
         Emit(c, [op |-> "new_tagval_init", dst |-> Dst(cs, n), tag |-> n.tag,
                  regs |-> c.rs]))

InstrPutRef(cs, n) ==
    Then(LoadIdRefKill(cs, n.src, FALSE), LAMBDA c :
         Emit(c, [op |-> "new_cell", dst |-> Dst(cs, n), regs |-> <<c.r>>]))

InstrPutVec(cs, n) ==
    InitFields(Emit(cs, [op |-> "new", kind |-> "vec", dst |-> Dst(cs, n),
                         size |-> Len(n.args)]),
               Dst(cs, n), n.args, Down(n.args))

MakeClosure(cs, n, globals) ==
    IF Len(globals) \in 1..4
    THEN Then(LoadUp(cs, globals), LAMBDA c :
              Emit(c, [op |-> "mk_closure_init", dst |-> Dst(cs, n), fn |-> n.fn,
                       regs |-> c.rs]))
    ELSE InitFields(Emit(cs, [op |-> "mk_closure", dst |-> Dst(cs, n), fn |-> n.fn,
                              size |-> Len(globals)]),
                    Dst(cs, n), globals, Up(globals))
InstrClose(cs, n) == MakeClosure(cs, n, ClosureOf(n.args, Functions[n.fn].subst))

InstrPut(cs, n) ==
    CASE n.op = "PutVar" -> LoadIdRefInto(cs, Dst(cs, n), n.src)
      [] n.op = "PutNew" -> Emit(cs, [op |-> "new_con", dst |-> Dst(cs, n)])
      [] n.op = "PutTup" -> NewTupInto(cs, Dst(cs, n), n.args)
      [] n.op = "PutCon" -> InstrPutCon(cs, n)
      [] n.op = "PutTag" -> InstrPutTag(cs, n)
      [] n.op = "PutRef" -> InstrPutRef(cs, n)
      [] n.op = "PutVec" -> InstrPutVec(cs, n)
      [] n.op = "Close"  -> InstrClose(cs, n)

-----------------------------------------------------------------------------
(***************************************************************************)
(* Taking values apart.                                                    *)
(***************************************************************************)
Regs(cs, defs) ==
    [i \in DOMAIN defs |-> IF defs[i] = Wildcard THEN Wildcard ELSE cs.reg[defs[i]]]

Await(cs, reg) == Emit(cs, [op |-> "await", src |-> reg])

\* One field of the value in register cs.r, which is saved when it is still
\* needed: as long as least is not reached.
SaveReg(cs) == Then(GetNewScratch(cs, FALSE), LAMBDA c : LoadReg(c, c.r, cs.r))
LoadField(cs, op, defs, least, i) ==
    IF defs[i] = Wildcard THEN cs
    ELSE Then(IF cs.reg[defs[i]] = cs.r /\ i >= least THEN SaveReg(cs) ELSE cs, LAMBDA c :
              Emit(c, [op |-> op, dst |-> cs.reg[defs[i]], src |-> c.r, index |-> i]))

\* The fields of the value in register src, the last one first.
LoadFieldsFrom(cs, op, src, defs, least) ==
    FoldLeft(LAMBDA c, i : LoadField(c, op, defs, least, i), [cs EXCEPT !.r = src],
             Down(defs))
LoadFields(cs, op, src, defs) == LoadFieldsFrom(cs, op, src, defs, 2)

\* Two or three fields at once.
LoadAll(cs, op, src, defs) ==
    Emit(cs, [op |-> op, regs |-> Regs(cs, defs), src |-> src])
NoWildcards(defs) == Wildcard \notin Range(defs)

LoadTuple(cs, src, defs) ==
    CASE AllIdDefsWildcards(defs) -> Await(cs, src)
      [] Len(defs) \in {2, 3} /\ NoWildcards(defs) -> LoadAll(cs, "get_tup", src, defs)
      [] OTHER -> LoadFields(cs, "select_tup", src, defs)

LoadTagVal(cs, src, defs) ==
    IF Len(defs) \in {2, 3} /\ NoWildcards(defs)
    THEN LoadAll(cs, "load_tagvals", src, defs)
    ELSE LoadFields(cs, "load_tagval", src, defs)

\* The fields of the tuple in register src go to size new scratch registers.
NewScratches(cs, size) ==
    FoldLeft(LAMBDA c, i : AddReg(GetNewScratch(c, FALSE)), [cs EXCEPT !.rs = <<>>],
             [i \in 1..size |-> i])
SelectField(cs, src, i) ==
    Emit(cs, [op |-> "select_tup", dst |-> cs.rs[i], src |-> src, index |-> i])
GetFirst(cs, src, n) ==
    Emit(cs, [op |-> "get_tup", src |-> src, regs |-> SubSeq(cs.rs, 1, n)])
SelectRest(cs, src) ==
    FoldLeft(LAMBDA c, i : SelectField(c, src, i), cs,
             SelectSeq(Down(cs.rs), LAMBDA i : i > 3))
LoadTupleIntoScratch(cs, src, size) ==
    GetFirst(SelectRest(NewScratches(cs, size), src), src, IF size < 3 THEN size ELSE 3)

GetFrom(cs, n) ==
    CASE n.op = "GetRef" ->
            Emit(cs, [op |-> "load_cell", dst |-> Dst(cs, n), src |-> cs.r, index |-> 1])
      [] n.op = "Sel" ->
            Emit(cs, [op |-> "select_tup", dst |-> Dst(cs, n), src |-> cs.r,
                      index |-> n.idx])
      [] n.op = "GetTup" -> LoadTuple(cs, cs.r, n.defs)
InstrGet(cs, n) == GetFrom(LoadIdRefKill(cs, n.src, FALSE), n)

-----------------------------------------------------------------------------
(***************************************************************************)
(* The calling convention.                                                 *)
(***************************************************************************)
\* CompileCCC: results of a call, or the arguments of the procedure.  Without
\* the conversion where the number of words is known.
ReceiveArgs(cs, defs, match) ==
    IF (defs = <<>> /\ match) \/ defs = <<Wildcard>> THEN cs
    ELSE Emit(cs, [op |-> IF match THEN "get_args" ELSE "ccc", regs |-> Regs(cs, defs)])
CompileCCC(cs, defs, outArity) ==
    ReceiveArgs(cs, defs, outArity # Unknown /\ Len(defs) = outArity)

\* CompileInlineCCC for as many arguments as formal arguments.  The
\* assignment is simultaneous: it is split into chains of registers that are
\* executed one register after the other.  definedBy holds what each register
\* receives, usedBy the register that receives the value of a register (of
\* several the last one).
Assigned(formals) == {i \in DOMAIN formals : formals[i] # Wildcard}
Stays(reg, formals, args) ==
    {i \in Assigned(formals) : IsLocal(args[i]) /\ reg[args[i][2]] = reg[formals[i]]}
Moves(reg, formals, args) ==
    {i \in Assigned(formals) : IsLocal(args[i]) /\ reg[args[i][2]] # reg[formals[i]]}

DefinedBy(reg, formals, args, I) ==
    [d \in {reg[formals[i]] : i \in I} |-> args[CHOOSE i \in I : reg[formals[i]] = d]]
UsedBy(reg, formals, args, I) ==
    [s \in {reg[args[i][2]] : i \in I} |->
        reg[formals[Max({i \in I : reg[args[i][2]] = s})]]]

\* The registers that receive the value of key, then the value of that ...
RECURSIVE UseChain(_, _, _)
UseChain(usedBy, key, dst) ==
    IF key \notin DOMAIN usedBy THEN <<>>
    ELSE <<usedBy[key]>> \o
         (IF usedBy[key] = dst THEN <<>> ELSE UseChain(usedBy, usedBy[key], dst))

\* The registers whose values key receives, where ref is what it receives;
\* the last element is the idRef that is no register of the assignment.  A
\* chain of more than n registers never ends.
RECURSIVE DefChain(_, _, _, _)
DefChain(reg, definedBy, ref, n) ==
    CASE n = 0 -> << <<"Overrun">> >>
      [] n > 0 /\ IsLocal(ref) /\ reg[ref[2]] \in DOMAIN definedBy ->
            <<reg[ref[2]]>> \o DefChain(reg, definedBy, definedBy[reg[ref[2]]], n - 1)
      [] OTHER -> <<ref>>

\* The code for one chain.
SwapChain(cs, use) ==
    FoldLeft(LAMBDA c, id : Emit(c, [op |-> "swap_regs", dst |-> Last(use), src |-> id]),
             cs, Front(use))
LoadChain(cs, regs) ==
    FoldLeft(LAMBDA c, j : LoadReg(c, regs[j], regs[j + 1]), cs, Up(Front(regs)))
LoadLeaf(cs, dst, ref) ==
    IF ref[1] = "Overrun" THEN Emit(cs, [op |-> "overrun"]) ELSE LoadIdRefInto(cs, dst, ref)

\* One formal argument; a.visited are the registers that need no chain.
Assign(a, use, def, dst) ==
    CASE dst \in a.visited -> a
      [] dst \notin a.visited /\ use # <<>> /\ Last(use) = dst ->
            [cs |-> SwapChain(a.cs, use), visited |-> a.visited \cup Range(use)]
      [] OTHER ->
            [cs |-> LoadLeaf(LoadChain(a.cs, Reverse(use) \o <<dst>> \o Front(def)),
                             Last(<<dst>> \o Front(def)), Last(def)),
             visited |-> a.visited \cup {dst} \cup Range(use) \cup Range(Front(def))]
AssignNext(a, dst, definedBy, usedBy, n) ==
    IF dst \notin DOMAIN definedBy THEN a
    ELSE Assign(a, UseChain(usedBy, dst, dst),
                DefChain(a.cs.reg, definedBy, definedBy[dst], n), dst)

AssignAll(cs, formals, stay, definedBy, usedBy) ==
    FoldLeft(LAMBDA a, id : AssignNext(a, cs.reg[id], definedBy, usedBy, Len(formals)),
             [cs |-> cs, visited |-> stay],
             SelectSeq(formals, LAMBDA id : id # Wildcard)).cs
\* Mutant of CompileAssignment: one register after the other, without chains.
CompileAssignmentInOrder(cs, formals, args) ==
    FoldLeft(LAMBDA c, i : LoadIdRefInto(c, c.reg[formals[i]], args[i]), cs,
             SelectSeq(Up(formals), LAMBDA i : formals[i] # Wildcard))
CompileAssignment(cs, formals, args) ==
    AssignAll(cs, formals, {cs.reg[formals[i]] : i \in Stays(cs.reg, formals, args)},
              DefinedBy(cs.reg, formals, args,
                        Assigned(formals) \ Stays(cs.reg, formals, args)),
              UsedBy(cs.reg, formals, args, Moves(cs.reg, formals, args)))

\* One tuple for several formal arguments.
CompileUntuple(cs, formals) == LoadFieldsFrom(cs, "select_tup", cs.r, formals, 1)

CompileInlineCCC(cs, formals, args) ==
    CASE formals = <<Wildcard>> -> cs
      [] formals # <<Wildcard>> /\ Len(formals) = 1 /\ Len(args) = 1 ->
            LoadIdRefInto(cs, cs.reg[formals[1]], args[1])
      [] formals # <<Wildcard>> /\ Len(formals) = 1 /\ Len(args) # 1 ->
            NewTupInto(cs, cs.reg[formals[1]], args)
      [] formals = <<>> /\ Len(args) = 1 ->
            Then(LoadIdRefKill(cs, args[1], FALSE), LAMBDA c : Await(c, c.r))
      [] Len(formals) > 1 /\ Len(args) = 1 ->
            CompileUntuple(LoadIdRefKill(cs, args[1], FALSE), formals)
      [] OTHER -> CompileAssignment(cs, formals, args)

-----------------------------------------------------------------------------
(***************************************************************************)
(* Calls.                                                                  *)
(***************************************************************************)
EmitCall(cs, call, tail, fields) ==
    Emit(cs, [op |-> call, tail |-> tail, regs |-> cs.rs] @@ fields)

\* The conversion for a primitive of in arguments, then the call.
\* Mutant of OneReg: every primitive is taken to need its argument.
OneRegAwait(cs) == Await([cs EXCEPT !.rs = <<cs.r>>], cs.r)
OneReg(cs) == [cs EXCEPT !.rs = <<cs.r>>]
PrimArgs(cs, in, args) ==
    CASE in = 0 /\ args = <<>> -> [cs EXCEPT !.rs = <<>>]
      [] in = 0 /\ args # <<>> ->
            [Then(LoadIdRefKill(cs, args[1], FALSE), LAMBDA c : Await(c, c.r))
                EXCEPT !.rs = <<>>]
      [] in = 1 /\ Len(args) = 1 -> OneReg(LoadIdRefKill(cs, args[1], FALSE))
      [] in = 1 /\ Len(args) # 1 -> OneReg(NewTup(cs, args))
      [] in > 1 /\ Len(args) = 1 ->
            Then(LoadIdRefKill(cs, args[1], FALSE), LAMBDA c :
                 LoadTupleIntoScratch(c, c.r, in))
      [] OTHER -> LoadDown(cs, args)
CompileApplyPrimitive(cs, e, args, tail) ==
    EmitCall(PrimArgs(cs, Externals[e].in, args), "seam_prim_call", tail, [prim |-> e])

CompileSelfCall(cs, n, tail) ==
    IF tail THEN Emit(CompileInlineCCC(cs, Functions[cs.f].args, n.args),
                      [op |-> "jump", target |-> cs.skip])
    ELSE EmitCall(LoadDown(cs, n.args), "self_call", FALSE, <<>>)

\* A call of a closure that is known when the code is compiled
CompileApplyImmediate(cs, clo, args, tail) ==
    EmitCall(LoadDown(cs, args), "immediate_call", tail, [val |-> clo])

\* The standard call: the closure is in a register.
CompileApply(cs, n, tail) ==
    Then(LoadIdRefKill(LoadDown(cs, n.args), n.fn, FALSE), LAMBDA c :
         EmitCall(c, "seam_call", tail, [clo |-> c.r]))

InstrAppPrim(cs, n) ==
    IF n.cont = NoCont THEN CompileApplyPrimitive(cs, n.prim, n.args, TRUE)
    ELSE CompileCCC(CompileApplyPrimitive(cs, n.prim, n.args, FALSE),
                    n.cont.defs, Externals[n.prim].out)

\* ExtractImmediate
ImmediateOf(ref) == IF ref[1] = "Immediate" THEN ref[2] ELSE Junk
ExtractImmediate(cs, idRef) == ImmediateOf(LookupSubst(cs.f, idRef))

\* A self call, a call of a known closure or of a primitive, or a standard call.
ApplyVar(cs, n, clo, tail) ==
    CASE Kind(clo) = "clo" /\ clo[2] = cs.f -> CompileSelfCall(cs, n, tail)
      [] Kind(clo) = "clo" /\ clo[2] # cs.f ->
            CompileApplyImmediate(cs, clo, n.args, tail)
      [] Kind(clo) = "ext" -> CompileApplyPrimitive(cs, clo[2], n.args, tail)
      [] OTHER -> CompileApply(cs, n, tail)
OutArity(clo) == CASE Kind(clo) = "clo" -> Functions[clo[2]].out
                   [] Kind(clo) = "ext" -> Externals[clo[2]].out
                   [] OTHER -> Unknown
InstrAppVar(cs, n) ==
    IF n.cont = NoCont THEN ApplyVar(cs, n, ExtractImmediate(cs, n.fn), TRUE)
    ELSE CompileCCC(ApplyVar(cs, n, ExtractImmediate(cs, n.fn), FALSE),
                    n.cont.defs, OutArity(ExtractImmediate(cs, n.fn)))

\* A single integer is returned without a register.
InstrReturn(cs, n) ==
    IF Len(n.args) = 1 /\ Kind(ExtractImmediate(cs, n.args[1])) = "int"
    THEN Emit(cs, [op |-> "seam_return_int", val |-> ExtractImmediate(cs, n.args[1])])
    ELSE Then(LoadDown(cs, n.args), LAMBDA c :
              Emit(c, [op |-> "seam_return", regs |-> c.rs]))

InstrRaise(cs, n) ==
    Then(LoadIdRefKill(cs, n.src, FALSE), LAMBDA c :
         Emit(c, [op |-> IF n.op = "Raise" THEN "raise" ELSE "reraise", src |-> c.r]))

-----------------------------------------------------------------------------
(***************************************************************************)
(* Code with several successors.                                           *)
(***************************************************************************)
OPTIMIZE_TAGTEST_LEVEL == 10

\* The order in which the branches are compiled.
Nullary(tests) == SelectSeq(tests, LAMBDA b : ~b.binds)
Nary(tests) == SelectSeq(tests, LAMBDA b : b.binds)
IsFastTest(n) == Len(n.tests) * OPTIMIZE_TAGTEST_LEVEL > n.maxTag
BranchOrder(n) ==
    CASE n.op = "TagTest" /\ IsFastTest(n) ->
            Reverse(Nullary(n.tests)) \o Reverse(Nary(n.tests))
      [] n.op = "TagTest" /\ ~IsFastTest(n) ->
            Nullary(n.tests) \o Reverse(Nary(n.tests))
      [] n.op = "ConTest" -> Nullary(n.tests) \o Nary(n.tests)
      [] OTHER -> n.tests

Key(n, b) == IF n.op = "VecTest" THEN Len(b.defs) ELSE b.key

\* The code that a test at address p selects for a branch begins here.
Target(cs, p, key) ==
    [cs EXCEPT !.code[p].table = Append(@, <<key, PC(cs)>>)]

\* The fields that the branch binds are loaded from register src.
Bind(cs, n, src, b) ==
    CASE ~b.binds -> cs
      [] b.binds /\ n.op = "VecTest" -> LoadFields(cs, "load_vec", src, b.defs)
      [] b.binds /\ n.op = "ConTest" -> LoadFields(cs, "load_con", src, b.defs)
      [] OTHER -> LoadTagVal(cs, src, b.defs)

RECURSIVE CompileInstr(_, _)

\* The else branch comes first, right behind the test at address p.
CompileBranch(cs, n, src, p, b) ==
    CompileInstr(Bind(Target(cs, p, Key(n, b)), n, src, b), b.then)
CompileTests(cs, n) ==
    FoldLeft(LAMBDA c, b : CompileBranch(c, n, cs.r, PC(cs), b),
             CompileInstr(Emit(cs, [op |-> "test", kind |-> n.op, src |-> cs.r,
                                    table |-> <<>>]), n.els),
             BranchOrder(n))
CompileTest(cs, n) == CompileTests(LoadIdRefKill(cs, n.src, FALSE), n)

\* The instruction at address p jumps to here.
PatchTarget(cs, p) == [cs EXCEPT !.code[p].target = PC(cs)]

\* Each constructor has a test of its own, which jumps behind the branch.
CompileConTest(cs, n, src, b) ==
    PatchTarget(CompileInstr(Bind(Emit(cs, [op |-> "contest", src |-> src, con |-> cs.r,
                                            target |-> 0]), n, src, b), b.then), PC(cs))
CompileConTests(cs, n) ==
    FoldLeft(LAMBDA c, b : CompileConTest(LoadIdRefKill(c, b.key, TRUE), n, cs.r, b),
             cs, BranchOrder(n))

\* The handler begins behind the body.  A package or an exception that is not
\* used goes to a scratch register.
HandlerReg(cs, def) ==
    AddReg(IF def = Wildcard THEN GetNewScratch(cs, FALSE) ELSE [cs EXCEPT !.r = cs.reg[def]])
CompileBody(cs, n) ==
    PatchTarget(CompileInstr(Emit(cs, [op |-> "install_handler", regs |-> cs.rs,
                                       target |-> 0]), n.body), PC(cs))
CompileTry(cs, n) ==
    CompileBody(FoldLeft(HandlerReg, [cs EXCEPT !.rs = <<>>], n.defs), n)

IsShared(cs, n) == \E i \in DOMAIN cs.shared : cs.shared[i][1] = n.stamp
SharedPC(cs, n) == cs.shared[SelectInSeq(cs.shared, LAMBDA s : s[1] = n.stamp)][2]

\* The single constructor of a datatype needs no test.
IsOnly(n) == n.op = "CompactTagTest" /\ Len(n.tests) = 1 /\ n.els = NoInstr
CompileOnly(cs, n) ==
    Then(LoadIdRefKill(cs, n.src, FALSE), LAMBDA c :
         Bind(Await(c, c.r), n, c.r, n.tests[1]))

\* The loop of CompileInstr: scratch registers are free again at each
\* instruction.
RECURSIVE CompileFrom(_, _)
Compile1(cs, n) ==
    CASE n.op \in Skips -> CompileFrom(cs, n.next)
      [] n.op \in Constructions \cup {"PutVar", "PutNew"} ->
            CompileFrom(InstrPut(cs, n), n.next)
      [] n.op \in {"GetRef", "Sel", "GetTup"} -> CompileFrom(InstrGet(cs, n), n.next)
      [] n.op = "AppPrim" -> CompileFrom(InstrAppPrim(cs, n), n.cont.next)
      [] n.op = "AppVar" -> CompileFrom(InstrAppVar(cs, n), n.cont.next)
      [] n.op \in {"EndTry", "EndHandle"} ->
            CompileFrom(Emit(cs, [op |-> "remove_handler"]), n.next)
      [] n.op = "Try" -> CompileFrom(CompileTry(cs, n), n.handler)
      [] n.op = "ConTest" -> 
            CompileFrom(CompileConTests(LoadIdRefKill(cs, n.src, FALSE), n), n.els)
      [] n.op \in Tests \ {"ConTest"} /\ IsOnly(n) ->
            CompileFrom(CompileOnly(cs, n), n.tests[1].then)
      [] n.op \in Tests \ {"ConTest"} /\ ~IsOnly(n) -> CompileTest(cs, n)
      [] n.op = "Shared" /\ IsShared(cs, n) ->
            Emit(cs, [op |-> "jump", target |-> SharedPC(cs, n)])
      [] n.op = "Shared" /\ ~IsShared(cs, n) ->
            CompileFrom([cs EXCEPT !.shared = Append(@, <<n.stamp, PC(cs)>>)], n.next)
      [] n.op \in {"Raise", "Reraise"} -> InstrRaise(cs, n)
      [] n.op = "Return" -> InstrReturn(cs, n)
CompileFrom(cs, n) ==
    IF n = NoInstr THEN cs
    ELSE Compile1([cs EXCEPT !.scratch = cs.nLocals, !.top = FALSE], n)

\* The scratch registers of the caller are kept, but not topScratchReusable.
CompileInstr(cs, n) == [CompileFrom(cs, n) EXCEPT !.scratch = cs.scratch]

\* ByteCodeJitter::Compile.  The procedure itself begins at skip.
Start(f, al) ==
    [f |-> f, reg |-> al.mapping, nLocals |-> Cardinality(al.freed), code |-> <<>>,
     scratch |-> Cardinality(al.freed), top |-> FALSE, nRegs |-> Cardinality(al.freed),
     shared |-> <<>>, skip |-> 0, r |-> 0, rs |-> <<>>]
Compile(f) ==
    Then(CompileCCC(Start(f, RegisterAllocator(f)), Functions[f].args, Unknown), LAMBDA c :
         Then(CompileInstr([c EXCEPT !.skip = PC(c)], Functions[f].body), LAMBDA d :
              [code |-> d.code, nRegs |-> d.nRegs]))
=============================================================================
