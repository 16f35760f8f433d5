------------------------- MODULE ByteCodeInterpreter -------------------------
(***************************************************************************)
(* The interpreter of byte code                                            *)
(* (src/alice/vm-seam/alice/ByteCodeInterpreter.cc, ByteCodeFrame.hh): one *)
(* action for each group of instructions.  An instruction that needs the   *)
(* value of a transient requests it and is executed again afterwards.      *)
(***************************************************************************)
EXTENDS AbstractCodeInterpreter, ByteCodeJitter

\* ByteCodeFrame: registers are numbered from 0.
ByteCodeFrame(t, clo) ==
    [worker |-> "byte", clo |-> clo, pc |-> 1,
     regs |-> [r \in 0..(t.code[clo[2]].nRegs - 1) |-> Unit]]

Instr(k) == m[k].code[Top(k).clo[2]].code[Top(k).pc]
AtByte(k, ops) == Running(k, "byte") /\ Instr(k).op \in ops

SetReg(fr, dst, w) == [fr EXCEPT !.regs[dst] = w]
SetRegs(fr, dsts, ws) ==
    [fr EXCEPT !.regs = [r \in DOMAIN @ |->
        IF r \in Range(dsts) THEN ws[CHOOSE i \in DOMAIN dsts : dsts[i] = r] ELSE @[r]]]
GetRegs(fr, regs) == [i \in DOMAIN regs |-> fr.regs[regs[i]]]

Advance(fr) == [fr EXCEPT !.pc = @ + 1]
JumpTo(fr, pc) == [fr EXCEPT !.pc = pc]

\* The next instruction in the changed frame.
Step(k, fr) == Become(k, WithTop(m[k], fr))

\* What an instruction does with the word w, once it is not a transient.
Needs(k, w, fr) == \/ IsTransient(w) /\ RequestAgain(k, w)
                   \/ ~IsTransient(w) /\ Step(k, fr)

\* ccc0, ccc1, seam_ccc1, cccn, seam_cccn
Ccc(k) ==
    /\ AtByte(k, {"ccc"})
    /\ \E n \in {Len(Instr(k).regs)} :
          \/ CCCRequest(n, m[k].args) # <<>> /\ Request(k, m[k].args[1])
          \/ /\ CCCRequest(n, m[k].args) = <<>>
             /\ \E args \in {Converted(n, m[k].args)} :
                  Become(k, WithTop([m[k] EXCEPT !.args = args],
                                    Advance(SetRegs(Top(k), Instr(k).regs, args))))

\* get_arg0, get_args and their direct forms
GetArgs(k) ==
    /\ AtByte(k, {"get_args"})
    /\ Step(k, Advance(SetRegs(Top(k), Instr(k).regs, m[k].args)))

\* The arguments of a call are in the registers regs; a tail call pops the frame.
WithArgs(k) == [m[k] EXCEPT !.args = GetRegs(Top(k), Instr(k).regs)]
LeaveByte(k, t) == IF Instr(k).tail THEN PopFrame(t) ELSE WithTop(t, Advance(Top(k)))

SeamCall(k) ==
    /\ AtByte(k, {"seam_call"})
    /\ \E clo \in {Top(k).regs[Instr(k).clo]} :
          \/ \* a tail call of the closure itself keeps the frame
             /\ Instr(k).tail /\ Deref(clo) = Top(k).clo
             /\ Become(k, WithTop(WithArgs(k), JumpTo(Top(k), 1)))
          \/ /\ ~(Instr(k).tail /\ Deref(clo) = Top(k).clo)
             /\ Become(k, PushCall(LeaveByte(k, WithArgs(k)), clo))

\* immediate_call, rewrite_call and bci_call
ImmediateCall(k) ==
    /\ AtByte(k, {"immediate_call"})
    /\ Become(k, PushCall(LeaveByte(k, WithArgs(k)), Instr(k).val))

SelfCall(k) ==
    /\ AtByte(k, {"self_call"})
    /\ Become(k, [LeaveByte(k, WithArgs(k))
                    EXCEPT !.stack = Append(@, ByteCodeFrame(m[k], Top(k).clo))])

\* The primitive is executed in a frame of its own.
PrimFrame(e) == [worker |-> "prim", ext |-> e]
SeamPrimCall(k) ==
    /\ AtByte(k, {"seam_prim_call"})
    /\ Become(k, [LeaveByte(k, WithArgs(k))
                    EXCEPT !.stack = Append(@, PrimFrame(Instr(k).prim))])

SeamReturn(k) ==
    /\ AtByte(k, {"seam_return"})
    /\ Become(k, PopFrame(WithArgs(k)))
SeamReturnInt(k) ==
    /\ AtByte(k, {"seam_return_int"})
    /\ Become(k, PopFrame([m[k] EXCEPT !.args = <<Instr(k).val>>]))

\* Constructions from registers: new_pair, new_triple, new_tagval_init,
\* new_cell, mk_closure_init.
MadeFrom(n, ws) == CASE n.op = "new_pair" -> <<"tup", ws>>
                     [] n.op = "new_cell" -> <<"cell", ws[1]>>
                     [] n.op = "new_tagval_init" -> <<"tag", n.tag, ws>>
                     [] n.op = "mk_closure_init" -> <<"clo", n.fn, ws>>
Make(k) ==
    /\ AtByte(k, {"new_pair", "new_cell", "new_tagval_init", "mk_closure_init"})
    /\ Step(k, Advance(SetReg(Top(k), Instr(k).dst,
                              MadeFrom(Instr(k), GetRegs(Top(k), Instr(k).regs)))))

NewCon(k) ==
    /\ AtByte(k, {"new_con"})
    /\ Become(k, WithTop([m[k] EXCEPT !.cons = @ + 1],
                         Advance(SetReg(Top(k), Instr(k).dst, <<"con", m[k].cons>>))))

\* Constructions field by field: new_tup, new_vec, mk_closure, prepare_con,
\* then init_tup, init_vec, init_closure, init_con.
Empty(n) == [i \in 1..n |-> Junk]
New(k) ==
    /\ AtByte(k, {"new", "mk_closure"})
    /\ Step(k, Advance(SetReg(Top(k), Instr(k).dst,
           IF Instr(k).op = "new" THEN <<Instr(k).kind, Empty(Instr(k).size)>>
                                  ELSE <<"clo", Instr(k).fn, Empty(Instr(k).size)>>)))

PrepareCon(k) ==
    /\ AtByte(k, {"prepare_con"})
    /\ \E con \in {Top(k).regs[Instr(k).con]} :
          Needs(k, con, Advance(SetReg(Top(k), Instr(k).dst,
                            <<"conval", Deref(con), Empty(Instr(k).size)>>)))

InitField(w, i, v) == IF Kind(w) \in {"conval", "clo"} THEN [w EXCEPT ![3][i] = v]
                                                       ELSE [w EXCEPT ![2][i] = v]
InitInstr(k) ==
    /\ AtByte(k, {"init"})
    /\ \E i \in {Instr(k)} :
          Step(k, Advance(SetReg(Top(k), i.dst,
                     InitField(Top(k).regs[i.dst], i.index, Top(k).regs[i.src]))))

\* select_tup, get_tup2, get_tup3, load_cell
Field(n, w) == IF n.op = "load_cell" THEN w[2] ELSE Fields(w)[n.index]
Select(k) ==
    /\ AtByte(k, {"select_tup", "load_cell"})
    /\ \E w \in {Top(k).regs[Instr(k).src]} :
          Needs(k, w, Advance(SetReg(Top(k), Instr(k).dst, Field(Instr(k), Deref(w)))))
GetTup(k) ==
    /\ AtByte(k, {"get_tup"})
    /\ \E w \in {Top(k).regs[Instr(k).src]} :
          Needs(k, w, Advance(SetRegs(Top(k), Instr(k).regs, Fields(Deref(w)))))

\* load_tagval, load_con, load_vec: the value was tested before.
LoadFieldInstr(k) ==
    /\ AtByte(k, {"load_tagval", "load_con", "load_vec"})
    /\ \E i \in {Instr(k)} :
          Step(k, Advance(SetReg(Top(k), i.dst, Field(i, Deref(Top(k).regs[i.src])))))
LoadTagVals(k) ==
    /\ AtByte(k, {"load_tagvals"})
    /\ Step(k, Advance(SetRegs(Top(k), Instr(k).regs,
                               Fields(Deref(Top(k).regs[Instr(k).src])))))

AwaitInstr(k) ==
    /\ AtByte(k, {"await"})
    /\ Needs(k, Top(k).regs[Instr(k).src], Advance(Top(k)))

\* jump, check_preempt_jump
Jump(k) ==
    /\ AtByte(k, {"jump"})
    /\ Step(k, JumpTo(Top(k), Instr(k).target))

\* itest, citest, ijump_eq, rtest, rjump_eq, stest, sjump_eq, vectest, tagtest,
\* tagtest1, ctagtest, ctagtest_direct
TestKey(n, w) == IF n.kind = "VecTest" THEN Len(w[2]) ELSE w[2]
TestTarget(fr, n, w) ==
    LET i == SelectInSeq(n.table, LAMBDA t : t[1] = TestKey(n, w))
    IN  IF i = 0 THEN fr.pc + 1 ELSE n.table[i][2]
TestInstr(k) ==
    /\ AtByte(k, {"test"})
    /\ \E w \in {Top(k).regs[Instr(k).src]} :
          Needs(k, w, JumpTo(Top(k), TestTarget(Top(k), Instr(k), Deref(w))))

\* Both the value and the constructor are requested.
Contest(k) ==
    /\ AtByte(k, {"contest"})
    /\ \E w \in {Top(k).regs[Instr(k).src]}, con \in {Top(k).regs[Instr(k).con]} :
          \/ IsTransient(w) /\ RequestAgain(k, w)
          \/ /\ ~IsTransient(w)
             /\ Needs(k, con, IF ConOf(Deref(w)) = Deref(con) THEN Advance(Top(k))
                              ELSE JumpTo(Top(k), Instr(k).target))

\* load_global, load_immediate, load_int, load_zero, load_reg
Loaded(fr, n) == CASE n.op = "load_reg" -> fr.regs[n.src]
                   [] n.op = "load_global" -> fr.clo[3][n.index]
                   [] n.op = "load_immediate" -> n.val
Load(k) ==
    /\ AtByte(k, {"load_reg", "load_global", "load_immediate"})
    /\ Step(k, Advance(SetReg(Top(k), Instr(k).dst, Loaded(Top(k), Instr(k)))))
SwapRegs(k) ==
    /\ AtByte(k, {"swap_regs"})
    /\ Step(k, Advance(SetRegs(Top(k), <<Instr(k).dst, Instr(k).src>>,
                               GetRegs(Top(k), <<Instr(k).src, Instr(k).dst>>))))

InstallHandler(k) ==
    /\ AtByte(k, {"install_handler"})
    /\ Become(k, WithTop(PushHandler(m[k], Instr(k).target, Instr(k).regs),
                         Advance(Top(k))))
RemoveHandler(k) ==
    /\ AtByte(k, {"remove_handler"})
    /\ Become(k, WithTop(PopHandler(m[k]), Advance(Top(k))))

RaiseByte(k) ==
    /\ AtByte(k, {"raise"})
    /\ \E w \in {Top(k).regs[Instr(k).src]} :
          \/ IsTransient(w) /\ RequestAgain(k, w)
          \/ ~IsTransient(w) /\ Become(k, Raise(m[k], w))
ReraiseByte(k) ==
    /\ AtByte(k, {"reraise"})
    /\ Become(k, Raise(m[k], Top(k).regs[Instr(k).src][2][1]))

RunByte(k) ==
    \/ Ccc(k) \/ GetArgs(k) \/ SeamCall(k) \/ ImmediateCall(k) \/ SelfCall(k)
    \/ SeamPrimCall(k) \/ SeamReturn(k) \/ SeamReturnInt(k) \/ Make(k) \/ NewCon(k)
    \/ New(k) \/ PrepareCon(k) \/ InitInstr(k) \/ Select(k) \/ GetTup(k)
    \/ LoadFieldInstr(k) \/ LoadTagVals(k) \/ AwaitInstr(k) \/ Jump(k)
    \/ TestInstr(k) \/ Contest(k) \/ Load(k) \/ SwapRegs(k) \/ InstallHandler(k)
    \/ RemoveHandler(k) \/ RaiseByte(k) \/ ReraiseByte(k)

\* ByteCodeInterpreter::Handle
ByteHandle(fr, h, package) ==
    JumpTo(SetRegs(fr, h.defs, <<package, package[2][1]>>), h.pc)
=============================================================================
