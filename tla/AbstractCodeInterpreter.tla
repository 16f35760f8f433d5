----------------------- MODULE AbstractCodeInterpreter -----------------------
(***************************************************************************)
(* One thread that executes Alice procedures, and the interpreter of       *)
(* abstract code (src/alice/vm-seam/alice/AbstractCodeInterpreter.cc,      *)
(* AbstractCodeFrame.hh).                                                  *)
(*                                                                         *)
(* The same program runs in several machines, each a thread of its own: m[k] *)
(* is machine k.  Its fields: stack (the task stack, a sequence of frames), *)
(* handlers (the handler stack), args (Scheduler::currentArgs), mode (what *)
(* the scheduler does next: run the top frame, call data, raise data, wait *)
(* for the transient data; or how the thread ended), data, trace (the calls *)
(* of primitives so far), cons (constructors made so far), left (how often *)
(* each procedure is still interpreted before it is compiled).             *)
(***************************************************************************)
EXTENDS AbstractCode

CONSTANT Machines

VARIABLE m

Top(k) == m[k].stack[Len(m[k].stack)]
Ended(k) == m[k].mode \in {"return", "uncaught"}
Running(k, worker) ==
    m[k].mode = "run" /\ m[k].stack # <<>> /\ Top(k).worker = worker

WithTop(t, fr) == [t EXCEPT !.stack[Len(t.stack)] = fr]
PopFrame(t) == [t EXCEPT !.stack = Front(@)]
PushCall(t, w) == [t EXCEPT !.mode = "call", !.data = w]
Become(k, t) == m' = [m EXCEPT ![k] = t]

\* Worker::RAISE and Worker::RERAISE
Raise(t, exn) == [t EXCEPT !.mode = "raise", !.data = exn]

\* Worker::REQUEST; the instruction or the conversion is executed again.
Request(k, w) == Become(k, [m[k] EXCEPT !.mode = "request", !.data = w])

\* The REQUEST of an instruction, which also forgets the arguments.
RequestAgain(k, w) ==
    Become(k, [m[k] EXCEPT !.mode = "request", !.data = w, !.args = <<>>])

\* Scheduler::PushHandler for the top frame
PushHandler(t, pc, defs) ==
    [t EXCEPT !.handlers = Append(@, [depth |-> Len(t.stack), pc |-> pc,
                                      defs |-> defs, trying |-> TRUE])]
PopHandler(t) == [t EXCEPT !.handlers = Front(@)]

-----------------------------------------------------------------------------
(***************************************************************************)
(* Frames.  formal holds the idDefs that the next entry binds (entry), pc  *)
(* is the instruction.                                                     *)
(***************************************************************************)
AbstractCodeFrame(clo) ==
    [worker |-> "abstract", clo |-> clo, pc |-> Functions[clo[2]].body,
     locals |-> [id \in Ids(clo[2]) |-> Junk],
     formal |-> Functions[clo[2]].args, entry |-> TRUE]

\* GetIdRef: an idRef after the substitution of the procedure.
Value(fr, ref) == CASE ref[1] = "Immediate" -> ref[2]
                    [] IsLocal(ref) -> fr.locals[ref[2]]
                    [] OTHER -> fr.clo[3][ref[2]]
GetIdRef(fr, ref) == Value(fr, LookupSubst(fr.clo[2], ref))

\* KillIdRef for a set of idRefs, and Kill.
KillLocals(fr, ids) ==
    [fr EXCEPT !.locals = [id \in DOMAIN @ |-> IF id \in ids THEN Unit ELSE @[id]]]
KillIdRefs(fr, refs) ==
    KillLocals(fr, {r[2] : r \in {x \in refs : x[1] = "LastUseLocal"}})

\* GetIdRefKill for each of refs, the last one first.
GetIdRefs(fr, refs) ==
    [i \in DOMAIN refs |->
        GetIdRef(KillIdRefs(fr, {refs[j] : j \in (i + 1)..Len(refs)}), refs[i])]

SetLocal(fr, id, w) == [fr EXCEPT !.locals[id] = w]
SetLocals(fr, defs, ws) ==
    [fr EXCEPT !.locals = [id \in DOMAIN @ |->
        IF id \in Range(defs)
        THEN ws[CHOOSE i \in DOMAIN defs : defs[i] = id] ELSE @[id]]]

Goto(fr, n) == [fr EXCEPT !.pc = n]

\* What the interpreter saves for the return of a call.
Continue(fr, cont) ==
    [fr EXCEPT !.pc = cont.next, !.formal = cont.defs, !.entry = TRUE]

-----------------------------------------------------------------------------
(***************************************************************************)
(* AbstractCodeInterpreter::Run.  First the conversion of the arguments,   *)
(* then one action for each kind of instruction.                           *)
(***************************************************************************)
EnterFrame(k) ==
    /\ Running(k, "abstract") /\ Top(k).entry
    /\ CCCRequest(Len(Top(k).formal), m[k].args) = <<>>
    /\ \E args \in {Converted(Len(Top(k).formal), m[k].args)} :
          Become(k, WithTop([m[k] EXCEPT !.args = args],
                            [SetLocals(Top(k), Top(k).formal, args)
                                EXCEPT !.entry = FALSE, !.formal = <<>>]))

\* The arguments stay for the next attempt.
EnterRequest(k) ==
    /\ Running(k, "abstract") /\ Top(k).entry
    /\ CCCRequest(Len(Top(k).formal), m[k].args) # <<>>
    /\ Request(k, m[k].args[1])

At(k, ops) == Running(k, "abstract") /\ ~Top(k).entry /\ Top(k).pc.op \in ops

\* The word that a construction makes of the words ws.
Made(n, ws) ==
    CASE n.op = "PutVar" -> ws[1]
      [] n.op = "PutRef" -> <<"cell", ws[1]>>
      [] n.op = "PutTag" -> <<"tag", n.tag, ws>>
      [] n.op = "PutTup" -> IF ws = <<>> THEN Unit ELSE <<"tup", ws>>
      [] n.op = "PutVec" -> <<"vec", ws>>

PutRefs(n) == IF n.op \in {"PutVar", "PutRef"} THEN <<n.src>> ELSE n.args

Put(k) ==
    /\ At(k, {"PutVar", "PutRef", "PutTag", "PutTup", "PutVec"})
    /\ \E n \in {Top(k).pc} :
          Become(k, WithTop(m[k],
              Goto(SetLocal(KillIdRefs(Top(k), Range(PutRefs(n))), n.id,
                            Made(n, GetIdRefs(Top(k), PutRefs(n)))), n.next)))

\* Each execution makes another constructor.
PutNew(k) ==
    /\ At(k, {"PutNew"})
    /\ Become(k, WithTop([m[k] EXCEPT !.cons = @ + 1],
                         Goto(SetLocal(Top(k), Top(k).pc.id, <<"con", m[k].cons>>),
                              Top(k).pc.next)))

PutCon(k) ==
    /\ At(k, {"PutCon"})
    /\ \E n \in {Top(k).pc}, con \in {GetIdRef(Top(k), Top(k).pc.fn)} :
          \/ IsTransient(con) /\ RequestAgain(k, con)
          \/ /\ ~IsTransient(con)
             /\ \E fr \in {KillIdRefs(Top(k), {n.fn})} :
                  Become(k, WithTop(m[k],
                      Goto(SetLocal(KillIdRefs(fr, Range(n.args)), n.id,
                                    <<"conval", Deref(con), GetIdRefs(fr, n.args)>>),
                           n.next)))

\* The globals are read in the order of the closure.
Close(k) ==
    /\ At(k, {"Close"})
    /\ \E n \in {Top(k).pc} :
          Become(k, WithTop(m[k],
              Goto(SetLocal(KillIdRefs(Top(k), Range(n.args)), n.id,
                            <<"clo", n.fn,
                              ClosureOf(Reverse(GetIdRefs(Top(k), Reverse(n.args))),
                                        Functions[n.fn].subst)>>), n.next)))

\* What the instructions that take a value apart find in it.
Fields(w) == IF Kind(w) \in {"tag", "conval"} THEN w[3] ELSE w[2]

Selected(n, w) == CASE n.op = "GetRef" -> << w[2] >>
                    [] n.op = "Sel" -> << w[2][n.idx] >>
                    [] n.defs = <<>> -> <<>>
                    [] OTHER -> Fields(w)

Get(k) ==
    /\ At(k, {"GetRef", "Sel", "GetTup"})
    /\ \E n \in {Top(k).pc}, w \in {GetIdRef(Top(k), Top(k).pc.src)} :
          \/ IsTransient(w) /\ RequestAgain(k, w)
          \/ /\ ~IsTransient(w)
             /\ Become(k, WithTop(m[k],
                    Goto(SetLocals(KillIdRefs(Top(k), {n.src}),
                                   IF n.op = "GetTup" THEN n.defs ELSE <<n.id>>,
                                   Selected(n, Deref(w))), n.next)))

\* The branch of a test that a value selects.
Matches(n, b, w) ==
    CASE n.op = "VecTest" -> Len(b.defs) = Len(w[2])
      [] n.op \in {"TagTest", "CompactTagTest"} ->
            w[2] = b.key /\ b.binds = (Kind(w) = "tag")
      [] OTHER -> w[2] = b.key

Test(k) ==
    /\ At(k, Tests \ {"ConTest"})
    /\ \E n \in {Top(k).pc}, w \in {GetIdRef(Top(k), Top(k).pc.src)} :
          \/ IsTransient(w) /\ RequestAgain(k, w)
          \/ /\ ~IsTransient(w)
             /\ \E i \in {SelectInSeq(n.tests, LAMBDA b : Matches(n, b, Deref(w)))} :
                  Become(k, WithTop(m[k],
                      IF i = 0 THEN Goto(KillIdRefs(Top(k), {n.src}), n.els)
                      ELSE Goto(SetLocals(KillIdRefs(Top(k), {n.src}), n.tests[i].defs,
                                          Fields(Deref(w))), n.tests[i].then)))

\* The constructors of the branches for values of the same arity are
\* requested one after the other; where none is the one of the value, the
\* value stays in its local.
ConOf(w) == IF Kind(w) = "conval" THEN w[2] ELSE w

ConTest(k) ==
    /\ At(k, {"ConTest"})
    /\ \E fr \in {Top(k)}, n \in {Top(k).pc}, w \in {GetIdRef(Top(k), Top(k).pc.src)} :
          \/ IsTransient(w) /\ RequestAgain(k, w)
          \/ /\ ~IsTransient(w)
             /\ \E i \in {SelectInSeq(n.tests, LAMBDA b :
                             /\ b.binds = (Kind(Deref(w)) = "conval")
                             /\ \/ IsTransient(GetIdRef(fr, b.key))
                                \/ Deref(GetIdRef(fr, b.key)) = ConOf(Deref(w)))} :
                  \/ i = 0 /\ Become(k, WithTop(m[k], Goto(fr, n.els)))
                  \/ /\ i # 0 /\ IsTransient(GetIdRef(fr, n.tests[i].key))
                     /\ RequestAgain(k, GetIdRef(fr, n.tests[i].key))
                  \/ /\ i # 0 /\ ~IsTransient(GetIdRef(fr, n.tests[i].key))
                     /\ Become(k, WithTop(m[k],
                            Goto(KillIdRefs(SetLocals(fr, n.tests[i].defs,
                                                      Fields(Deref(w))), {n.src}),
                                 n.tests[i].then)))

\* A call: the frame waits for the results, or it is popped first.
Leave(t, fr, cont) == IF cont = NoCont THEN PopFrame(t)
                                       ELSE WithTop(t, Continue(fr, cont))

AppPrim(k) ==
    /\ At(k, {"AppPrim"})
    /\ \E n \in {Top(k).pc} :
          Become(k, PushCall(Leave([m[k] EXCEPT !.args = GetIdRefs(Top(k), n.args)],
                                   KillIdRefs(Top(k), Range(n.args)), n.cont),
                             <<"ext", n.prim>>))

AppVar(k) ==
    /\ At(k, {"AppVar"})
    /\ \E n \in {Top(k).pc}, fr \in {KillIdRefs(Top(k), Range(Top(k).pc.args))} :
          Become(k, PushCall(Leave([m[k] EXCEPT !.args = GetIdRefs(Top(k), n.args)],
                                   KillIdRefs(fr, {n.fn}), n.cont),
                             GetIdRef(fr, n.fn)))

RaiseInstr(k) ==
    /\ At(k, {"Raise"})
    /\ \E w \in {GetIdRef(Top(k), Top(k).pc.src)} :
          \/ IsTransient(w) /\ RequestAgain(k, w)
          \/ ~IsTransient(w) /\ Become(k, Raise(m[k], w))

\* The word is a package, which is never a transient.
ReraiseInstr(k) ==
    /\ At(k, {"Reraise"})
    /\ Become(k, Raise(m[k], GetIdRef(Top(k), Top(k).pc.src)[2][1]))

TryInstr(k) ==
    /\ At(k, {"Try"})
    /\ \E n \in {Top(k).pc} :
          Become(k, WithTop(PushHandler(m[k], n.handler, n.defs), Goto(Top(k), n.body)))

EndTry(k) ==
    /\ At(k, {"EndTry", "EndHandle"})
    /\ Become(k, WithTop(PopHandler(m[k]), Goto(Top(k), Top(k).pc.next)))

Skip(k) ==
    /\ At(k, {"Coord", "Shared"})
    /\ Become(k, WithTop(m[k], Goto(Top(k), Top(k).pc.next)))

Kill(k) ==
    /\ At(k, {"Kill"})
    /\ Become(k, WithTop(m[k], Goto(KillLocals(Top(k), Top(k).pc.ids), Top(k).pc.next)))

Return(k) ==
    /\ At(k, {"Return"})
    /\ Become(k, PopFrame([m[k] EXCEPT !.args = GetIdRefs(Top(k), Top(k).pc.args)]))

RunAbstract(k) ==
    \/ EnterFrame(k) \/ EnterRequest(k) \/ Put(k) \/ PutNew(k) \/ PutCon(k)
    \/ Close(k) \/ Get(k) \/ Test(k) \/ ConTest(k) \/ AppPrim(k) \/ AppVar(k)
    \/ RaiseInstr(k) \/ ReraiseInstr(k) \/ TryInstr(k) \/ EndTry(k) \/ Skip(k)
    \/ Kill(k) \/ Return(k)

\* AbstractCodeInterpreter::Handle
AbstractHandle(fr, h) ==
    [fr EXCEPT !.pc = h.pc, !.formal = h.defs, !.entry = TRUE]
=============================================================================
