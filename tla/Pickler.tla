------------------------------ MODULE Pickler ------------------------------
(***************************************************************************)
(* The pickler, src/seam/generic/Pickler.cc: PickleWorker walks the graph  *)
(* below a word and emits byte code into a buffer, PickleSaveWorker (and   *)
(* PicklePackWorker) writes the buffer with the missing STOREs to the      *)
(* output stream.                                                          *)
(*                                                                         *)
(* A thread that pickles is not preempted while it walks; it gives up the  *)
(* processor when it meets a transient, and between the two workers.  Then *)
(* the other threads may bind futures and assign cells.                    *)
(*                                                                         *)
(* A node of the graph has a kind and its words.  A CONCRETE stands for    *)
(* the argument of its abstract representation; its handler's name is the  *)
(* chunk NameNode.  The string of a UNIQUE is a chunk, its only word; the  *)
(* words of a chunk are its bytes.                                         *)
(***************************************************************************)
EXTENDS PickleFormat, FiniteSets

CONSTANTS Graphs,      \* graphs that are pickled; the root is node 1
          NameNode,    \* the node of the handler's name
          Assigned,    \* words that other threads bind and assign
          MaxChanges,  \* bound: cells that are assigned
          Cycles       \* whether a CONCRETE may be reached from its argument

ASSUME PicklerAssumption == MaxChanges \in Nat /\ Cycles \in BOOLEAN

VARIABLES graph,     \* the heap, from the root's point of view
          changes,   \* assignments so far
          pickler,   \* PickleArgs
          ppc,       \* where the pickling thread is
          snapshot,  \* the graph when the last walk ended
          output     \* the output stream

pvars == <<graph, changes, pickler, ppc, snapshot, output>>

NOT_WRITTEN == -1
root == Ptr(1)

\* PointerOp::Deref.
RECURSIVE Deref(_, _)
Deref(g, w) == IF IsPtr(w) /\ g[w[2]].kind = "REF" THEN Deref(g, g[w[2]].args[1])
               ELSE w

\* The nodes that can be reached from the nodes of R.
RECURSIVE Reachable(_, _)
Reachable(g, R) ==
    LET S == R \cup {w[2] : w \in UNION {{x \in Range(g[v].args) : IsPtr(x)} : v \in R}}
    IN  IF S = R THEN R ELSE Reachable(g, S)

\* No concrete representation is reached from its own argument.
Acyclic(g) ==
    \A v \in {u \in DOMAIN g : g[u].kind = "CONCRETE"} :
        \A w \in {x \in Range(g[v].args) : IsPtr(x)} : v \notin Reachable(g, {w[2]})

(***************************************************************************)
(* PickleWorker.  The top of the stack is its last frame.                  *)
(***************************************************************************)
PickleArgsNew ==
    [stack |-> <<[data |-> root, back |-> FALSE]>>, seen |-> <<>>, buffer |-> <<>>,
     locals |-> <<>>, cur |-> 0, max |-> 0, transientFound |-> FALSE,
     request |-> 0]

Push(p, w) == [p EXCEPT !.stack = Append(@, [data |-> w, back |-> FALSE])]
PopTopFrame(p) == [p EXCEPT !.stack = Front(@)]
Emit(p, bytes) == [p EXCEPT !.buffer = @ \o bytes]

SimulatePushLate(p) ==
    [p EXCEPT !.cur = @ + 1, !.max = IF p.cur > @ THEN p.cur ELSE @]
SimulatePush(p) ==
    [p EXCEPT !.cur = @ + 1, !.max = IF p.cur + 1 > @ THEN p.cur + 1 ELSE @]
SimulatePop(p, i) == [p EXCEPT !.cur = @ - i]

\* Seen: where the code of a node ends in the buffer, and its variable.
SeenAdd(p, v, index) ==
    [p EXCEPT !.seen = [u \in DOMAIN @ \cup {v} |->
                          IF u = v THEN [index |-> index, var |-> 0] ELSE @[u]]]
SetIndex(p, v) == [p EXCEPT !.seen[v].index = Len(p.buffer)]

\* OutputBuffer::PutLocal for the code that ends at ref, with SetVarNo.
PutLocal(p, v, ref) ==
    LET var == Len(p.locals) + 1
    IN  [Emit(p, PutUInt(var)) EXCEPT !.locals = Append(@, <<ref, var>>),
                                      !.seen[v].var = var]

\* The instruction of a node, and its label and size.
Instr(g, v) ==
    LET n == g[v]
    IN  CASE n.kind = "CONCRETE" -> <<"TRANSFORM">>
          [] n.kind = "CELL" -> <<"MBLOCK", CellLabel>> \o PutUInt(Len(n.args))
          [] n.kind = "TAG" -> <<"BLOCK", TagLabel>> \o PutUInt(Len(n.args))
          [] n.kind \in {"TUPLE", "CLOSURE"} -> <<n.kind>> \o PutUInt(Len(n.args))
          [] OTHER -> <<n.kind>>

Announce(tag) == CASE tag = "TRANSFORM" -> "aTRANSFORM" [] tag = "TUPLE" -> "aTUPLE"
                   [] tag = "CLOSURE" -> "aCLOSURE" [] tag = "BLOCK" -> "aBLOCK"
                   [] tag = "MBLOCK" -> "aMBLOCK"

\* Block::GetSize; a concrete representation has its handler, too.
Size(g, v) == Len(g[v].args) + (IF g[v].kind = "CONCRETE" THEN 1 ELSE 0)

\* Back from recursion.
Back(p, g, v) ==
    IF p.seen[v].var # 0
    THEN SimulatePop(Emit(p, <<"FULFILL">> \o PutUInt(p.seen[v].var)), Size(g, v) - 1)
    ELSE LET q == Emit(p, Instr(g, v))
         IN  SetIndex(SimulatePop(q, IF g[v].kind = "UNIQUE" THEN 0
                                     ELSE Size(g, v) - 1), v)

PickleInt(p, i) ==
    SimulatePush(Emit(p, IF i >= 0 THEN <<"POSINT">> \o PutUInt(i)
                                   ELSE <<"NEGINT">> \o PutUInt(-(i + 1))))

\* A node that was met before: it is loaded, or announced if it is not written.
PickleSeen(p, g, v) ==
    LET s == p.seen[v]
        q == SimulatePush(p)
        i == Instr(g, v)
    IN  CASE s.var > 0 -> Emit(q, <<"LOAD">> \o PutUInt(s.var))
          [] s.var = 0 /\ s.index = NOT_WRITTEN ->
               PutLocal(Emit(q, <<Announce(Head(i))>> \o Tail(i)), v, 0)
          [] OTHER -> PutLocal(Emit(q, <<"LOAD">>), v, s.index)

PickleChunk(p, g, v) ==
    LET n == Len(g[v].args)
        q == Emit(p, <<g[v].kind>> \o PutUInt(n) \o [i \in 1..n |-> g[v].args[i][2]])
    IN  SimulatePush(SeenAdd(q, v, Len(q.buffer)))

\* The words below a node that is met for the first time, in the order in which
\* they are pushed.
Below(g, v) == IF g[v].kind = "CONCRETE" THEN <<Ptr(NameNode), g[v].args[1]>>
               ELSE g[v].args

Enter(p, g, v) ==
    LET top == Len(p.stack)
        q   == SeenAdd([p EXCEPT !.stack[top].back = TRUE], v, NOT_WRITTEN)
    IN  FoldLeft(Push, q, Below(g, v))

\* PickleWorker::Run until it returns: the state and the result.
RECURSIVE Run(_, _)
Run(p, g) ==
    IF p.stack = <<>> THEN [p |-> p, result |-> "CONTINUE"] ELSE
    LET frame == Last(p.stack)
        w     == Deref(g, frame.data)
        v     == w[2]
    IN  CASE frame.back -> Run(PopTopFrame(Back(p, g, v)), g)
          [] ~frame.back /\ IsInt(w) -> Run(PopTopFrame(PickleInt(p, v)), g)
          [] ~frame.back /\ IsPtr(w) ->
               CASE g[v].kind = "FUTURE" ->
                      [p |-> [p EXCEPT !.transientFound = TRUE, !.request = v],
                       result |-> "REQUEST"]
                 [] g[v].kind # "FUTURE" /\ v \in DOMAIN p.seen ->
                      Run(PopTopFrame(PickleSeen(p, g, v)), g)
                 [] g[v].kind = "SITED" -> [p |-> p, result |-> "RAISE"]
                 [] g[v].kind \in {"CHUNK", "MCHUNK"} /\ v \notin DOMAIN p.seen ->
                      Run(PopTopFrame(PickleChunk(p, g, v)), g)
                 [] OTHER -> Run(Enter(p, g, v), g)

(***************************************************************************)
(* PickleSaveWorker.                                                       *)
(***************************************************************************)
\* The locals, sorted by their place; announced variables have place 0.
GetLocals(p) == SortSeq(p.locals, LAMBDA a, b : a[1] < b[1])

WriteToStream(p) ==
    LET sorted == SelectSeq(GetLocals(p), LAMBDA l : l[1] > 0)
        body   == FoldLeft(LAMBDA r, l :
                      [pos |-> l[1],
                       out |-> r.out \o SubSeq(p.buffer, r.pos + 1, l[1])
                                 \o <<"STORE">> \o PutUInt(l[2])],
                      [pos |-> 0, out |-> <<>>], sorted)
    IN  magic \o PutUInt(majorVersion) \o PutUInt(minorVersion) \o <<"INIT">>
        \o PutUInt(p.max) \o PutUInt(Len(p.locals) + 1)
        \o body.out \o SubSeq(p.buffer, body.pos + 1, Len(p.buffer))
        \o <<"STORE">> \o PutUInt(0) \o <<"ENDOFSTREAM">>

(***************************************************************************)
(* The threads.                                                            *)
(***************************************************************************)
PInit ==
    /\ graph \in {g \in Graphs : Cycles \/ Acyclic(g)}
    /\ changes = 0
    /\ pickler = PickleArgsNew
    /\ ppc = "pickle"
    /\ snapshot = <<>>
    /\ output = <<>>

\* PickleWorker::Run.
PickleWorkerRun ==
    /\ ppc = "pickle"
    /\ LET r == Run(pickler, graph)
       IN  /\ pickler' = r.p
           /\ ppc' = CASE r.result = "CONTINUE" -> "save"
                       [] r.result = "REQUEST" -> "blocked"
                       [] r.result = "RAISE" -> "raised"
    /\ snapshot' = graph
    /\ UNCHANGED <<graph, changes, output>>

\* The scheduler wakes the thread when the transient it requested is bound.
Wakeup ==
    /\ ppc = "blocked"
    /\ graph[pickler.request].kind # "FUTURE"
    /\ ppc' = "pickle"
    /\ UNCHANGED <<graph, changes, pickler, snapshot, output>>

\* PickleSaveWorker::Run: after a walk that met a transient, pickling starts
\* again.
PickleSaveWorkerRunOnce ==
    /\ ppc = "save"
    /\ output' = WriteToStream(pickler)
    /\ ppc' = "done"
    /\ UNCHANGED <<graph, changes, pickler, snapshot>>
PickleSaveWorkerRun ==
    /\ ppc = "save"
    /\ IF pickler.transientFound
       THEN /\ pickler' = PickleArgsNew
            /\ ppc' = "pickle"
            /\ UNCHANGED output
       ELSE /\ output' = WriteToStream(pickler)
            /\ ppc' = "done"
            /\ UNCHANGED pickler
    /\ UNCHANGED <<graph, changes, snapshot>>

OthersRun == ppc \in {"blocked", "save"}

\* Another thread binds a future (Transient::Become) ...
Bind(v, w) ==
    /\ OthersRun
    /\ graph[v].kind = "FUTURE"
    /\ Deref(graph, w) # Ptr(v)
    /\ graph' = [graph EXCEPT ![v] = [kind |-> "REF", args |-> <<Deref(graph, w)>>]]
    /\ Cycles \/ Acyclic(graph')
    /\ UNCHANGED <<changes, pickler, ppc, snapshot, output>>

\* ... or assigns a cell.
Assign(v, w) ==
    /\ OthersRun
    /\ changes < MaxChanges
    /\ graph[v].kind = "CELL"
    /\ graph[v].args # <<w>>
    /\ graph' = [graph EXCEPT ![v].args = <<w>>]
    /\ Cycles \/ Acyclic(graph')
    /\ changes' = changes + 1
    /\ UNCHANGED <<pickler, ppc, snapshot, output>>

PNext ==
    \/ PickleWorkerRun
    \/ Wakeup
    \/ PickleSaveWorkerRun
    \/ \E v \in DOMAIN graph, w \in Assigned : Bind(v, w)
    \/ \E v \in DOMAIN graph, w \in Assigned : Assign(v, w)
=============================================================================
