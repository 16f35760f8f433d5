----------------------------- MODULE HandlerStack -----------------------------
(***************************************************************************)
(* Exceptions in one thread: its task stack and its stack of handlers      *)
(* (src/seam/generic/Thread.hh, TaskStack.cc, BindFutureWorker.cc, DoRaise *)
(* of Scheduler.cc, the exception instructions of the interpreters).       *)
(*                                                                         *)
(* The handler stack is separate from the task stack.  An entry holds the  *)
(* index of the frame that handles an exception, data for that frame, and  *)
(* a state: TRYING until an exception reaches it, HANDLING from then on.   *)
(* HANDLING entries stay while the handler runs, so that it can ask for    *)
(* the packet; the next exception removes them on its way.  Nothing but    *)
(* the discipline of the workers keeps the two stacks in step.             *)
(*                                                                         *)
(* The program is arbitrary code that nests procedure calls and blocks     *)
(* "try ... handle ..." properly, as the compiler guarantees.              *)
(***************************************************************************)
EXTENDS Naturals, Sequences, FiniteSets

CONSTANTS MaxFrames,    \* bound: frames on the task stack
          MaxBlocks,    \* bound: open blocks of one procedure
          MaxClosures   \* bound: closures that atExn registered

HANDLER_FRAME_SIZE == 3
INITIAL_HANDLERS_SIZE == 10

ASSUME StackAssumption ==
  MaxFrames \in Nat /\ MaxBlocks \in Nat /\ MaxClosures \in Nat

VARIABLES
  frames,    \* the task stack, bottom first
  handlers,  \* Thread::EXN_HANDLER_STACK_POS, bottom first
  size,      \* the size of its block
  closures,  \* TaskStack::uncaughtExceptionClosures: how many
  mode       \* "run", "raise", "terminated" or "exited"

vars == <<frames, handlers, size, closures, mode>>

(***************************************************************************)
(* A frame: its worker; how many blocks the program counter of the frame   *)
(* is inside (for the other workers: the handlers they have pushed and not *)
(* popped); closures that an UncaughtExceptionFrame has still to call.     *)
(***************************************************************************)
Worker == {"empty", "bind", "signal", "uncaught", "code"}
Frame == [worker : Worker, blocks : Nat, left : Nat]
Handler == [frame : Nat, state : {"TRYING", "HANDLING"}, data : Nat]

NewFrame(w, b, l) == [worker |-> w, blocks |-> b, left |-> l]
NewHandler(i, d) == [frame |-> i, state |-> "TRYING", data |-> d]

(***************************************************************************)
(* Thread::New with the frames of NewThread (closure), of a thread with a  *)
(* future (BindFutureWorker::PushFrame), and of a signal handler.          *)
(***************************************************************************)
Init ==
  /\ \E bottom \in {<<>>, <<NewFrame("bind", 1, 0)>>, <<NewFrame("signal", 0, 0)>>} :
       frames = <<NewFrame("empty", 1, 0)>> \o bottom \o <<NewFrame("code", 0, 0)>>
  /\ handlers = IF frames[2].worker = "bind"
                THEN <<NewHandler(1, 0), NewHandler(2, 0)>> ELSE <<NewHandler(1, 0)>>
  /\ size = INITIAL_HANDLERS_SIZE
  /\ closures \in 0..MaxClosures
  /\ mode = "run"

-----------------------------------------------------------------------------
top == frames[Len(frames)]

PopFrame == frames' = SubSeq(frames, 1, Len(frames) - 1)
PushFrame(f) == /\ Len(frames) < MaxFrames
                /\ frames' = Append(frames, f)

(* Mutant of Grown: the last slot counts as free *)
GrownLate(n) == IF (n + 1) * HANDLER_FRAME_SIZE > size THEN (size * 3) \div 2 ELSE size

(* The block grows by half when the entry would reach its end. *)
Grown(n) == IF (n + 1) * HANDLER_FRAME_SIZE >= size THEN (size * 3) \div 2 ELSE size

(* Thread::PushHandler on the handler stack hs, for frame i *)
PushHandler(hs, i, d) == /\ handlers' = Append(hs, NewHandler(i, d))
                         /\ size' = Grown(Len(hs))

PopHandler == /\ handlers' = SubSeq(handlers, 1, Len(handlers) - 1)
              /\ UNCHANGED size

Runs(w) == mode = "run" /\ top.worker = w

(* A procedure is called. *)
Call == /\ Runs("code")
        /\ PushFrame(NewFrame("code", 0, 0))
        /\ UNCHANGED <<handlers, size, closures, mode>>

(* The procedure returns: it is outside of all blocks. *)
Return == /\ Runs("code")
          /\ top.blocks = 0
          /\ PopFrame
          /\ UNCHANGED <<handlers, size, closures, mode>>

(* install_handler, Try *)
InstallHandler ==
  /\ Runs("code")
  /\ top.blocks < MaxBlocks
  /\ frames' = [frames EXCEPT ![Len(frames)].blocks = @ + 1]
  /\ PushHandler(handlers, Len(frames), top.blocks + 1)
  /\ UNCHANGED <<closures, mode>>

(* remove_handler; EndTry and EndHandle do the same *)
RemoveHandler ==
  /\ Runs("code")
  /\ top.blocks > 0
  /\ frames' = [frames EXCEPT ![Len(frames)].blocks = @ - 1]
  /\ PopHandler
  /\ UNCHANGED <<closures, mode>>

(* The code raises, or another thread raises in it, or its stack overflows. *)
Raise == /\ Runs("code")
         /\ mode' = "raise"
         /\ UNCHANGED <<frames, handlers, size, closures>>

(* UnsafeOS_Process_atExn: TaskStack::AddExnClosure *)
AddExnClosure == /\ Runs("code")
                 /\ closures < MaxClosures
                 /\ closures' = closures + 1
                 /\ UNCHANGED <<frames, handlers, size, mode>>

(* Mutant of BindFutureRun: the handler is not popped *)
BindFutureRunLeaks == /\ Runs("bind")
                      /\ PopFrame
                      /\ UNCHANGED <<handlers, size, closures, mode>>

(* BindFutureWorker::Run *)
BindFutureRun == /\ Runs("bind")
                 /\ PopHandler
                 /\ PopFrame
                 /\ UNCHANGED <<closures, mode>>

(* SignalTranslationInterpreter::Run, when its frame is re-entered *)
SignalRun == /\ Runs("signal")
             /\ PopFrame
             /\ UNCHANGED <<handlers, size, closures, mode>>

(* EmptyTaskWorker::Run *)
EmptyTaskRun == /\ Runs("empty")
                /\ mode' = "terminated"
                /\ UNCHANGED <<frames, handlers, size, closures>>

(* UncaughtExceptionWorker::Run: call the next closure, exit after the last *)
UncaughtRun ==
  /\ Runs("uncaught")
  /\ \/ /\ top.left = 0
        /\ PopFrame
        /\ PopHandler
        /\ mode' = "exited"
     \/ /\ top.left > 0
        /\ frames' = Append([frames EXCEPT ![Len(frames)].left = @ - 1],
                            NewFrame("code", 0, 0))
        /\ UNCHANGED <<handlers, size, mode>>
  /\ UNCHANGED closures

-----------------------------------------------------------------------------
(***************************************************************************)
(* Thread::ActivateNextHandler: the loop removes HANDLING entries from the *)
(* top until it finds one that is TRYING, and makes that one HANDLING.     *)
(***************************************************************************)
Trying == {j \in 1..Len(handlers) : handlers[j].state = "TRYING"}
(* Mutant of Nearest: the search starts at the bottom *)
Outermost == CHOOSE j \in Trying : \A k \in Trying : j <= k

Nearest == CHOOSE j \in Trying : \A k \in Trying : k <= j
Activated == [SubSeq(handlers, 1, Nearest) EXCEPT ![Nearest].state = "HANDLING"]

(* Scheduler::DoRaise unrolls the task stack down to the frame of the entry. *)
Unrolled == SubSeq(frames, 1, handlers[Nearest].frame)

(* handlers and frames become those of DoRaise, then Worker::Handle is called. *)
Handles(w) == /\ mode = "raise"
              /\ \E j \in Trying : /\ j = Nearest
                                  /\ handlers[j].frame \in 1..Len(frames)
                                  /\ frames[handlers[j].frame].worker = w

(* The interpreters: the frame goes on at the handler, inside its block. *)
CodeHandle == /\ Handles("code")
              /\ frames' = [Unrolled EXCEPT ![Len(Unrolled)].blocks = handlers[Nearest].data]
              /\ handlers' = Activated
              /\ mode' = "run"
              /\ UNCHANGED <<size, closures>>

(* BindFutureWorker::Handle: the frame goes, the entry stays. *)
BindFutureHandle == /\ Handles("bind")
                    /\ frames' = SubSeq(Unrolled, 1, Len(Unrolled) - 1)
                    /\ handlers' = Activated
                    /\ mode' = "run"
                    /\ UNCHANGED <<size, closures>>

(* Mutant of UncaughtHandle: the handler is not pushed again *)
UncaughtHandleOnce ==
  /\ Handles("uncaught")
  /\ frames' = Unrolled
  /\ handlers' = Activated
  /\ mode' = "run"
  /\ UNCHANGED <<size, closures>>

(* Mutant of UncaughtHandle: an action that raises is the last one *)
UncaughtHandleGivesUp ==
  /\ Handles("uncaught")
  /\ frames' = SubSeq(Unrolled, 1, Len(Unrolled) - 1)
  /\ handlers' = Activated
  /\ mode' = "exited"
  /\ UNCHANGED <<size, closures>>

(* UncaughtExceptionWorker::Handle: the next closure may raise again. *)
UncaughtHandle ==
  /\ Handles("uncaught")
  /\ frames' = [Unrolled EXCEPT ![Len(Unrolled)].blocks = @ + 1]
  /\ PushHandler(Activated, Len(Unrolled), 0)
  /\ mode' = "run"
  /\ UNCHANGED closures

(* EmptyTaskWorker::Handle: exit, or start with the closures of atExn *)
EmptyTaskHandle ==
  /\ Handles("empty")
  /\ \/ /\ closures = 0
        /\ frames' = Unrolled
        /\ handlers' = Activated
        /\ mode' = "exited"
        /\ UNCHANGED size
     \/ /\ closures > 0
        /\ frames' = Append(Unrolled, NewFrame("uncaught", 1, closures))
        /\ PushHandler(Activated, Len(Unrolled) + 1, 0)
        /\ mode' = "run"
  /\ UNCHANGED closures

Next == \/ Call \/ Return \/ InstallHandler \/ RemoveHandler \/ Raise \/ AddExnClosure
        \/ BindFutureRun \/ SignalRun \/ EmptyTaskRun \/ UncaughtRun
        \/ CodeHandle \/ BindFutureHandle \/ UncaughtHandle \/ EmptyTaskHandle

Spec == Init /\ [][Next]_vars

-----------------------------------------------------------------------------
(* Properties *)

TypeOK == /\ frames \in Seq(Frame) /\ frames # <<>>
          /\ handlers \in Seq(Handler)
          /\ size \in Nat
          /\ closures \in 0..MaxClosures
          /\ mode \in {"run", "raise", "terminated", "exited"}

(* The assertion of PushHandler: the entries fit, with room to spare. *)
CapacityOK == Len(handlers) * HANDLER_FRAME_SIZE < size

Active == mode \in {"run", "raise"}

(***************************************************************************)
(* The two stacks stay in step: each frame has as many entries as blocks   *)
(* its code is inside, the k-th of them leads to the handler of the k-th   *)
(* block, and the entries are in the order of the frames.  The only entry  *)
(* without a frame is the used one of a BindFutureFrame, below which just  *)
(* the empty task is left.  Exceptions may leave handlers, cross calls and *)
(* come from handlers of uncaught exceptions.                              *)
(***************************************************************************)
EntriesOf(i) == {j \in 1..Len(handlers) : handlers[j].frame = i}
HandlersMatchFrames ==
  Active =>
    /\ \A i \in 1..Len(frames) : Cardinality(EntriesOf(i)) = frames[i].blocks
    /\ \A j \in 1..Len(handlers) : \A k \in 1..j :
         /\ handlers[k].frame <= handlers[j].frame
         /\ k \in EntriesOf(handlers[j].frame) /\ handlers[j].data > 0
              => handlers[j].data + k = handlers[k].data + j
    /\ \A j \in 1..Len(handlers) :
         handlers[j].frame > Len(frames) => Len(frames) = 1 /\ handlers[j].state = "HANDLING"

(***************************************************************************)
(* An exception always finds a handler, in a frame that is on the stack:   *)
(* the assertions of ActivateNextHandler (no underflow) and of DoRaise.    *)
(***************************************************************************)
HandlerFound == Active => Trying # {} /\ handlers[Nearest].frame <= Len(frames)

(***************************************************************************)
(* An exception uses up one handler: the ones further out, and the frames  *)
(* that they lead to, are still there when it has been handled.            *)
(***************************************************************************)
OuterHandlersStay ==
  [][mode = "raise" =>
       \A j \in Trying \ {Nearest} : /\ j <= Len(handlers') /\ handlers'[j] = handlers[j]
                                     /\ handlers[j].frame <= Len(frames')]_vars

(***************************************************************************)
(* The actions of atExn are all executed before the process ends, whatever *)
(* exceptions they raise themselves: the frame that calls them leaves the  *)
(* stack after the last one only.                                          *)
(***************************************************************************)
ExnActionsRun ==
  [][\A i \in 1..Len(frames) :
       frames[i].worker = "uncaught" =>
         \/ i <= Len(frames') /\ frames'[i].worker = "uncaught"
         \/ frames[i].left = 0 /\ i = Len(frames)]_vars

(***************************************************************************)
(* An exception in a signal handler is not passed on beyond the frame of   *)
(* SignalTranslationInterpreter ("silently ignore exceptions").            *)
(***************************************************************************)
SignalExnIgnored ==
  mode = "raise" => \A i \in 1..Len(frames) :
                       frames[i].worker = "signal" => handlers[Nearest].frame >= i
=============================================================================
