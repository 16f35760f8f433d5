-------------------------- MODULE HandlerStackProofs --------------------------
(***************************************************************************)
(* HandlerStack keeps its types, its block of handlers is large enough,    *)
(* and the handlers stay in step with the frames, for stacks of any height *)
(* and any number of blocks and closures.                                  *)
(***************************************************************************)
EXTENDS HandlerStack, SequenceTheorems, FiniteSetTheorems, LeastNumber

(***************************************************************************)
(* The inductive invariant.  The task at the bottom never leaves the task  *)
(* stack, so that there always is a frame that runs; a block of at least   *)
(* ten words grows by more than one entry.                                 *)
(***************************************************************************)
StackInv == /\ TypeOK
            /\ frames[1].worker = "empty"
            /\ size >= INITIAL_HANDLERS_SIZE
            /\ CapacityOK

(* Growing by half makes room for one more entry, and for the assertion's slack. *)
LEMMA GrownSuffices ==
  ASSUME NEW n \in Nat, size \in Nat, size >= INITIAL_HANDLERS_SIZE,
         n * HANDLER_FRAME_SIZE < size
  PROVE  /\ Grown(n) \in Nat
         /\ Grown(n) >= INITIAL_HANDLERS_SIZE
         /\ (n + 1) * HANDLER_FRAME_SIZE < Grown(n)
<1>1. /\ (size * 3) \div 2 \in Int
      /\ 2 * ((size * 3) \div 2) >= size * 3 - 1
  BY SMT
<1>2. QED
  BY <1>1, SMT DEF Grown, HANDLER_FRAME_SIZE, INITIAL_HANDLERS_SIZE

(* What PushHandler leaves behind, on any stack of handlers that fits *)
LEMMA PushHandlerKeeps ==
  ASSUME NEW hs \in Seq(Handler), NEW i \in Nat, NEW d \in Nat,
         size \in Nat, size >= INITIAL_HANDLERS_SIZE,
         Len(hs) * HANDLER_FRAME_SIZE < size,
         PushHandler(hs, i, d)
  PROVE  /\ handlers' \in Seq(Handler)
         /\ size' \in Nat /\ size' >= INITIAL_HANDLERS_SIZE
         /\ CapacityOK'
<1>1. NewHandler(i, d) \in Handler
  BY DEF NewHandler, Handler
<1>2. /\ handlers' \in Seq(Handler)
      /\ Len(handlers') = Len(hs) + 1
  BY <1>1 DEF PushHandler
<1>3. size' = Grown(Len(hs)) /\ Len(hs) \in Nat
  BY DEF PushHandler
<1>4. /\ size' \in Nat
      /\ size' >= INITIAL_HANDLERS_SIZE
      /\ (Len(hs) + 1) * HANDLER_FRAME_SIZE < size'
  BY <1>3, GrownSuffices
<1>5. QED
  BY <1>2, <1>4 DEF CapacityOK

(* Popping an entry frees a slot; popping from the empty stack changes nothing. *)
LEMMA PopHandlerKeeps ==
  ASSUME handlers \in Seq(Handler), size \in Nat, CapacityOK, PopHandler
  PROVE  handlers' \in Seq(Handler) /\ size' = size /\ CapacityOK'
<1>1. /\ handlers' \in Seq(Handler)
      /\ Len(handlers') <= Len(handlers)
  BY DEF PopHandler
<1>2. QED
  BY <1>1, SMT DEF CapacityOK, HANDLER_FRAME_SIZE, PopHandler

(* The frame that runs can be changed in place. *)
LEMMA TopFrame ==
  ASSUME frames \in Seq(Frame), frames # <<>>
  PROVE  Len(frames) \in 1..Len(frames) /\ top \in Frame
BY DEF top

(* A frame that is replaced leaves a sequence of frames of the same length. *)
LEMMA FrameReplaced ==
  ASSUME NEW fs \in Seq(Frame), NEW i \in 1..Len(fs), NEW f \in Frame
  PROVE  /\ [fs EXCEPT ![i] = f] \in Seq(Frame)
         /\ Len([fs EXCEPT ![i] = f]) = Len(fs)
         /\ [fs EXCEPT ![i] = f][1] = IF i = 1 THEN f ELSE fs[1]
BY ExceptSeq

(* ActivateNextHandler shortens the stack of handlers and keeps its types. *)
LEMMA ActivatedKeeps ==
  ASSUME handlers \in Seq(Handler), frames \in Seq(Frame), NEW w, Handles(w)
  PROVE  /\ Nearest \in 1..Len(handlers)
         /\ handlers[Nearest] \in Handler
         /\ handlers[Nearest].frame \in 1..Len(frames)
         /\ frames[handlers[Nearest].frame].worker = w
         /\ Activated \in Seq(Handler)
         /\ Len(Activated) = Nearest
<1>1. /\ Nearest \in Trying
      /\ handlers[Nearest].frame \in 1..Len(frames)
      /\ frames[handlers[Nearest].frame].worker = w
  BY DEF Handles
<1>2. Nearest \in 1..Len(handlers) /\ handlers[Nearest] \in Handler
  BY <1>1 DEF Trying
<1> DEFINE hs == SubSeq(handlers, 1, Nearest)
<1>3. hs \in Seq(Handler) /\ Len(hs) = Nearest /\ hs[Nearest] = handlers[Nearest]
  BY <1>2
<1> DEFINE h == [hs[Nearest] EXCEPT !.state = "HANDLING"]
<1>4. h \in Handler
  BY <1>2, <1>3 DEF Handler
<1>5. Activated = [hs EXCEPT ![Nearest] = h]
  BY DEF Activated
<1> HIDE DEF hs, h
<1>6. Activated \in Seq(Handler) /\ Len(Activated) = Nearest
  BY <1>2, <1>3, <1>4, <1>5, ExceptSeq
<1>7. QED
  BY <1>1, <1>2, <1>6

(* DoRaise leaves the frames up to that of the handler. *)
LEMMA UnrolledKeeps ==
  ASSUME frames \in Seq(Frame), handlers[Nearest].frame \in 1..Len(frames)
  PROVE  /\ Unrolled \in Seq(Frame)
         /\ Len(Unrolled) = handlers[Nearest].frame
         /\ \A i \in 1..Len(Unrolled) : Unrolled[i] = frames[i]
BY DEF Unrolled

-----------------------------------------------------------------------------
(* Init establishes the invariant, whatever the bottom of the stack is. *)
LEMMA StackInit == Init => StackInv
<1> SUFFICES ASSUME Init PROVE StackInv
  OBVIOUS
<1>1. /\ NewFrame("empty", 1, 0) \in Frame /\ NewFrame("bind", 1, 0) \in Frame
      /\ NewFrame("signal", 0, 0) \in Frame /\ NewFrame("code", 0, 0) \in Frame
      /\ NewFrame("empty", 1, 0).worker = "empty"
  BY DEF NewFrame, Frame, Worker
<1>2. PICK bottom \in {<<>>, <<NewFrame("bind", 1, 0)>>, <<NewFrame("signal", 0, 0)>>} :
        frames = <<NewFrame("empty", 1, 0)>> \o bottom \o <<NewFrame("code", 0, 0)>>
  BY DEF Init
<1>3. bottom \in Seq(Frame)
  <2> DEFINE bind == NewFrame("bind", 1, 0)
             signal == NewFrame("signal", 0, 0)
  <2>1. bottom \in {<<>>, <<bind>>, <<signal>>} /\ bind \in Frame /\ signal \in Frame
    BY <1>1, <1>2
  <2> HIDE DEF bind, signal
  <2>2. <<>> \in Seq(Frame) /\ <<bind>> \in Seq(Frame) /\ <<signal>> \in Seq(Frame)
    BY <2>1
  <2>3. QED
    BY <2>1, <2>2, Zenon
<1>4. /\ frames \in Seq(Frame) /\ frames # <<>>
      /\ frames[1].worker = "empty"
  BY <1>1, <1>2, <1>3
<1>5. NewHandler(1, 0) \in Handler /\ NewHandler(2, 0) \in Handler
  BY DEF NewHandler, Handler
<1>6. handlers \in Seq(Handler) /\ Len(handlers) \in 1..2
  BY <1>5 DEF Init
<1>7. QED
  BY <1>4, <1>6, StackAssumption
     DEF Init, StackInv, TypeOK, CapacityOK, HANDLER_FRAME_SIZE, INITIAL_HANDLERS_SIZE

(***************************************************************************)
(* Every step preserves it.  A frame that is popped is not that of the     *)
(* empty task, which has another worker.                                   *)
(***************************************************************************)
LEMMA StackStep == StackInv /\ [Next]_vars => StackInv'
<1> SUFFICES ASSUME StackInv, [Next]_vars PROVE StackInv'
  OBVIOUS
<1>0. /\ frames \in Seq(Frame) /\ frames # <<>> /\ frames[1].worker = "empty"
      /\ handlers \in Seq(Handler)
      /\ size \in Nat /\ size >= INITIAL_HANDLERS_SIZE /\ CapacityOK
      /\ closures \in 0..MaxClosures /\ closures \in Nat
      /\ mode \in {"run", "raise", "terminated", "exited"}
      /\ Len(frames) \in 1..Len(frames) /\ top \in Frame
  BY TopFrame, StackAssumption DEF StackInv, TypeOK
<1> DEFINE FramesOK == frames \in Seq(Frame) /\ frames # <<>> /\ frames[1].worker = "empty"
           HandlersOK == /\ handlers \in Seq(Handler)
                         /\ size \in Nat /\ size >= INITIAL_HANDLERS_SIZE /\ CapacityOK
           RestOK == /\ closures \in 0..MaxClosures
                     /\ mode \in {"run", "raise", "terminated", "exited"}
<1>A. FramesOK' /\ HandlersOK' /\ RestOK' => StackInv'
  BY DEF StackInv, TypeOK
<1>B. UNCHANGED <<handlers, size>> => HandlersOK'
  BY <1>0 DEF CapacityOK
<1>C. UNCHANGED frames => FramesOK'
  BY <1>0
<1>D. PopHandler => HandlersOK'
  BY <1>0, PopHandlerKeeps
<1>E. ASSUME PopFrame, top.worker # "empty" PROVE FramesOK'
  <2>1. Len(frames) > 1
    BY <1>0, <1>E DEF top
  <2>2. frames' = SubSeq(frames, 1, Len(frames) - 1)
    BY <1>E DEF PopFrame
  <2>3. /\ frames' \in Seq(Frame) /\ Len(frames') = Len(frames) - 1
        /\ frames'[1] = frames[1]
    BY <1>0, <2>1, <2>2
  <2>4. QED
    BY <1>0, <2>1, <2>3
<1>F. ASSUME NEW f \in Frame, frames' = Append(frames, f) PROVE FramesOK'
  BY <1>0, <1>F
<1>G. ASSUME NEW f \in Frame, f.worker = top.worker,
             frames' = [frames EXCEPT ![Len(frames)] = f]
      PROVE  FramesOK' /\ Len(frames') = Len(frames)
  <2>1. /\ frames' \in Seq(Frame) /\ Len(frames') = Len(frames)
        /\ frames'[1] = IF Len(frames) = 1 THEN f ELSE frames[1]
    BY <1>0, <1>G, FrameReplaced
  <2>2. frames'[1].worker = "empty"
    BY <1>0, <1>G, <2>1 DEF top
  <2>3. QED
    BY <1>0, <2>1, <2>2
<1>H. ASSUME NEW hs \in Seq(Handler), Len(hs) <= Len(handlers),
             NEW i \in Nat, NEW d \in Nat, PushHandler(hs, i, d)
      PROVE  HandlersOK'
  <2>1. Len(hs) * HANDLER_FRAME_SIZE < size
    BY <1>0, <1>H, SMT DEF CapacityOK, HANDLER_FRAME_SIZE
  <2>2. QED
    BY <1>0, <1>H, <2>1, PushHandlerKeeps
<1>I. ASSUME handlers' \in Seq(Handler), Len(handlers') <= Len(handlers), UNCHANGED size
      PROVE  HandlersOK'
  BY <1>0, <1>I, SMT DEF CapacityOK, HANDLER_FRAME_SIZE, INITIAL_HANDLERS_SIZE
<1> DEFINE code == NewFrame("code", 0, 0)
<1>J. code \in Frame
  BY DEF NewFrame, Frame, Worker
<1>K. ASSUME NEW b \in Nat
      PROVE  [top EXCEPT !.blocks = b] \in Frame /\ [top EXCEPT !.blocks = b].worker = top.worker
  BY <1>0 DEF Frame
<1> HIDE DEF FramesOK, HandlersOK, RestOK
<1>1. CASE Call
  <2>1. RestOK'
    BY <1>0, <1>1 DEF Call, RestOK
  <2>2. FramesOK'
    BY <1>1, <1>F, <1>J DEF Call, PushFrame
  <2>3. QED
    BY <1>1, <1>A, <1>B, <2>1, <2>2 DEF Call
<1>2. CASE Return
  <2>1. RestOK'
    BY <1>0, <1>2 DEF Return, RestOK
  <2>2. FramesOK'
    BY <1>2, <1>E DEF Return, Runs
  <2>3. QED
    BY <1>2, <1>A, <1>B, <2>1, <2>2 DEF Return
<1>3. CASE InstallHandler
  <2>1. RestOK'
    BY <1>0, <1>3 DEF InstallHandler, RestOK
  <2>2. top.blocks + 1 \in Nat
    BY <1>0 DEF Frame
  <2>3. frames' = [frames EXCEPT ![Len(frames)] = [top EXCEPT !.blocks = top.blocks + 1]]
    BY <1>3 DEF InstallHandler, top
  <2>4. FramesOK'
    BY <2>2, <2>3, <1>G, <1>K
  <2>5. HandlersOK'
    <3>1. /\ PushHandler(handlers, Len(frames), top.blocks + 1)
          /\ Len(frames) \in Nat /\ Len(handlers) <= Len(handlers)
      BY <1>0, <1>3 DEF InstallHandler
    <3>2. QED
      BY <1>0, <1>H, <2>2, <3>1
  <2>6. QED
    BY <1>A, <2>1, <2>4, <2>5
<1>4. CASE RemoveHandler
  <2>1. RestOK'
    BY <1>0, <1>4 DEF RemoveHandler, RestOK
  <2>2. top.blocks - 1 \in Nat
    BY <1>0, <1>4 DEF Frame, RemoveHandler
  <2>3. frames' = [frames EXCEPT ![Len(frames)] = [top EXCEPT !.blocks = top.blocks - 1]]
    BY <1>4 DEF RemoveHandler, top
  <2>4. FramesOK'
    BY <2>2, <2>3, <1>G, <1>K
  <2>5. QED
    BY <1>4, <1>A, <1>D, <2>1, <2>4 DEF RemoveHandler
<1>5. CASE Raise
  <2>1. RestOK'
    BY <1>0, <1>5 DEF Raise, RestOK
  <2>2. QED
    BY <1>5, <1>A, <1>B, <1>C, <2>1 DEF Raise
<1>6. CASE AddExnClosure
  <2>1. RestOK'
    BY <1>0, <1>6, StackAssumption DEF AddExnClosure, RestOK
  <2>2. QED
    BY <1>6, <1>A, <1>B, <1>C, <2>1 DEF AddExnClosure
<1>7. CASE BindFutureRun
  <2>1. RestOK'
    BY <1>0, <1>7 DEF BindFutureRun, RestOK
  <2>2. FramesOK'
    BY <1>7, <1>E DEF BindFutureRun, Runs
  <2>3. QED
    BY <1>7, <1>A, <1>D, <2>1, <2>2 DEF BindFutureRun
<1>8. CASE SignalRun
  <2>1. RestOK'
    BY <1>0, <1>8 DEF SignalRun, RestOK
  <2>2. FramesOK'
    BY <1>8, <1>E DEF SignalRun, Runs
  <2>3. QED
    BY <1>8, <1>A, <1>B, <2>1, <2>2 DEF SignalRun
<1>9. CASE EmptyTaskRun
  <2>1. RestOK'
    BY <1>0, <1>9 DEF EmptyTaskRun, RestOK
  <2>2. QED
    BY <1>9, <1>A, <1>B, <1>C, <2>1 DEF EmptyTaskRun
<1>10. CASE UncaughtRun
  <2>0. top.worker = "uncaught"
    BY <1>10 DEF UncaughtRun, Runs
  <2>1. RestOK'
    BY <1>0, <1>10 DEF UncaughtRun, RestOK
  <2>2. CASE PopFrame /\ PopHandler
    <3>1. FramesOK'
      BY <1>E, <2>0, <2>2
    <3>2. QED
      BY <1>A, <1>D, <2>1, <2>2, <3>1
  <2>3. CASE /\ top.left > 0
             /\ frames' = Append([frames EXCEPT ![Len(frames)].left = @ - 1], code)
             /\ UNCHANGED <<handlers, size>>
    <3> DEFINE f == [top EXCEPT !.left = top.left - 1]
               fs == [frames EXCEPT ![Len(frames)] = f]
    <3>1. f \in Frame /\ f.worker = top.worker
      <4>1. top.left - 1 \in Nat
        BY <1>0, <2>3 DEF Frame
      <4>2. QED
        BY <1>0, <4>1 DEF Frame
    <3>2. frames' = Append(fs, code)
      BY <2>3 DEF top
    <3> HIDE DEF f
    <3>3. /\ fs \in Seq(Frame) /\ Len(fs) = Len(frames)
          /\ fs[1] = IF Len(frames) = 1 THEN f ELSE frames[1]
      BY <1>0, <3>1, FrameReplaced
    <3>4. fs[1].worker = "empty"
      BY <1>0, <3>1, <3>3 DEF top
    <3> HIDE DEF fs, code
    <3>5. FramesOK'
      BY <1>0, <1>J, <3>2, <3>3, <3>4 DEF FramesOK
    <3>6. QED
      BY <1>A, <1>B, <2>1, <2>3, <3>5
  <2>4. QED
    BY <1>10, <2>2, <2>3 DEF UncaughtRun
<1>R. ASSUME NEW w, Handles(w)
      PROVE  /\ Activated \in Seq(Handler) /\ Len(Activated) <= Len(handlers)
             /\ handlers[Nearest].data \in Nat
             /\ Unrolled \in Seq(Frame) /\ Len(Unrolled) \in 1..Len(Unrolled)
             /\ Unrolled[1] = frames[1]
             /\ Unrolled[Len(Unrolled)] \in Frame
             /\ Unrolled[Len(Unrolled)].worker = w
  <2>1. /\ Nearest \in 1..Len(handlers) /\ handlers[Nearest] \in Handler
        /\ handlers[Nearest].frame \in 1..Len(frames)
        /\ frames[handlers[Nearest].frame].worker = w
        /\ Activated \in Seq(Handler) /\ Len(Activated) = Nearest
    BY <1>0, <1>R, ActivatedKeeps
  <2>2. /\ Unrolled \in Seq(Frame)
        /\ Len(Unrolled) = handlers[Nearest].frame
        /\ \A i \in 1..Len(Unrolled) : Unrolled[i] = frames[i]
    BY <1>0, <2>1, UnrolledKeeps
  <2>3. Len(Unrolled) \in 1..Len(Unrolled) /\ 1 \in 1..Len(Unrolled)
    BY <2>1, <2>2
  <2>4. handlers[Nearest].data \in Nat
    BY <2>1 DEF Handler
  <2>5. QED
    BY <2>1, <2>2, <2>3, <2>4
<1>S. ASSUME NEW w, Handles(w), NEW b \in Nat,
             frames' = [Unrolled EXCEPT ![Len(Unrolled)].blocks = b]
      PROVE  FramesOK'
  <2> DEFINE f == [Unrolled[Len(Unrolled)] EXCEPT !.blocks = b]
  <2>1. f \in Frame /\ f.worker = Unrolled[Len(Unrolled)].worker
    BY <1>R, <1>S DEF Frame
  <2>2. frames' = [Unrolled EXCEPT ![Len(Unrolled)] = f]
    BY <1>S
  <2> HIDE DEF f
  <2>3. /\ frames' \in Seq(Frame) /\ Len(frames') = Len(Unrolled)
        /\ frames'[1] = IF Len(Unrolled) = 1 THEN f ELSE Unrolled[1]
    BY <1>R, <1>S, <2>1, <2>2, FrameReplaced
  <2>4. frames'[1].worker = "empty"
    BY <1>0, <1>R, <1>S, <2>1, <2>3
  <2>5. frames' # <<>>
    BY <1>R, <1>S, <2>3
  <2>6. QED
    BY <2>3, <2>4, <2>5 DEF FramesOK
<1>11. CASE CodeHandle
  <2>1. RestOK'
    BY <1>0, <1>11 DEF CodeHandle, RestOK
  <2>2. FramesOK'
    BY <1>11, <1>R, <1>S DEF CodeHandle
  <2>3. HandlersOK'
    BY <1>11, <1>R, <1>I DEF CodeHandle
  <2>4. QED
    BY <1>A, <2>1, <2>2, <2>3
<1>12. CASE BindFutureHandle
  <2>1. RestOK'
    BY <1>0, <1>12 DEF BindFutureHandle, RestOK
  <2>2. Handles("bind") /\ frames' = SubSeq(Unrolled, 1, Len(Unrolled) - 1)
    BY <1>12 DEF BindFutureHandle
  <2>3. Len(Unrolled) > 1
    BY <1>0, <1>R, <2>2
  <2>4. FramesOK'
    BY <1>0, <1>R, <2>2, <2>3 DEF FramesOK
  <2>5. HandlersOK'
    BY <1>12, <1>R, <1>I DEF BindFutureHandle
  <2>6. QED
    BY <1>A, <2>1, <2>4, <2>5
<1>13. CASE UncaughtHandle
  <2>1. RestOK'
    BY <1>0, <1>13 DEF UncaughtHandle, RestOK
  <2>2. /\ Handles("uncaught")
        /\ frames' = [Unrolled EXCEPT ![Len(Unrolled)].blocks = @ + 1]
        /\ PushHandler(Activated, Len(Unrolled), 0)
    BY <1>13 DEF UncaughtHandle
  <2>3. Unrolled[Len(Unrolled)].blocks + 1 \in Nat
    BY <1>R, <2>2 DEF Frame
  <2>4. FramesOK'
    BY <1>S, <2>2, <2>3
  <2>5. HandlersOK'
    <3>1. /\ Activated \in Seq(Handler) /\ Len(Activated) <= Len(handlers)
          /\ Len(Unrolled) \in Nat /\ 0 \in Nat
      BY <1>R, <2>2
    <3> QED BY <1>H, <2>2, <3>1, Zenon
  <2>6. QED
    BY <1>A, <2>1, <2>4, <2>5
<1>14. CASE EmptyTaskHandle
  <2>0. Handles("empty")
    BY <1>14 DEF EmptyTaskHandle
  <2>1. RestOK'
    BY <1>0, <1>14 DEF EmptyTaskHandle, RestOK
  <2>2. CASE frames' = Unrolled /\ handlers' = Activated /\ UNCHANGED size
    <3>1. FramesOK'
      BY <1>0, <1>R, <2>0, <2>2 DEF FramesOK
    <3>2. HandlersOK'
      BY <1>R, <1>I, <2>0, <2>2
    <3>3. QED
      BY <1>A, <2>1, <3>1, <3>2
  <2>3. CASE /\ frames' = Append(Unrolled, NewFrame("uncaught", 1, closures))
             /\ PushHandler(Activated, Len(Unrolled) + 1, 0)
    <3>1. NewFrame("uncaught", 1, closures) \in Frame
      BY <1>0 DEF NewFrame, Frame, Worker
    <3>2. FramesOK'
      BY <1>0, <1>R, <2>0, <2>3, <3>1 DEF FramesOK
    <3>3. Len(Unrolled) + 1 \in Nat
      BY <1>R, <2>0
    <3>4. HandlersOK'
      BY <1>R, <1>H, <2>0, <2>3, <3>3
    <3>5. QED
      BY <1>A, <2>1, <3>2, <3>4
  <2>4. QED
    BY <1>14, <2>2, <2>3 DEF EmptyTaskHandle
<1>15. CASE UNCHANGED vars
  <2>1. RestOK'
    BY <1>0, <1>15 DEF vars, RestOK
  <2>2. QED
    BY <1>15, <1>A, <1>B, <1>C, <2>1 DEF vars
<1>16. QED
  BY <1>1, <1>2, <1>3, <1>4, <1>5, <1>6, <1>7, <1>8, <1>9, <1>10,
     <1>11, <1>12, <1>13, <1>14, <1>15 DEF Next

(***************************************************************************)
(* The frames and the entries keep their types: in particular the task     *)
(* stack never becomes empty, although DoRaise and BindFutureWorker cut it *)
(* down to the frame that an entry names.                                  *)
(***************************************************************************)
THEOREM StackTypes == Spec => []TypeOK
<1>1. StackInv => TypeOK
  BY DEF StackInv
<1>2. QED
  BY StackInit, StackStep, <1>1, PTL DEF Spec

(***************************************************************************)
(* Thread::PushHandler never writes beyond the block of handlers, however  *)
(* deep blocks are nested and whatever atExn actions add.                  *)
(***************************************************************************)
THEOREM HandlerCapacity == Spec => []CapacityOK
<1>1. StackInv => CapacityOK
  BY DEF StackInv
<1>2. QED
  BY StackInit, StackStep, <1>1, PTL DEF Spec

-----------------------------------------------------------------------------
(***************************************************************************)
(* The two stacks in step.  The entries of a frame are neighbours: b[i] is *)
(* the number of entries of the frames up to i, for a task stack fs and a  *)
(* stack of handlers hs.                                                   *)
(***************************************************************************)
Segments(fs, hs, b) ==
  /\ b \in [0..Len(fs) -> Nat] /\ b[0] = 0
  /\ \A i \in 1..Len(fs) : b[i] = b[i - 1] + fs[i].blocks
  /\ \A i, k \in 0..Len(fs) : i <= k => b[i] <= b[k]
  /\ b[Len(fs)] <= Len(hs)
  /\ \A j \in 1..b[Len(fs)] :
       /\ hs[j].frame \in 1..Len(fs) /\ b[hs[j].frame - 1] < j /\ j <= b[hs[j].frame]
       /\ hs[j].data = IF fs[hs[j].frame].worker = "code" THEN j - b[hs[j].frame - 1] ELSE 0

(***************************************************************************)
(* Which frames there are: the empty task at the bottom, perhaps one of    *)
(* another worker above it, then frames of procedures.                     *)
(***************************************************************************)
Shape(fs, m) ==
  /\ fs[1].worker = "empty" /\ fs[1].blocks = 1
  /\ \A i \in 2..Len(fs) : fs[i].worker # "empty"
  /\ \A i \in 3..Len(fs) : fs[i].worker = "code"
  /\ \A i \in 2..Len(fs) : /\ fs[i].worker = "bind" => fs[i].blocks = 1
                           /\ fs[i].worker = "signal" => fs[i].blocks = 0
                           /\ fs[i].worker = "uncaught" => fs[i].blocks > 0
  /\ m = "raise" => fs[Len(fs)].worker = "code"

(* No entry is left over but the used one of a BindFutureFrame. *)
Tops(fs, hs, m, b) ==
  \/ Len(hs) = b[Len(fs)]
  \/ /\ Len(fs) = 1 /\ m = "run" /\ Len(hs) = 2
     /\ hs[2].frame = 2 /\ hs[2].state = "HANDLING" /\ hs[2].data = 0

(* The handler of last resort has not been used. *)
Caught(fs, hs, b) ==
  IF Len(fs) >= 2 /\ fs[2].worker = "uncaught" THEN hs[b[2]].state = "TRYING"
                                               ELSE hs[1].state = "TRYING"

InStep(fs, hs, m) == \E b : Segments(fs, hs, b) /\ Tops(fs, hs, m, b) /\ Caught(fs, hs, b)

MatchInv == StackInv /\ Shape(frames, mode) /\ (Active => InStep(frames, handlers, mode))

(* The entries between two bounds are those of the frame. *)
LEMMA InSegment ==
  ASSUME NEW fs \in Seq(Frame), NEW hs \in Seq(Handler), NEW b, Segments(fs, hs, b),
         NEW i \in 1..Len(fs), NEW j \in (b[i - 1] + 1)..b[i]
  PROVE  /\ hs[j].frame = i /\ j \in 1..b[Len(fs)]
         /\ hs[j].data = IF fs[i].worker = "code" THEN j - b[i - 1] ELSE 0
<1>1. Len(fs) \in Nat /\ i - 1 \in 0..Len(fs) /\ i \in 0..Len(fs) /\ Len(fs) \in 0..Len(fs)
  OBVIOUS
<1>0. b \in [0..Len(fs) -> Nat] /\ \A x, y \in 0..Len(fs) : x <= y => b[x] <= b[y]
  BY Zenon DEF Segments
<1>2. b[i - 1] \in Nat /\ b[i] \in Nat /\ b[Len(fs)] \in Nat /\ b[i] <= b[Len(fs)]
  BY <1>0, <1>1
<1>3. j \in 1..b[Len(fs)]
  BY <1>2
<1> DEFINE f == hs[j].frame
<1>4. f \in 1..Len(fs) /\ b[f - 1] < j /\ j <= b[f]
  BY <1>3 DEF Segments
<1> HIDE DEF f
<1>5. f - 1 \in 0..Len(fs) /\ f \in 0..Len(fs) /\ b[f - 1] \in Nat /\ b[f] \in Nat
  <2>1. f - 1 \in 0..Len(fs) /\ f \in 0..Len(fs)
    BY <1>1, <1>4
  <2> QED BY <1>0, <2>1
<1>6. ~(f <= i - 1)
  <2>1. f <= i - 1 => b[f] <= b[i - 1]
    BY <1>0, <1>1, <1>5
  <2> QED BY <1>2, <1>4, <1>5, <2>1
<1>7. ~(i <= f - 1)
  <2>1. i <= f - 1 => b[i] <= b[f - 1]
    BY <1>0, <1>1, <1>5
  <2> QED BY <1>2, <1>4, <1>5, <2>1
<1>8. f = i
  BY <1>4, <1>6, <1>7
<1>9. hs[j].data = IF fs[f].worker = "code" THEN j - b[f - 1] ELSE 0
  BY <1>3 DEF Segments, f
<1> QED BY <1>3, <1>8, <1>9 DEF f

(* The handler of last resort, which catches what nobody else does, is there. *)
LastResort(b, i, v, gs, ks) ==
  IF i >= 2 /\ gs[2].worker = "uncaught"
  THEN ks[IF i = 2 THEN v ELSE b[2]].state = "TRYING" ELSE ks[1].state = "TRYING"

(***************************************************************************)
(* How the stacks are rebuilt in every step: below frame i nothing         *)
(* changes, and frame i is the new top with the entries from b[i - 1] to v *)
(***************************************************************************)
Rebuilds(b, i, v, gs, ks, m) ==
  /\ i \in 1..(Len(frames) + 1) /\ v \in Nat /\ v = b[i - 1] + gs[i].blocks
  /\ gs \in Seq(Frame) /\ Len(gs) = i /\ ks \in Seq(Handler) /\ v <= Len(ks)
  /\ \A x \in 1..(i - 1) : gs[x].blocks = frames[x].blocks /\ gs[x].worker = frames[x].worker
  /\ \A j \in 1..b[i - 1] : ks[j].frame = handlers[j].frame /\ ks[j].data = handlers[j].data
  /\ \A j \in (b[i - 1] + 1)..v :
       ks[j].frame = i /\ ks[j].data = (IF gs[i].worker = "code" THEN j - b[i - 1] ELSE 0)
  /\ \/ Len(ks) = v
     \/ /\ i = 1 /\ m = "run" /\ Len(ks) = 2
        /\ ks[2].frame = 2 /\ ks[2].state = "HANDLING" /\ ks[2].data = 0
  /\ LastResort(b, i, v, gs, ks)

(* After such a step the stacks are in step again. *)
LEMMA Rebuilt ==
  ASSUME frames \in Seq(Frame), handlers \in Seq(Handler), NEW b, Segments(frames, handlers, b),
         NEW i, NEW v, NEW gs, NEW ks, NEW m, Rebuilds(b, i, v, gs, ks, m)
  PROVE  InStep(gs, ks, m)
<1> DEFINE fs == frames
           hs == handlers
           n == Len(frames)
<1>T. /\ gs \in Seq(Frame) /\ Len(gs) = i /\ ks \in Seq(Handler) /\ v <= Len(ks)
      /\ fs \in Seq(Frame) /\ hs \in Seq(Handler) /\ n \in Nat
  BY Zenon, LenProperties DEF Rebuilds
<1>N. i \in Nat /\ i >= 1 /\ i <= n + 1 /\ v \in Nat /\ n \in Nat
  <2>1. i \in 1..(n + 1) /\ v \in Nat
    BY Zenon DEF Rebuilds
  <2> HIDE DEF n
  <2> QED BY <1>T, <2>1
<1>S. Segments(fs, hs, b)
  OBVIOUS
<1>V. v = b[i - 1] + gs[i].blocks
  BY Zenon DEF Rebuilds
<1>F. \A x \in 1..(i - 1) : gs[x].blocks = fs[x].blocks /\ gs[x].worker = fs[x].worker
  BY Zenon DEF Rebuilds
<1>H. \A j \in 1..b[i - 1] : ks[j].frame = hs[j].frame /\ ks[j].data = hs[j].data
  BY Zenon DEF Rebuilds
<1>E. \A j \in (b[i - 1] + 1)..v :
        ks[j].frame = i /\ ks[j].data = (IF gs[i].worker = "code" THEN j - b[i - 1] ELSE 0)
  BY Zenon DEF Rebuilds
<1>K. \/ Len(ks) = v
      \/ /\ i = 1 /\ m = "run" /\ Len(ks) = 2
         /\ ks[2].frame = 2 /\ ks[2].state = "HANDLING" /\ ks[2].data = 0
  BY Zenon DEF Rebuilds
<1>L. LastResort(b, i, v, gs, ks)
  BY Zenon DEF Rebuilds
<1> DEFINE c == [x \in 0..i |-> IF x = i THEN v ELSE b[x]]
<1>1. i - 1 \in 0..n /\ n \in 0..n /\ 0 \in 0..n
  BY <1>N
<1>2. /\ b \in [0..n -> Nat] /\ b[0] = 0 /\ b[n] \in Nat
      /\ \A x, k \in 0..n : x <= k => b[x] <= b[k]
      /\ \A x \in 1..n : b[x] = b[x - 1] + fs[x].blocks
      /\ \A j \in 1..b[n] :
           /\ hs[j].frame \in 1..n /\ b[hs[j].frame - 1] < j /\ j <= b[hs[j].frame]
           /\ hs[j].data = IF fs[hs[j].frame].worker = "code" THEN j - b[hs[j].frame - 1] ELSE 0
  BY <1>S, <1>1 DEF Segments
<1> HIDE DEF n, fs, hs
<1>B. b[i - 1] \in Nat
  BY <1>1, <1>2
<1>3. c[i] = v /\ \A x \in 0..(i - 1) : c[x] = b[x]
  BY <1>N
<1>4. c \in [0..i -> Nat] /\ c[0] = 0
  BY <1>N, <1>2
<1> HIDE DEF c
<1>5. gs[i].blocks \in Nat
  <2>1. gs[i] \in Frame
    BY <1>N, <1>T
  <2> QED BY <2>1 DEF Frame
<1>6. ASSUME NEW x \in 1..i PROVE c[x] = c[x - 1] + gs[x].blocks
  <2>1. CASE x = i
    <3>1. i - 1 \in 0..(i - 1)
      BY <1>N
    <3> QED BY <1>V, <1>3, <2>1, <3>1
  <2>2. CASE x # i
    <3>1. x \in 1..(i - 1) /\ x \in 0..(i - 1) /\ x - 1 \in 0..(i - 1) /\ x \in 1..n
      BY <1>N, <2>2
    <3>2. b[x] = b[x - 1] + fs[x].blocks
      BY <1>2, <3>1
    <3> QED BY <1>F, <1>3, <3>1, <3>2
  <2> QED BY <2>1, <2>2
<1>7. ASSUME NEW x \in 0..i, NEW k \in 0..i, x <= k PROVE c[x] <= c[k]
  <2>1. b[i - 1] <= v
    BY <1>V, <1>B, <1>5
  <2>2. CASE k = i /\ x = i
    BY <1>N, <1>3, <2>2
  <2>3. CASE k = i /\ x # i
    <3>1. x \in 0..(i - 1) /\ x \in 0..n /\ x <= i - 1
      BY <1>N, <2>3
    <3>2. b[x] <= b[i - 1] /\ b[x] \in Nat
      BY <1>1, <1>2, <3>1
    <3>3. c[x] = b[x] /\ c[k] = v
      BY <1>3, <2>3, <3>1
    <3> QED BY <1>N, <1>B, <2>1, <3>2, <3>3
  <2>4. CASE k # i
    <3>1. x \in 0..(i - 1) /\ x \in 0..n /\ k \in 0..(i - 1) /\ k \in 0..n
      BY <1>N, <1>7, <2>4
    <3> QED BY <1>2, <1>3, <1>7, <3>1
  <2> QED BY <2>2, <2>3, <2>4
<1>8. ASSUME NEW j \in 1..v
      PROVE  /\ ks[j].frame \in 1..i /\ c[ks[j].frame - 1] < j /\ j <= c[ks[j].frame]
             /\ ks[j].data = IF gs[ks[j].frame].worker = "code" THEN j - c[ks[j].frame - 1] ELSE 0
  <2>1. CASE j <= b[i - 1]
    <3> DEFINE f == hs[j].frame
    <3>1. j \in 1..b[i - 1] /\ j \in 1..b[n]
      <4>1. b[i - 1] <= b[n]
        BY <1>N, <1>1, <1>2
      <4> QED BY <1>B, <1>2, <2>1, <4>1
    <3>2. /\ f \in 1..n /\ b[f - 1] < j /\ j <= b[f]
          /\ hs[j].data = IF fs[f].worker = "code" THEN j - b[f - 1] ELSE 0
      BY <1>2, <3>1
    <3>6. ks[j].frame = f /\ ks[j].data = hs[j].data
      BY <1>H, <3>1
    <3> HIDE DEF f
    <3>3. f - 1 \in 0..n /\ b[f - 1] \in Nat
      <4>1. f - 1 \in 0..n
        BY <1>N, <3>2
      <4> QED BY <1>2, <4>1
    <3>4. ~(i - 1 <= f - 1)
      <4>1. i - 1 <= f - 1 => b[i - 1] <= b[f - 1]
        BY <1>1, <1>2, <3>3
      <4> QED BY <1>B, <2>1, <3>2, <3>3, <4>1
    <3>5. f \in 1..(i - 1) /\ f \in 0..(i - 1) /\ f - 1 \in 0..(i - 1) /\ f \in 1..i
      BY <1>N, <3>2, <3>4
    <3>7. c[f - 1] = b[f - 1] /\ c[f] = b[f] /\ gs[f].worker = fs[f].worker
      BY <1>F, <1>3, <3>5
    <3> QED BY <3>2, <3>5, <3>6, <3>7
  <2>2. CASE ~(j <= b[i - 1])
    <3>1. j \in (b[i - 1] + 1)..v
      BY <1>N, <1>B, <2>2
    <3>2. ks[j].frame = i /\ ks[j].data = IF gs[i].worker = "code" THEN j - b[i - 1] ELSE 0
      BY <1>E, <3>1
    <3>3. c[i - 1] = b[i - 1] /\ c[i] = v /\ i \in 1..i
      <4>1. i - 1 \in 0..(i - 1) /\ i \in 1..i
        BY <1>N
      <4> QED BY <1>3, <4>1
    <3>4. b[i - 1] < j /\ j <= v
      BY <1>N, <3>1, <1>B
    <3> QED BY <3>2, <3>3, <3>4
  <2> QED BY <2>1, <2>2
<1>9. Segments(gs, ks, c)
  BY <1>T, <1>3, <1>4, <1>6, <1>7, <1>8 DEF Segments
<1>10. Tops(gs, ks, m, c)
  BY <1>T, <1>3, <1>K DEF Tops
<1>11. Caught(gs, ks, c)
  <2>1. i > 2 => c[2] = b[2]
    BY <1>N, <1>3
  <2>2. i >= 2 => c[2] = IF i = 2 THEN v ELSE b[2]
    BY <1>N, <1>3, <2>1
  <2> QED BY <1>T, <1>L, <2>2 DEF Caught, LastResort
<1> QED BY <1>9, <1>10, <1>11 DEF InStep

(***************************************************************************)
(* What is known of the two stacks while the thread is active, for the     *)
(* bounds b of the entries of the frames                                   *)
(***************************************************************************)
Known(b) ==
  /\ Segments(frames, handlers, b) /\ Caught(frames, handlers, b)
  /\ Tops(frames, handlers, mode, b)
  /\ b \in [0..Len(frames) -> Nat] /\ b[0] = 0 /\ b[1] = 1
  /\ \A x, k \in 0..Len(frames) : x <= k => b[x] <= b[k]
  /\ \A x \in 1..Len(frames) : b[x] = b[x - 1] + frames[x].blocks
  /\ Len(handlers) \in Nat /\ b[Len(frames)] <= Len(handlers)
  /\ Len(frames) >= 2 => Len(handlers) = b[Len(frames)]

(* There are such bounds as long as the thread is active. *)
LEMMA StacksInStep ==
  ASSUME MatchInv, Active
  PROVE  \E b : Known(b)
<1>1. PICK b : /\ Segments(frames, handlers, b) /\ Tops(frames, handlers, mode, b)
               /\ Caught(frames, handlers, b)
  BY DEF MatchInv, InStep
<1>2. frames \in Seq(Frame) /\ Len(frames) \in Nat /\ Len(frames) >= 1 /\ handlers \in Seq(Handler)
  BY DEF MatchInv, StackInv, TypeOK
<1>3. 1 \in 1..Len(frames) /\ frames[1].blocks = 1
  BY <1>2 DEF MatchInv, Shape
<1>4. b[0] = 0 /\ b[1] = b[1 - 1] + frames[1].blocks
  BY <1>1, <1>3 DEF Segments
<1>5. b[1] = 1
  BY <1>3, <1>4
<1>6. Len(frames) >= 2 => Len(handlers) = b[Len(frames)]
  BY <1>1, <1>2 DEF Tops
<1>7. /\ b \in [0..Len(frames) -> Nat] /\ b[Len(frames)] <= Len(handlers)
      /\ \A x, k \in 0..Len(frames) : x <= k => b[x] <= b[k]
      /\ \A x \in 1..Len(frames) : b[x] = b[x - 1] + frames[x].blocks
  BY <1>1 DEF Segments
<1>8. Len(handlers) \in Nat
  BY <1>2
<1> QED BY <1>1, <1>4, <1>5, <1>6, <1>7, <1>8, Zenon DEF Known

(* ActivateNextHandler finds the entry nearest to the top. *)
LEMMA NearestTrying ==
  ASSUME handlers \in Seq(Handler), Trying # {}
  PROVE  Nearest \in Trying /\ \A k \in Trying : k <= Nearest
<1> DEFINE n == Len(handlers)
           D == {n - j : j \in Trying}
<1>1. n \in Nat /\ Trying \subseteq 1..n
  BY DEF Trying
<1>2. D \in SUBSET Nat /\ D # {}
  <2>1. \A j \in Trying : n - j \in Nat
    BY <1>1
  <2> HIDE DEF n
  <2> QED BY <2>1
<1>3. PICK d \in D : \A e \in D : d <= e
  BY <1>2, LeastNat
<1>4. PICK j \in Trying : d = n - j
  BY <1>3
<1>5. \A k \in Trying : k <= j
  <2> TAKE k \in Trying
  <2>1. n - j <= n - k
    BY <1>3, <1>4
  <2>2. k \in 1..n /\ j \in 1..n
    BY <1>1
  <2> QED BY <1>1, <2>1, <2>2
<1> QED BY <1>4, <1>5 DEF Nearest

(* The frames that stay keep their order. *)
LEMMA ShapeCut ==
  ASSUME NEW fs \in Seq(Frame), NEW m, Shape(fs, m), NEW i \in 1..Len(fs), NEW n
  PROVE  n # "raise" => Shape(SubSeq(fs, 1, i), n)
<1>1. /\ SubSeq(fs, 1, i) \in Seq(Frame) /\ Len(SubSeq(fs, 1, i)) = i
      /\ \A x \in 1..i : SubSeq(fs, 1, i)[x] = fs[x]
  OBVIOUS
<1> QED BY <1>1 DEF Shape

(* A frame of a procedure may come on top. *)
LEMMA ShapePush ==
  ASSUME NEW fs \in Seq(Frame), fs # <<>>, NEW m, Shape(fs, m), NEW n
  PROVE  n # "raise" => Shape(Append(fs, NewFrame("code", 0, 0)), n)
<1> DEFINE code == NewFrame("code", 0, 0)
           gs == Append(fs, code)
<1>1. code \in Frame /\ code.worker = "code" /\ code.blocks = 0
  BY DEF NewFrame, Frame, Worker
<1> HIDE DEF code
<1>2. /\ Len(fs) \in Nat /\ Len(fs) >= 1 /\ Len(gs) = Len(fs) + 1 /\ gs[Len(fs) + 1] = code
      /\ \A x \in 1..Len(fs) : gs[x] = fs[x]
  BY <1>1
<1> HIDE DEF gs
<1>3. n # "raise" => Shape(gs, n)
  BY <1>1, <1>2 DEF Shape
<1> QED BY <1>3 DEF gs, code

(* The top frame may change in other respects than its worker. *)
LEMMA ShapeTop ==
  ASSUME NEW fs \in Seq(Frame), fs # <<>>, NEW m, Shape(fs, m), NEW f \in Frame,
         f.worker = fs[Len(fs)].worker,
         \/ f.blocks = fs[Len(fs)].blocks
         \/ f.worker = "code"
         \/ f.worker = "uncaught" /\ f.blocks > 0,
         NEW n, n # "raise"
  PROVE  Shape([fs EXCEPT ![Len(fs)] = f], n)
<1> DEFINE gs == [fs EXCEPT ![Len(fs)] = f]
<1>1. Len(fs) \in 1..Len(fs)
  OBVIOUS
<1>2. gs \in Seq(Frame) /\ Len(gs) = Len(fs) /\ gs[Len(fs)] = f
      /\ \A x \in 1..Len(fs) : x # Len(fs) => gs[x] = fs[x]
  BY <1>1, ExceptSeq
<1>3. Len(fs) = 1 => f.worker = "empty" /\ f.blocks = 1
  BY DEF Shape
<1> HIDE DEF gs
<1>4. Shape(gs, n)
  BY <1>1, <1>2, <1>3 DEF Shape
<1> QED BY <1>4 DEF gs

-----------------------------------------------------------------------------
(* The shape of the stacks after a step *)
Kept == Shape(frames', mode') /\ (Active' => InStep(frames', handlers', mode'))

(* Types and shape, as every step needs them *)
LEMMA StackFacts ==
  ASSUME MatchInv
  PROVE  /\ frames \in Seq(Frame) /\ frames # <<>> /\ Len(frames) \in Nat /\ Len(frames) >= 1
         /\ handlers \in Seq(Handler) /\ Len(handlers) \in Nat
         /\ top \in Frame /\ top.blocks \in Nat /\ Shape(frames, mode)
         /\ top.worker # "empty" => Len(frames) >= 2
         /\ top.worker # "empty" /\ top.worker # "code" => Len(frames) = 2
<1>1. frames \in Seq(Frame) /\ frames # <<>> /\ handlers \in Seq(Handler) /\ Shape(frames, mode)
  BY DEF MatchInv, StackInv, TypeOK
<1>2. Len(frames) \in Nat /\ Len(frames) >= 1 /\ Len(handlers) \in Nat /\ Len(frames) \in 1..Len(frames)
  BY <1>1
<1>3. top \in Frame /\ top.blocks \in Nat
  <2>1. top \in Frame
    BY <1>1, <1>2 DEF top
  <2> QED BY <2>1 DEF Frame
<1>4. top.worker # "empty" => Len(frames) >= 2
  BY <1>1, <1>2 DEF Shape, top
<1>5. top.worker # "empty" /\ top.worker # "code" => Len(frames) = 2
  <2>1. Len(frames) >= 3 => Len(frames) \in 3..Len(frames)
    BY <1>2
  <2>2. Len(frames) >= 3 => top.worker = "code"
    BY <1>1, <2>1 DEF Shape, top
  <2>3. \A m \in Nat : m >= 2 /\ ~(m >= 3) => m = 2
    OBVIOUS
  <2> QED BY <1>2, <1>4, <2>2, <2>3
<1> QED BY <1>1, <1>2, <1>3, <1>4, <1>5

(* A call leaves the handlers as they are: the new frame has no block. *)
LEMMA CallKeeps ==
  ASSUME MatchInv, Call
  PROVE  Kept
<1> DEFINE n == Len(frames)
           code == NewFrame("code", 0, 0)
           gs == Append(frames, code)
<1>1. /\ frames' = gs /\ handlers' = handlers /\ mode' = "run" /\ mode = "run" /\ Active
      /\ top.worker = "code"
  BY DEF Call, Runs, PushFrame, Active
<1>2. PICK b : Known(b)
  BY <1>1, StacksInStep
<1>3. /\ frames \in Seq(Frame) /\ frames # <<>> /\ n \in Nat /\ n >= 2 /\ Shape(frames, mode)
      /\ handlers \in Seq(Handler) /\ Len(handlers) \in Nat
  BY <1>1, StackFacts
<1>4. Shape(gs, "run")
  BY <1>3, ShapePush
<1>5. code \in Frame /\ code.worker = "code" /\ code.blocks = 0
  BY DEF NewFrame, Frame, Worker
<1> HIDE DEF code
<1>6. /\ gs \in Seq(Frame) /\ Len(gs) = n + 1 /\ gs[n + 1] = code
      /\ \A x \in 1..n : gs[x] = frames[x]
  BY <1>3, <1>5
<1> HIDE DEF gs
<1>7. b[n] \in Nat /\ Len(handlers) = b[n]
  BY <1>2, <1>3 DEF Known
<1>8. IF gs[2].worker = "uncaught" THEN handlers[b[2]].state = "TRYING"
                                  ELSE handlers[1].state = "TRYING"
  BY <1>2, <1>3, <1>6 DEF Known, Caught
<1> HIDE DEF n
<1>9. Rebuilds(b, n + 1, b[n], gs, handlers, "run")
  BY <1>3, <1>5, <1>6, <1>7, <1>8 DEF Rebuilds, LastResort, n
<1>10. InStep(gs, handlers, "run")
  BY <1>2, <1>3, <1>9, Rebuilt DEF Known
<1> QED BY <1>1, <1>4, <1>10 DEF Kept

(***************************************************************************)
(* A frame without blocks is popped: a procedure returns, or the frame of  *)
(* SignalTranslationInterpreter goes.                                      *)
(***************************************************************************)
LEMMA PopKeeps ==
  ASSUME MatchInv, Return \/ SignalRun
  PROVE  Kept
<1> DEFINE n == Len(frames)
           i == n - 1
           gs == SubSeq(frames, 1, n - 1)
<1>1. /\ frames' = gs /\ handlers' = handlers /\ mode' = "run" /\ mode = "run" /\ Active
      /\ top.worker = "code" \/ top.worker = "signal"
      /\ (Return => top.blocks = 0)
  BY DEF Return, SignalRun, Runs, PopFrame, Active
<1>2. PICK b : Known(b)
  BY <1>1, StacksInStep
<1>3. /\ frames \in Seq(Frame) /\ frames # <<>> /\ n \in Nat /\ n >= 2 /\ Shape(frames, mode)
      /\ handlers \in Seq(Handler) /\ Len(handlers) \in Nat
  BY <1>1, StackFacts
<1>4. Shape(gs, "run")
  <2>1. i \in 1..Len(frames)
    BY <1>3
  <2> QED BY <1>3, <2>1, ShapeCut
<1>5. n \in 2..Len(frames) /\ n \in 1..Len(frames) /\ i \in 1..n /\ i \in 0..n /\ n \in 0..n /\ i - 1 \in 0..n
  BY <1>3
<1>6. /\ gs \in Seq(Frame) /\ Len(gs) = i /\ \A x \in 1..i : gs[x] = frames[x]
  BY <1>3
<1>7. top.blocks = 0
  <2>1. top.worker = "signal" => top.blocks = 0
    BY <1>3, <1>5 DEF Shape, top
  <2>2. SignalRun => top.worker = "signal"
    BY DEF SignalRun, Runs
  <2> QED BY <1>1, <2>1, <2>2
<1>8. /\ b \in [0..n -> Nat] /\ b[n] = b[n - 1] + top.blocks /\ Len(handlers) = b[n]
      /\ b[i] = b[i - 1] + frames[i].blocks /\ Segments(frames, handlers, b)
  BY <1>2, <1>3, <1>5 DEF Known, top
<1>9. \A j \in (b[i - 1] + 1)..b[i] :
        handlers[j].frame = i
        /\ handlers[j].data = IF frames[i].worker = "code" THEN j - b[i - 1] ELSE 0
  <2> HIDE DEF i
  <2> QED BY <1>3, <1>5, <1>8, InSegment
<1>10. IF i >= 2 /\ frames[2].worker = "uncaught" THEN handlers[b[2]].state = "TRYING"
                                  ELSE handlers[1].state = "TRYING"
  <2>1. n = 2 => frames[2].worker # "uncaught"
    BY <1>1 DEF top
  <2>2. IF frames[2].worker = "uncaught" THEN handlers[b[2]].state = "TRYING"
                                  ELSE handlers[1].state = "TRYING"
    BY <1>2, <1>3 DEF Known, Caught
  <2>3. \A m \in Nat : m >= 2 => m - 1 >= 2 \/ m = 2
    OBVIOUS
  <2>4. i >= 2 \/ n = 2
    BY <1>3, <2>3
  <2> QED BY <2>1, <2>2, <2>4
<1> HIDE DEF gs
<1>11. b[i] \in Nat /\ Len(handlers) = b[i] /\ i \in Nat /\ i >= 1 /\ i <= n
  BY <1>3, <1>5, <1>7, <1>8
<1> HIDE DEF i
<1>12. Rebuilds(b, i, b[i], gs, handlers, "run")
  <2>1. i \in 1..(n + 1) /\ i \in 1..i /\ \A x \in 1..(i - 1) : x \in 1..i
    BY <1>3, <1>11
  <2>2. i >= 2 => 2 \in 1..i
    BY <1>11
  <2> HIDE DEF n
  <2> QED BY <1>3, <1>6, <1>8, <1>9, <1>10, <1>11, <2>1, <2>2 DEF Rebuilds, LastResort, n
<1>13. InStep(gs, handlers, "run")
  BY <1>3, <1>8, <1>12, Rebuilt
<1> QED BY <1>1, <1>4, <1>13 DEF Kept

(* The handler of last resort is below the entries of the frame of a procedure. *)
LEMMA CaughtBelow ==
  ASSUME MatchInv, NEW b, Known(b), NEW i \in 2..Len(frames), frames[i].worker = "code",
         NEW gs, \A x \in 1..i : gs[x].worker = frames[x].worker,
         NEW ks, \A j \in 1..b[i - 1] : ks[j].state = handlers[j].state, NEW v
  PROVE  LastResort(b, i, v, gs, ks)
<1> DEFINE n == Len(frames)
<1>1. n \in Nat /\ i \in Nat /\ i >= 2 /\ i <= n /\ 2 \in 1..i /\ 1 \in 0..n /\ 2 \in 0..n /\ i - 1 \in 0..n
  BY StackFacts
<1>2. /\ b \in [0..n -> Nat] /\ b[1] = 1 /\ b[1] <= b[i - 1] /\ (i > 2 => b[2] <= b[i - 1] /\ b[1] <= b[2])
      /\ b[i - 1] \in Nat /\ b[2] \in Nat
  <2>1. b \in [0..n -> Nat] /\ b[1] = 1 /\ \A x, k \in 0..n : x <= k => b[x] <= b[k]
    BY Zenon DEF Known
  <2> HIDE DEF n
  <2>2. 1 <= i - 1 /\ 1 <= 2 /\ (i > 2 => 2 <= i - 1)
    BY <1>1
  <2> QED BY <1>1, <2>1, <2>2
<1>3. IF frames[2].worker = "uncaught" THEN handlers[b[2]].state = "TRYING"
                                      ELSE handlers[1].state = "TRYING"
  BY <1>1 DEF Known, Caught
<1> HIDE DEF n
<1>4. 1 \in 1..b[i - 1] /\ (i > 2 => b[2] \in 1..b[i - 1])
  BY <1>2
<1>5. CASE i = 2
  BY <1>1, <1>3, <1>4, <1>5 DEF LastResort
<1>6. CASE i > 2
  BY <1>1, <1>3, <1>4, <1>6 DEF LastResort
<1> QED BY <1>1, <1>5, <1>6

(* A frame that enters or leaves blocks stays a frame of its worker. *)
LEMMA FrameBlocks ==
  ASSUME NEW f \in Frame, NEW k \in Nat
  PROVE  /\ [f EXCEPT !.blocks = k] \in Frame
         /\ [f EXCEPT !.blocks = k].worker = f.worker
         /\ [f EXCEPT !.blocks = k].blocks = k
         /\ [f EXCEPT !.blocks = k].left = f.left
BY DEF Frame

(* A block is entered: its entry comes on top, for the frame that runs. *)
LEMMA InstallKeeps ==
  ASSUME MatchInv, InstallHandler
  PROVE  Kept
<1> DEFINE n == Len(frames)
           t == [top EXCEPT !.blocks = @ + 1]
           gs == [frames EXCEPT ![n] = t]
           d == top.blocks + 1
           h == NewHandler(n, d)
           ks == Append(handlers, h)
<1>1. /\ frames' = gs /\ handlers' = ks /\ mode' = "run" /\ mode = "run" /\ Active
      /\ top.worker = "code"
  BY DEF InstallHandler, Runs, PushHandler, Active, top
<1>2. PICK b : Known(b)
  BY <1>1, StacksInStep
<1>3. /\ frames \in Seq(Frame) /\ frames # <<>> /\ n \in Nat /\ n >= 2 /\ Shape(frames, mode)
      /\ handlers \in Seq(Handler) /\ Len(handlers) \in Nat /\ top \in Frame /\ top.blocks \in Nat
  BY <1>1, StackFacts
<1>4. n \in 1..n /\ n \in 2..n /\ n - 1 \in 0..n /\ n \in 0..n /\ n \in 1..(n + 1)
  BY <1>3
<1>5. t \in Frame /\ t.worker = "code" /\ t.blocks = top.blocks + 1
  <2>1. top.blocks + 1 \in Nat
    BY <1>3
  <2> QED BY <1>1, <1>3, <2>1, FrameBlocks
<1>6. h \in Handler /\ h.frame = n /\ h.data = d /\ d = top.blocks + 1
  BY <1>3 DEF Handler, NewHandler
<1> HIDE DEF h, t, d
<1>7. Shape(gs, "run")
  <2>1. frames[Len(frames)].worker = "code"
    BY <1>1 DEF top
  <2> QED BY <1>3, <1>5, <2>1, ShapeTop
<1>8. /\ gs \in Seq(Frame) /\ Len(gs) = n /\ gs[n] = t
      /\ \A x \in 1..n : x # n => gs[x] = frames[x]
  BY <1>3, <1>4, <1>5, ExceptSeq
<1>9. /\ b \in [0..n -> Nat] /\ b[n] = b[n - 1] + top.blocks /\ Len(handlers) = b[n]
      /\ Segments(frames, handlers, b)
  BY <1>2, <1>3, <1>4 DEF Known, top
<1>10. b[n] \in Nat /\ b[n - 1] \in Nat /\ b[n - 1] <= b[n]
  BY <1>3, <1>4, <1>9
<1>11. /\ ks \in Seq(Handler) /\ Len(ks) = b[n] + 1 /\ ks[b[n] + 1] = h
       /\ \A j \in 1..b[n] : ks[j] = handlers[j]
  BY <1>3, <1>6, <1>9, <1>10, AppendProperties
<1> HIDE DEF gs, ks
<1>12. \A j \in (b[n - 1] + 1)..(b[n] + 1) :
         ks[j].frame = n /\ ks[j].data = (IF gs[n].worker = "code" THEN j - b[n - 1] ELSE 0)
  <2> TAKE j \in (b[n - 1] + 1)..(b[n] + 1)
  <2>1. CASE j = b[n] + 1
    <3>1. j - b[n - 1] = d
      BY <1>6, <1>9, <1>10, <1>3, <2>1
    <3> QED BY <1>5, <1>6, <1>8, <1>11, <2>1, <3>1
  <2>2. CASE j # b[n] + 1
    <3>1. j \in (b[n - 1] + 1)..b[n] /\ j \in 1..b[n]
      BY <1>10, <2>2
    <3>2. /\ handlers[j].frame = n
          /\ handlers[j].data = IF frames[n].worker = "code" THEN j - b[n - 1] ELSE 0
      BY <1>3, <1>4, <1>9, <3>1, InSegment
    <3> QED BY <1>1, <1>5, <1>8, <1>11, <3>1, <3>2 DEF top
  <2> QED BY <2>1, <2>2
<1>13. \A x \in 1..n : gs[x].worker = frames[x].worker
  BY <1>1, <1>5, <1>8 DEF top
<1>14. \A j \in 1..b[n - 1] : ks[j] = handlers[j]
  BY <1>10, <1>11
<1>15. LastResort(b, n, b[n] + 1, gs, ks)
  <2>1. n \in 2..Len(frames) /\ frames[n].worker = "code"
    BY <1>1, <1>4 DEF top
  <2>2. \A j \in 1..b[n - 1] : ks[j].state = handlers[j].state
    BY <1>14
  <2> HIDE DEF n
  <2> QED BY <1>2, <1>13, <2>1, <2>2, CaughtBelow, Zenon
<1>16. b[n] + 1 \in Nat /\ b[n] + 1 = b[n - 1] + gs[n].blocks
  BY <1>3, <1>5, <1>8, <1>9, <1>10
<1>17. \A x \in 1..(n - 1) : gs[x].blocks = frames[x].blocks /\ gs[x].worker = frames[x].worker
  BY <1>3, <1>8
<1> HIDE DEF n
<1>18. Rebuilds(b, n, b[n] + 1, gs, ks, "run")
  BY <1>4, <1>8, <1>11, <1>12, <1>14, <1>15, <1>16, <1>17 DEF Rebuilds, n
<1>19. InStep(gs, ks, "run")
  BY <1>3, <1>9, <1>18, Rebuilt
<1> QED BY <1>1, <1>7, <1>19 DEF Kept


(***************************************************************************)
(* The stacks are cut down to the frame i of a procedure and to k of the   *)
(* entries of its blocks: a block is left, or a handler of the frame is    *)
(* activated.                                                              *)
(***************************************************************************)
CutDown(b, i, k, gs, ks) ==
  /\ i \in 2..Len(frames) /\ frames[i].worker = "code" /\ k \in 0..frames[i].blocks
  /\ gs \in Seq(Frame) /\ Len(gs) = i /\ gs[i].worker = "code" /\ gs[i].blocks = k
  /\ \A x \in 1..(i - 1) : gs[x] = frames[x]
  /\ ks \in Seq(Handler) /\ Len(ks) = b[i - 1] + k
  /\ \A j \in 1..(b[i - 1] + k) : ks[j].frame = handlers[j].frame /\ ks[j].data = handlers[j].data
  /\ \A j \in 1..b[i - 1] : ks[j].state = handlers[j].state

(* The stacks are then in step. *)
LEMMA CutDownKeeps ==
  ASSUME MatchInv, NEW b, Known(b), NEW i, NEW k, NEW gs, NEW ks, CutDown(b, i, k, gs, ks)
  PROVE  Shape(gs, "run") /\ InStep(gs, ks, "run")
<1> DEFINE n == Len(frames)
           v == b[i - 1] + k
<1>1. /\ frames \in Seq(Frame) /\ n \in Nat /\ Shape(frames, mode) /\ handlers \in Seq(Handler)
  BY StackFacts
<1>2. /\ i \in 2..n /\ frames[i].worker = "code" /\ k \in 0..frames[i].blocks
      /\ gs \in Seq(Frame) /\ Len(gs) = i /\ gs[i].worker = "code" /\ gs[i].blocks = k
      /\ \A x \in 1..(i - 1) : gs[x] = frames[x]
      /\ ks \in Seq(Handler) /\ Len(ks) = v
      /\ \A j \in 1..v : ks[j].frame = handlers[j].frame /\ ks[j].data = handlers[j].data
      /\ \A j \in 1..b[i - 1] : ks[j].state = handlers[j].state
  BY DEF CutDown
<1>3. i \in Nat /\ i >= 2 /\ i <= n /\ i \in 1..n /\ i \in 1..i /\ i - 1 \in 0..n /\ i \in 0..n /\ i \in 1..(n + 1)
  BY <1>1, <1>2
<1>4. frames[i].blocks \in Nat
  <2>1. frames[i] \in Frame
    BY <1>1, <1>3
  <2> QED BY <2>1 DEF Frame
<1>5. b[i - 1] \in Nat /\ b[i] \in Nat /\ b[i] = b[i - 1] + frames[i].blocks /\ Segments(frames, handlers, b)
  BY <1>3 DEF Known
<1>6. v \in Nat /\ v >= b[i - 1] /\ v <= b[i] /\ k \in Nat
  BY <1>2, <1>4, <1>5
<1>7. \A x \in 1..i : gs[x].worker = frames[x].worker
  BY <1>2, <1>3
<1>8. Shape(gs, "run")
  <2>1. 1 \in 1..(i - 1) /\ \A x \in 2..i : x \in 2..n /\ (x = i \/ x \in 1..(i - 1))
    BY <1>1, <1>3
  <2>2. \A x \in 3..i : x \in 3..n /\ (x = i \/ x \in 1..(i - 1))
    BY <1>1, <1>3
  <2>3. /\ frames[1].worker = "empty" /\ frames[1].blocks = 1
        /\ \A x \in 2..n : frames[x].worker # "empty"
        /\ \A x \in 3..n : frames[x].worker = "code"
        /\ \A x \in 2..n : /\ frames[x].worker = "bind" => frames[x].blocks = 1
                           /\ frames[x].worker = "signal" => frames[x].blocks = 0
                           /\ frames[x].worker = "uncaught" => frames[x].blocks > 0
    BY <1>1 DEF Shape
  <2> HIDE DEF n
  <2> QED BY <1>2, <2>1, <2>2, <2>3 DEF Shape
<1>9. LastResort(b, i, v, gs, ks)
  <2> HIDE DEF v
  <2> QED BY <1>2, <1>7, CaughtBelow
<1>10. \A j \in (b[i - 1] + 1)..v :
         ks[j].frame = i /\ ks[j].data = (IF gs[i].worker = "code" THEN j - b[i - 1] ELSE 0)
  <2> TAKE j \in (b[i - 1] + 1)..v
  <2>1. j \in (b[i - 1] + 1)..b[i] /\ j \in 1..v
    BY <1>5, <1>6
  <2>2. handlers[j].frame = i /\ handlers[j].data = IF frames[i].worker = "code" THEN j - b[i - 1] ELSE 0
    BY <1>1, <1>3, <1>5, <2>1, InSegment
  <2> QED BY <1>2, <2>1, <2>2
<1>11. \A j \in 1..b[i - 1] : ks[j].frame = handlers[j].frame /\ ks[j].data = handlers[j].data
  <2> HIDE DEF v
  <2>1. \A j \in 1..b[i - 1] : j \in 1..v
    BY <1>5, <1>6
  <2> QED BY <1>2, <2>1
<1>12. \A x \in 1..(i - 1) : gs[x].blocks = frames[x].blocks /\ gs[x].worker = frames[x].worker
  BY <1>2
<1>13. v = b[i - 1] + gs[i].blocks /\ v <= Len(ks)
  BY <1>2, <1>6
<1> HIDE DEF v, n
<1>14. Rebuilds(b, i, v, gs, ks, "run")
  BY <1>2, <1>3, <1>6, <1>9, <1>10, <1>11, <1>12, <1>13 DEF Rebuilds, n
<1>15. InStep(gs, ks, "run")
  BY <1>1, <1>5, <1>14, Rebuilt
<1> QED BY <1>8, <1>15

(* A block is left: the entry on top was its entry. *)
LEMMA RemoveKeeps ==
  ASSUME MatchInv, RemoveHandler
  PROVE  Kept
<1> DEFINE n == Len(frames)
           k == top.blocks - 1
           t == [top EXCEPT !.blocks = @ - 1]
           gs == [frames EXCEPT ![n] = t]
           ks == SubSeq(handlers, 1, Len(handlers) - 1)
<1>1. /\ frames' = gs /\ handlers' = ks /\ mode' = "run" /\ mode = "run" /\ Active
      /\ top.worker = "code" /\ top.blocks > 0
  BY DEF RemoveHandler, Runs, PopHandler, Active, top
<1>2. PICK b : Known(b)
  BY <1>1, StacksInStep
<1>3. /\ frames \in Seq(Frame) /\ n \in Nat /\ n >= 2
      /\ handlers \in Seq(Handler) /\ Len(handlers) \in Nat /\ top \in Frame /\ top.blocks \in Nat
  BY <1>1, StackFacts
<1>4. n \in 1..n /\ n \in 2..n /\ n - 1 \in 0..n /\ n \in 0..n /\ k \in Nat /\ k \in 0..top.blocks
  BY <1>1, <1>3
<1>5. t \in Frame /\ t.worker = "code" /\ t.blocks = k
  BY <1>1, <1>3, <1>4, FrameBlocks
<1> HIDE DEF t
<1>6. /\ gs \in Seq(Frame) /\ Len(gs) = n /\ gs[n] = t
      /\ \A x \in 1..n : x # n => gs[x] = frames[x]
  BY <1>3, <1>4, <1>5, ExceptSeq
<1>7. b[n - 1] \in Nat /\ b[n] = b[n - 1] + top.blocks /\ Len(handlers) = b[n]
  BY <1>2, <1>3, <1>4 DEF Known, top
<1>8. /\ ks \in Seq(Handler) /\ Len(ks) = Len(handlers) - 1
      /\ \A j \in 1..(Len(handlers) - 1) : ks[j] = handlers[j]
  <2>1. Len(handlers) - 1 \in Nat /\ Len(handlers) - 1 <= Len(handlers)
    BY <1>1, <1>3, <1>7
  <2>2. \A m \in Nat : m <= Len(handlers) =>
          /\ SubSeq(handlers, 1, m) \in Seq(Handler) /\ Len(SubSeq(handlers, 1, m)) = m
          /\ \A j \in 1..m : SubSeq(handlers, 1, m)[j] = handlers[j]
    BY <1>3
  <2> QED BY <2>1, <2>2, Zenon
<1>9. Len(handlers) - 1 = b[n - 1] + k
  BY <1>3, <1>7
<1>10. \A j \in 1..b[n - 1] : j \in 1..(b[n - 1] + k)
  BY <1>4, <1>7
<1>11. \A x \in 1..(n - 1) : gs[x] = frames[x]
  <2>1. \A x \in 1..(n - 1) : x \in 1..n /\ x # n
    BY <1>3
  <2> QED BY <1>6, <2>1
<1> HIDE DEF gs, ks, k
<1>12. frames[n].worker = "code" /\ frames[n].blocks = top.blocks
  BY <1>1 DEF top
<1> HIDE DEF n
<1>13. CutDown(b, n, k, gs, ks)
  BY <1>4, <1>5, <1>6, <1>8, <1>9, <1>10, <1>11, <1>12 DEF CutDown, n
<1>14. Shape(gs, "run") /\ InStep(gs, ks, "run")
  BY <1>2, <1>13, CutDownKeeps
<1> QED BY <1>1, <1>14 DEF Kept


-----------------------------------------------------------------------------
(* ActivateNextHandler changes the state of the entry that it finds only. *)
LEMMA ActivatedEntries ==
  ASSUME handlers \in Seq(Handler), Nearest \in 1..Len(handlers)
  PROVE  /\ Activated \in Seq(Handler) /\ Len(Activated) = Nearest
         /\ \A j \in 1..Nearest : Activated[j].frame = handlers[j].frame /\ Activated[j].data = handlers[j].data
         /\ \A j \in 1..Nearest : j # Nearest => Activated[j] = handlers[j]
         /\ Activated[Nearest].state = "HANDLING"
<1> DEFINE hs == SubSeq(handlers, 1, Nearest)
           h == [handlers[Nearest] EXCEPT !.state = "HANDLING"]
<1>1. hs \in Seq(Handler) /\ Len(hs) = Nearest /\ \A j \in 1..Nearest : hs[j] = handlers[j]
  OBVIOUS
<1>2. Nearest \in 1..Nearest /\ handlers[Nearest] \in Handler
  OBVIOUS
<1>3. /\ h \in Handler /\ h.state = "HANDLING"
      /\ h.frame = handlers[Nearest].frame /\ h.data = handlers[Nearest].data
  BY <1>2 DEF Handler
<1>4. Activated = [hs EXCEPT ![Nearest] = h]
  BY <1>1, <1>2 DEF Activated
<1> HIDE DEF hs, h
<1>5. /\ Activated \in Seq(Handler) /\ Len(Activated) = Nearest /\ Activated[Nearest] = h
      /\ \A j \in 1..Nearest : j # Nearest => Activated[j] = hs[j]
  BY <1>1, <1>2, <1>3, <1>4, ExceptSeq
<1> QED BY <1>1, <1>3, <1>5

(***************************************************************************)
(* What is known when an exception has been raised: the entry that is      *)
(* activated is one of the entries of the frame that handles it.           *)
(***************************************************************************)
RaiseKnown(w, b, i) ==
  /\ Known(b) /\ i = handlers[Nearest].frame /\ i \in 1..Len(frames) /\ frames[i].worker = w
  /\ Len(frames) >= 2 /\ Nearest \in 1..Len(handlers) /\ Nearest \in Trying
  /\ \A j \in Trying : j <= Nearest
  /\ b[i - 1] \in Nat /\ b[i] \in Nat /\ b[i] = b[i - 1] + frames[i].blocks
  /\ b[i - 1] < Nearest /\ Nearest <= b[i]
  /\ handlers[Nearest].data = IF w = "code" THEN Nearest - b[i - 1] ELSE 0

(* The fact holds whenever a worker handles an exception. *)
LEMMA RaiseFacts ==
  ASSUME MatchInv, NEW w, Handles(w)
  PROVE  Active /\ \E b : RaiseKnown(w, b, handlers[Nearest].frame)
<1> DEFINE n == Len(frames)
           i == handlers[Nearest].frame
<1>1. /\ Active /\ mode = "raise" /\ Nearest \in Trying /\ i \in 1..n /\ frames[i].worker = w
  BY DEF Active, Handles
<1>2. PICK b : Known(b)
  BY <1>1, StacksInStep
<1>3. /\ frames \in Seq(Frame) /\ n \in Nat /\ handlers \in Seq(Handler)
      /\ Len(handlers) \in Nat /\ Shape(frames, mode)
  BY StackFacts
<1>4. top.worker = "code"
  BY <1>1, <1>3 DEF Shape, top
<1>5. n >= 2
  BY <1>4, StackFacts
<1>6. Nearest \in 1..Len(handlers)
  BY <1>1 DEF Trying
<1>7. \A j \in Trying : j <= Nearest
  BY <1>1, <1>3, NearestTrying
<1>8. Len(handlers) = b[n]
  BY <1>2, <1>5 DEF Known
<1>9. /\ b[i - 1] < Nearest /\ Nearest <= b[i]
      /\ handlers[Nearest].data = IF frames[i].worker = "code" THEN Nearest - b[i - 1] ELSE 0
  BY <1>2, <1>6, <1>8 DEF Known, Segments
<1>10. i - 1 \in 0..n /\ i \in 0..n
  BY <1>1, <1>3
<1>11. b[i - 1] \in Nat /\ b[i] \in Nat /\ b[i] = b[i - 1] + frames[i].blocks
  BY <1>1, <1>2, <1>10 DEF Known
<1>12. RaiseKnown(w, b, i)
  BY <1>1, <1>2, <1>5, <1>6, <1>7, <1>9, <1>11 DEF RaiseKnown
<1> QED BY <1>1, <1>12

(* The handler of a block runs: the frame is inside that block again. *)
LEMMA CodeHandleKeeps ==
  ASSUME MatchInv, CodeHandle
  PROVE  Kept
<1> DEFINE n == Len(frames)
           i == handlers[Nearest].frame
           k == handlers[Nearest].data
           t == [Unrolled[i] EXCEPT !.blocks = k]
           gs == [Unrolled EXCEPT ![i] = t]
<1>1. Handles("code")
  BY DEF CodeHandle
<1>2. PICK b : RaiseKnown("code", b, i)
  BY <1>1, RaiseFacts
<1>3. /\ Known(b) /\ i \in 1..n /\ frames[i].worker = "code"
      /\ Nearest \in 1..Len(handlers)
      /\ b[i - 1] \in Nat /\ b[i] \in Nat /\ b[i] = b[i - 1] + frames[i].blocks
      /\ b[i - 1] < Nearest /\ Nearest <= b[i] /\ k = Nearest - b[i - 1]
  BY <1>2 DEF RaiseKnown
<1>4. /\ frames \in Seq(Frame) /\ n \in Nat /\ handlers \in Seq(Handler)
      /\ Len(handlers) \in Nat /\ Shape(frames, mode)
  BY StackFacts
<1>5. /\ Unrolled \in Seq(Frame) /\ Len(Unrolled) = i
      /\ \A x \in 1..i : Unrolled[x] = frames[x]
  BY <1>3, <1>4, UnrolledKeeps
<1>6. frames' = gs /\ handlers' = Activated /\ mode' = "run"
  BY <1>5 DEF CodeHandle
<1>7. /\ Activated \in Seq(Handler) /\ Len(Activated) = Nearest
      /\ \A j \in 1..Nearest : Activated[j].frame = handlers[j].frame /\ Activated[j].data = handlers[j].data
      /\ \A j \in 1..Nearest : j # Nearest => Activated[j] = handlers[j]
  BY <1>3, <1>4, ActivatedEntries
<1>8. i # 1
  BY <1>3, <1>4 DEF Shape
<1> HIDE DEF i
<1>9. i \in 2..n /\ i \in 1..i
  BY <1>3, <1>4, <1>8
<1>10. frames[i] \in Frame /\ frames[i].blocks \in Nat
  <2>1. frames[i] \in Frame
    BY <1>3, <1>4
  <2> QED BY <2>1 DEF Frame
<1> HIDE DEF k
<1>11. k \in 0..frames[i].blocks /\ k \in Nat /\ Nearest = b[i - 1] + k /\ Nearest \in Nat
  BY <1>3, <1>4, <1>10
<1>12. t \in Frame /\ t.worker = "code" /\ t.blocks = k
  <2>1. Unrolled[i] = frames[i]
    BY <1>5, <1>9
  <2> QED BY <1>3, <1>10, <1>11, <2>1, FrameBlocks
<1> HIDE DEF t
<1>13. /\ gs \in Seq(Frame) /\ Len(gs) = i /\ gs[i] = t
       /\ \A x \in 1..i : x # i => gs[x] = Unrolled[x]
  BY <1>5, <1>9, <1>12, ExceptSeq
<1>14. \A x \in 1..(i - 1) : gs[x] = frames[x]
  <2>1. \A x \in 1..(i - 1) : x \in 1..i /\ x # i
    BY <1>4, <1>9
  <2> QED BY <1>5, <1>13, <2>1
<1>15. \A j \in 1..b[i - 1] : Activated[j].state = handlers[j].state
  <2>1. \A j \in 1..b[i - 1] : j \in 1..Nearest /\ j # Nearest
    BY <1>3, <1>11
  <2> QED BY <1>7, <2>1
<1> HIDE DEF gs, n
<1>16. CutDown(b, i, k, gs, Activated)
  BY <1>3, <1>7, <1>9, <1>11, <1>12, <1>13, <1>14, <1>15 DEF CutDown, n
<1>17. Shape(gs, "run") /\ InStep(gs, Activated, "run")
  BY <1>3, <1>16, CutDownKeeps
<1> QED BY <1>6, <1>17 DEF Kept

(* A frame that belongs to no procedure and is not that of the empty task is frame 2. *)
LEMMA SecondFrame ==
  ASSUME MatchInv, NEW b, Known(b), NEW i \in 1..Len(frames),
         frames[i].worker # "empty", frames[i].worker # "code"
  PROVE  /\ i = 2 /\ Len(frames) >= 2 /\ b[2] = 1 + frames[2].blocks /\ frames[2].blocks \in Nat
         /\ frames[2].worker = "bind" => frames[2].blocks = 1
         /\ frames[2].worker = "uncaught" => frames[2].blocks > 0
         /\ IF frames[2].worker = "uncaught" THEN handlers[b[2]].state = "TRYING"
                                             ELSE handlers[1].state = "TRYING"
<1> DEFINE n == Len(frames)
<1>1. frames \in Seq(Frame) /\ n \in Nat /\ Shape(frames, mode)
  BY StackFacts
<1>2. i # 1 /\ ~(i \in 3..n)
  BY <1>1 DEF Shape
<1>3. i = 2 /\ n >= 2
  <2>1. \A x \in 1..n : x # 1 /\ ~(x \in 3..n) => x = 2 /\ n >= 2
    BY <1>1
  <2> QED BY <1>2, <2>1
<1>4. 2 \in 2..n /\ 2 \in 1..n
  BY <1>1, <1>3
<1>5. frames[2].blocks \in Nat
  <2>1. frames[2] \in Frame
    BY <1>1, <1>4
  <2> QED BY <2>1 DEF Frame
<1>6. b[2] = b[2 - 1] + frames[2].blocks /\ b[1] = 1
  BY <1>4 DEF Known
<1>7. /\ frames[2].worker = "bind" => frames[2].blocks = 1
      /\ frames[2].worker = "uncaught" => frames[2].blocks > 0
  BY <1>1, <1>4 DEF Shape
<1>8. IF frames[2].worker = "uncaught" THEN handlers[b[2]].state = "TRYING"
                                      ELSE handlers[1].state = "TRYING"
  BY <1>3 DEF Known, Caught
<1> QED BY <1>3, <1>5, <1>6, <1>7, <1>8

(***************************************************************************)
(* Only the empty task is left, and its entry; a used entry may be left of *)
(* a BindFutureFrame.                                                      *)
(***************************************************************************)
LEMMA BottomInStep ==
  ASSUME MatchInv, NEW b, Known(b), NEW gs \in Seq(Frame), Len(gs) = 1, gs[1] = frames[1],
         NEW ks \in Seq(Handler), ks[1] = handlers[1], handlers[1].state = "TRYING",
         \/ Len(ks) = 1
         \/ Len(ks) = 2 /\ ks[2].frame = 2 /\ ks[2].state = "HANDLING" /\ ks[2].data = 0
  PROVE  Shape(gs, "run") /\ InStep(gs, ks, "run")
<1>1. /\ frames \in Seq(Frame) /\ Shape(frames, mode) /\ Len(frames) \in Nat
      /\ Len(frames) >= 1 /\ handlers \in Seq(Handler)
  BY StackFacts
<1>2. frames[1].worker = "empty" /\ frames[1].blocks = 1
  BY <1>1 DEF Shape
<1>3. b[0] = 0 /\ b[1] = 1 /\ Segments(frames, handlers, b)
  BY DEF Known
<1>4. 1 \in 1..Len(frames) /\ 1 \in (b[1 - 1] + 1)..b[1]
  BY <1>1, <1>3
<1>5. handlers[1].frame = 1 /\ handlers[1].data = IF frames[1].worker = "code" THEN 1 - b[1 - 1] ELSE 0
  BY <1>1, <1>3, <1>4, InSegment
<1>6. Rebuilds(b, 1, 1, gs, ks, "run")
  <2>1. 1 \in 1..(Len(frames) + 1) /\ 1 = b[1 - 1] + gs[1].blocks /\ 1 <= Len(ks)
    BY <1>1, <1>2, <1>3
  <2>2. \A x \in 1..(1 - 1) : gs[x].blocks = frames[x].blocks /\ gs[x].worker = frames[x].worker
    OBVIOUS
  <2>3. \A j \in 1..b[1 - 1] : ks[j].frame = handlers[j].frame /\ ks[j].data = handlers[j].data
    BY <1>3
  <2>4. \A j \in (b[1 - 1] + 1)..1 :
          ks[j].frame = 1 /\ ks[j].data = (IF gs[1].worker = "code" THEN j - b[1 - 1] ELSE 0)
    BY <1>2, <1>3, <1>5
  <2>5. LastResort(b, 1, 1, gs, ks)
    BY DEF LastResort
  <2> QED BY <2>1, <2>2, <2>3, <2>4, <2>5 DEF Rebuilds
<1>7. InStep(gs, ks, "run")
  BY <1>1, <1>3, <1>6, Rebuilt
<1>8. Shape(gs, "run")
  BY <1>2 DEF Shape
<1> QED BY <1>7, <1>8

(* Of two frames, the bottom one is left when the top is popped. *)
LEMMA BottomLeft ==
  ASSUME NEW fs \in Seq(Frame), Len(fs) = 2
  PROVE  /\ SubSeq(fs, 1, Len(fs) - 1) \in Seq(Frame) /\ Len(SubSeq(fs, 1, Len(fs) - 1)) = 1
         /\ SubSeq(fs, 1, Len(fs) - 1)[1] = fs[1]
<1>1. \A m \in 1..Len(fs) : /\ SubSeq(fs, 1, m) \in Seq(Frame) /\ Len(SubSeq(fs, 1, m)) = m
                            /\ \A j \in 1..m : SubSeq(fs, 1, m)[j] = fs[j]
  <2> TAKE m \in 1..Len(fs)
  <2>1. 1 \in Int /\ m \in Int /\ 1 <= m /\ \A i \in 1..m : fs[i] \in Frame
    OBVIOUS
  <2>2. /\ SubSeq(fs, 1, m) \in Seq(Frame)
        /\ Len(SubSeq(fs, 1, m)) = IF 1 <= m THEN m - 1 + 1 ELSE 0
        /\ \A i \in 1..(m - 1 + 1) : SubSeq(fs, 1, m)[i] = fs[1 + i - 1]
    BY <2>1, SubSeqProperties, SMTT(30)
  <2> QED BY <2>1, <2>2
<1>2. Len(fs) - 1 = 1 /\ 1 \in 1..Len(fs) /\ 1 \in 1..1
  OBVIOUS
<1>3. SubSeq(fs, 1, Len(fs) - 1) = SubSeq(fs, 1, 1)
  BY <1>2, Zenon
<1>4. SubSeq(fs, 1, 1) \in Seq(Frame) /\ Len(SubSeq(fs, 1, 1)) = 1 /\ SubSeq(fs, 1, 1)[1] = fs[1]
  BY <1>1, <1>2
<1> QED BY <1>3, <1>4, Zenon

(* BindFutureWorker::Run pops its frame together with its entry. *)
LEMMA BindRunKeeps ==
  ASSUME MatchInv, BindFutureRun
  PROVE  Kept
<1> DEFINE gs == SubSeq(frames, 1, Len(frames) - 1)
           ks == SubSeq(handlers, 1, Len(handlers) - 1)
<1>1. /\ frames' = gs /\ handlers' = ks /\ mode' = "run" /\ Active /\ top.worker = "bind"
  BY DEF BindFutureRun, Runs, PopFrame, PopHandler, Active
<1>2. PICK b : Known(b)
  BY <1>1, StacksInStep
<1>3. /\ frames \in Seq(Frame) /\ handlers \in Seq(Handler) /\ Len(frames) = 2 /\ Len(handlers) \in Nat
  BY <1>1, StackFacts
<1>4. frames[2].worker = "bind" /\ 2 \in 1..Len(frames)
  BY <1>1, <1>3 DEF top
<1>5. b[2] = 1 + frames[2].blocks /\ frames[2].blocks = 1 /\ handlers[1].state = "TRYING"
  BY <1>2, <1>4, SecondFrame
<1>6. Len(handlers) = 2
  BY <1>2, <1>3, <1>5 DEF Known
<1>7. gs \in Seq(Frame) /\ Len(gs) = 1 /\ gs[1] = frames[1]
  BY <1>3, BottomLeft
<1>8. ks \in Seq(Handler) /\ Len(ks) = 1 /\ ks[1] = handlers[1]
  BY <1>3, <1>6
<1> HIDE DEF gs, ks
<1>9. Shape(gs, "run") /\ InStep(gs, ks, "run")
  BY <1>2, <1>5, <1>7, <1>8, BottomInStep
<1> QED BY <1>1, <1>9 DEF Kept

(* BindFutureWorker::Handle pops its frame and leaves its entry behind, used. *)
LEMMA BindHandleKeeps ==
  ASSUME MatchInv, BindFutureHandle
  PROVE  Kept
<1> DEFINE i == handlers[Nearest].frame
           gs == SubSeq(Unrolled, 1, Len(Unrolled) - 1)
<1>1. Handles("bind") /\ frames' = gs /\ handlers' = Activated /\ mode' = "run"
  BY DEF BindFutureHandle
<1>2. PICK b : RaiseKnown("bind", b, i)
  BY <1>1, RaiseFacts
<1>3. /\ Known(b) /\ i \in 1..Len(frames) /\ frames[i].worker = "bind" /\ Nearest \in 1..Len(handlers)
      /\ b[i - 1] < Nearest /\ Nearest <= b[i] /\ handlers[Nearest].data = 0
  BY <1>2 DEF RaiseKnown
<1>4. /\ frames \in Seq(Frame) /\ handlers \in Seq(Handler) /\ Len(handlers) \in Nat
  BY StackFacts
<1>5. /\ Unrolled \in Seq(Frame) /\ Len(Unrolled) = i
      /\ \A x \in 1..i : Unrolled[x] = frames[x]
  BY <1>3, <1>4, UnrolledKeeps
<1>6. i = 2
  BY <1>3, SecondFrame
<1>7. b[2] = 1 + frames[2].blocks /\ frames[2].blocks = 1 /\ handlers[1].state = "TRYING"
  BY <1>3, <1>6, SecondFrame
<1>8. b[1] = 1
  BY <1>3 DEF Known
<1>9. Nearest = 2
  <2>1. \A x \in Nat : 1 < x /\ x <= 2 => x = 2
    OBVIOUS
  <2>2. Nearest \in Nat /\ 1 < Nearest /\ Nearest <= 2
    BY <1>3, <1>4, <1>6, <1>7, <1>8
  <2> QED BY <2>1, <2>2
<1>10. gs \in Seq(Frame) /\ Len(gs) = 1 /\ gs[1] = frames[1]
  <2>1. Unrolled[1] = frames[1]
    BY <1>5, <1>6
  <2>2. Len(Unrolled) = 2
    BY <1>5, <1>6
  <2> QED BY <1>5, <2>1, <2>2, BottomLeft
<1> HIDE DEF gs
<1>11. /\ Activated \in Seq(Handler) /\ Len(Activated) = 2 /\ Activated[1] = handlers[1]
       /\ Activated[2].frame = 2 /\ Activated[2].data = 0 /\ Activated[2].state = "HANDLING"
  <2>1. /\ Activated \in Seq(Handler) /\ Len(Activated) = Nearest
        /\ \A j \in 1..Nearest : Activated[j].frame = handlers[j].frame /\ Activated[j].data = handlers[j].data
        /\ \A j \in 1..Nearest : j # Nearest => Activated[j] = handlers[j]
        /\ Activated[Nearest].state = "HANDLING"
    BY <1>3, <1>4, ActivatedEntries
  <2>2. 1 \in 1..Nearest /\ 2 \in 1..Nearest
    BY <1>9
  <2> QED BY <1>3, <1>6, <1>9, <2>1, <2>2
<1>12. Shape(gs, "run") /\ InStep(gs, Activated, "run")
  BY <1>3, <1>7, <1>10, <1>11, BottomInStep
<1> QED BY <1>1, <1>12 DEF Kept


(* Of two frames, the top one is replaced. *)
LEMMA TopOfTwo ==
  ASSUME NEW fs \in Seq(Frame), Len(fs) = 2, NEW f \in Frame
  PROVE  /\ [fs EXCEPT ![2] = f] \in Seq(Frame) /\ Len([fs EXCEPT ![2] = f]) = 2
         /\ [fs EXCEPT ![2] = f][2] = f /\ [fs EXCEPT ![2] = f][1] = fs[1]
<1> DEFINE gs == [fs EXCEPT ![2] = f]
<1>1. 2 \in 1..Len(fs) /\ 1 \in 1..Len(fs) /\ 1 # 2
  OBVIOUS
<1>2. gs \in Seq(Frame) /\ Len(gs) = Len(fs) /\ \A x \in 1..Len(fs) : gs[x] = IF x = 2 THEN f ELSE fs[x]
  BY <1>1, ExceptSeq
<1> HIDE DEF gs
<1>3. gs \in Seq(Frame) /\ Len(gs) = 2 /\ gs[2] = f /\ gs[1] = fs[1]
  BY <1>1, <1>2
<1> QED BY <1>3 DEF gs

(* A frame or an entry comes on top of one other. *)
LEMMA PushedOnOne ==
  ASSUME NEW S, NEW fs \in Seq(S), Len(fs) = 1, NEW f \in S
  PROVE  /\ Append(fs, f) \in Seq(S) /\ Len(Append(fs, f)) = 2
         /\ Append(fs, f)[2] = f /\ Append(fs, f)[1] = fs[1]
OBVIOUS

(* A frame comes on top of v others. *)
LEMMA FramePushed ==
  ASSUME NEW fs \in Seq(Frame), NEW v \in Nat, Len(fs) = v, NEW w \in Nat, w = v + 1, NEW f \in Frame
  PROVE  /\ Append(fs, f) \in Seq(Frame) /\ Len(Append(fs, f)) = w /\ Append(fs, f)[w] = f
         /\ \A x \in 1..v : Append(fs, f)[x] = fs[x]
BY AppendProperties

(* The frame of an atExn action, above that of the worker that calls it *)
LEMMA PushedOnTwo ==
  ASSUME NEW fs \in Seq(Frame), Len(fs) = 2, NEW f \in Frame
  PROVE  /\ Append(fs, f) \in Seq(Frame) /\ Len(Append(fs, f)) = 3 /\ Append(fs, f)[3] = f
         /\ \A x \in 1..2 : Append(fs, f)[x] = fs[x]
<1>1. \A v, w \in Nat : Len(fs) = v /\ w = v + 1 =>
        /\ Append(fs, f) \in Seq(Frame) /\ Len(Append(fs, f)) = w /\ Append(fs, f)[w] = f
        /\ \A x \in 1..v : Append(fs, f)[x] = fs[x]
  BY FramePushed, SMTT(30)
<1>2. 2 \in Nat /\ 3 \in Nat /\ 3 = 2 + 1
  OBVIOUS
<1> QED BY <1>1, <1>2, Zenon

(* A new entry of the frame of the atExn actions, for any entries below it *)
LEMMA ResortPushed ==
  ASSUME NEW ks \in Seq(Handler), NEW v \in Nat, Len(ks) = v, NEW w \in Nat, w = v + 1, NEW i \in Nat
  PROVE  /\ Append(ks, NewHandler(i, 0)) \in Seq(Handler) /\ Len(Append(ks, NewHandler(i, 0))) = w
         /\ \A j \in 1..v : Append(ks, NewHandler(i, 0))[j] = ks[j]
         /\ Append(ks, NewHandler(i, 0))[w].frame = i
         /\ Append(ks, NewHandler(i, 0))[w].data = 0
         /\ Append(ks, NewHandler(i, 0))[w].state = "TRYING"
<1> DEFINE h == NewHandler(i, 0)
           js == Append(ks, h)
<1>1. h \in Handler /\ h.frame = i /\ h.data = 0 /\ h.state = "TRYING"
  BY DEF NewHandler, Handler
<1> HIDE DEF h
<1>2. js \in Seq(Handler) /\ Len(js) = w /\ js[w] = h /\ \A j \in 1..v : js[j] = ks[j]
  BY <1>1, AppendProperties
<1> HIDE DEF js
<1>3. /\ js \in Seq(Handler) /\ Len(js) = w /\ \A j \in 1..v : js[j] = ks[j]
      /\ js[w].frame = i /\ js[w].data = 0 /\ js[w].state = "TRYING"
  BY <1>1, <1>2
<1> QED BY <1>3 DEF js, h

(* The first entry is that of the empty task. *)
LEMMA FirstEntry ==
  ASSUME MatchInv, NEW b, Known(b)
  PROVE  handlers[1].frame = 1 /\ handlers[1].data = 0
<1>1. /\ frames \in Seq(Frame) /\ Shape(frames, mode) /\ Len(frames) \in Nat
      /\ Len(frames) >= 1 /\ handlers \in Seq(Handler)
  BY StackFacts
<1>2. b[0] = 0 /\ b[1] = 1 /\ Segments(frames, handlers, b)
  BY DEF Known
<1>3. 1 \in 1..Len(frames) /\ 1 \in (b[1 - 1] + 1)..b[1]
  BY <1>1, <1>2
<1>4. handlers[1].frame = 1 /\ handlers[1].data = IF frames[1].worker = "code" THEN 1 - b[1 - 1] ELSE 0
  BY <1>1, <1>2, <1>3, InSegment
<1>5. frames[1].worker # "code"
  BY <1>1 DEF Shape
<1> QED BY <1>4, <1>5

(***************************************************************************)
(* The frame of the atExn actions is the top frame: it has a new entry,    *)
(* on top of the entries that it had before.                               *)
(***************************************************************************)
Resort(b, v, gs, ks) ==
  /\ gs \in Seq(Frame) /\ Len(gs) = 2 /\ gs[1] = frames[1]
  /\ gs[2].worker = "uncaught" /\ v \in Nat /\ v = 1 + gs[2].blocks /\ gs[2].blocks > 0
  /\ ks \in Seq(Handler) /\ Len(ks) = v /\ ks[v].state = "TRYING"
  /\ ks[1].frame = 1 /\ ks[1].data = 0
  /\ \A j \in 2..v : ks[j].frame = 2 /\ ks[j].data = 0

(* The stacks are then in step. *)
LEMMA ResortInStep ==
  ASSUME MatchInv, NEW b, Known(b), NEW v, NEW gs, NEW ks, Resort(b, v, gs, ks)
  PROVE  Shape(gs, "run") /\ InStep(gs, ks, "run")
<1>1. /\ frames \in Seq(Frame) /\ Shape(frames, mode) /\ Len(frames) \in Nat
      /\ Len(frames) >= 1 /\ handlers \in Seq(Handler)
  BY StackFacts
<1>2. frames[1].worker = "empty" /\ frames[1].blocks = 1
  BY <1>1 DEF Shape
<1>3. b[0] = 0 /\ b[1] = 1 /\ Segments(frames, handlers, b)
  BY DEF Known
<1>4. handlers[1].frame = 1 /\ handlers[1].data = 0
  BY FirstEntry
<1>5. Rebuilds(b, 2, v, gs, ks, "run")
  <2>1. 2 \in 1..(Len(frames) + 1) /\ b[2 - 1] = 1
    BY <1>1, <1>3
  <2>2. \A x \in 1..(2 - 1) : gs[x].blocks = frames[x].blocks /\ gs[x].worker = frames[x].worker
    BY DEF Resort
  <2>3. \A j \in 1..1 : ks[j].frame = handlers[j].frame /\ ks[j].data = handlers[j].data
    BY <1>4 DEF Resort
  <2>4. \A j \in (1 + 1)..v :
          ks[j].frame = 2 /\ ks[j].data = (IF gs[2].worker = "code" THEN j - 1 ELSE 0)
    BY DEF Resort
  <2>5. LastResort(b, 2, v, gs, ks)
    BY DEF LastResort, Resort
  <2>6. v <= Len(ks)
    BY DEF Resort
  <2> QED BY <2>1, <2>2, <2>3, <2>4, <2>5, <2>6 DEF Rebuilds, Resort
<1>6. InStep(gs, ks, "run")
  BY <1>1, <1>3, <1>5, Rebuilt
<1>7. Shape(gs, "run")
  BY <1>2 DEF Shape, Resort
<1> QED BY <1>6, <1>7

(* UncaughtExceptionWorker::Handle pushes the entry again that the exception used up. *)
LEMMA UncaughtHandleKeeps ==
  ASSUME MatchInv, UncaughtHandle
  PROVE  Kept
<1> DEFINE i == handlers[Nearest].frame
           t == [Unrolled[2] EXCEPT !.blocks = @ + 1]
           gs == [Unrolled EXCEPT ![2] = t]
           ks == Append(Activated, NewHandler(2, 0))
<1>1. Handles("uncaught")
  BY DEF UncaughtHandle
<1>2. PICK b : RaiseKnown("uncaught", b, i)
  BY <1>1, RaiseFacts
<1>3. /\ Known(b) /\ i \in 1..Len(frames) /\ frames[i].worker = "uncaught"
      /\ Nearest \in 1..Len(handlers) /\ Nearest <= b[i] /\ \A j \in Trying : j <= Nearest
  BY <1>2 DEF RaiseKnown
<1>4. /\ frames \in Seq(Frame) /\ handlers \in Seq(Handler) /\ Len(handlers) \in Nat
  BY StackFacts
<1>5. /\ Unrolled \in Seq(Frame) /\ Len(Unrolled) = i
      /\ \A x \in 1..i : Unrolled[x] = frames[x]
  BY <1>3, <1>4, UnrolledKeeps
<1>6. i = 2
  BY <1>3, SecondFrame
<1>7. /\ b[2] = 1 + frames[2].blocks /\ frames[2].blocks \in Nat /\ frames[2].blocks > 0
      /\ handlers[b[2]].state = "TRYING" /\ Len(frames) >= 2
  BY <1>3, <1>6, SecondFrame
<1>8. frames' = gs /\ handlers' = ks /\ mode' = "run"
  BY <1>5, <1>6 DEF UncaughtHandle, PushHandler
<1>9. 2 \in 1..Len(frames) /\ 2 \in 1..2 /\ 1 \in 1..2
  BY <1>3, <1>6
<1>10. frames[2] \in Frame /\ Unrolled[2] = frames[2] /\ Unrolled[1] = frames[1] /\ Len(Unrolled) = 2
  BY <1>4, <1>5, <1>6, <1>9
<1>11. t \in Frame /\ t.worker = "uncaught" /\ t.blocks = frames[2].blocks + 1
  <2>1. frames[2].blocks + 1 \in Nat
    BY <1>7
  <2> QED BY <1>3, <1>6, <1>10, <2>1, FrameBlocks
<1> HIDE DEF t
<1>12. gs \in Seq(Frame) /\ Len(gs) = 2 /\ gs[2] = t /\ gs[1] = frames[1]
  BY <1>5, <1>10, <1>11, TopOfTwo
<1>13. b[2] \in Nat /\ b[2] \in 1..Len(handlers) /\ Segments(frames, handlers, b)
  <2>1. b[2] \in Nat /\ b[2] >= 1
    BY <1>7
  <2>2. b[2] <= Len(handlers)
    <3>1. 2 \in 0..Len(frames) /\ Len(frames) \in 0..Len(frames) /\ 2 <= Len(frames)
      BY <1>4, <1>7
    <3>2. b[2] <= b[Len(frames)] /\ b[Len(frames)] \in Nat /\ b[Len(frames)] <= Len(handlers)
      BY <1>3, <3>1 DEF Known
    <3> QED BY <1>4, <2>1, <3>2
  <2> QED BY <1>3, <1>4, <2>1, <2>2 DEF Known
<1>14. Nearest = b[2]
  <2>1. b[2] \in Trying
    BY <1>7, <1>13 DEF Trying
  <2>2. b[2] <= Nearest /\ Nearest <= b[2] /\ Nearest \in Nat
    BY <1>3, <1>4, <1>6, <2>1
  <2> QED BY <1>13, <2>2
<1>15. /\ Activated \in Seq(Handler) /\ Len(Activated) = b[2]
       /\ \A j \in 1..b[2] : Activated[j].frame = handlers[j].frame /\ Activated[j].data = handlers[j].data
  BY <1>3, <1>4, <1>14, ActivatedEntries
<1>16. /\ ks \in Seq(Handler) /\ Len(ks) = b[2] + 1 /\ b[2] + 1 \in Nat
       /\ \A j \in 1..b[2] : ks[j] = Activated[j]
       /\ ks[b[2] + 1].frame = 2 /\ ks[b[2] + 1].data = 0 /\ ks[b[2] + 1].state = "TRYING"
  <2>1. b[2] + 1 \in Nat
    BY <1>13
  <2> HIDE DEF ks
  <2> QED BY <1>13, <1>15, <2>1, ResortPushed DEF ks
<1> HIDE DEF gs, ks
<1>17. \A j \in 2..b[2] : handlers[j].frame = 2 /\ handlers[j].data = 0
  <2> TAKE j \in 2..b[2]
  <2>1. b[2 - 1] = 1
    BY <1>3 DEF Known
  <2>2. j \in (b[2 - 1] + 1)..b[2]
    BY <2>1
  <2>3. handlers[j].frame = 2 /\ handlers[j].data = IF frames[2].worker = "code" THEN j - b[2 - 1] ELSE 0
    BY <1>4, <1>9, <1>13, <2>2, InSegment
  <2> QED BY <1>3, <1>6, <2>3
<1>18. \A j \in 2..(b[2] + 1) : ks[j].frame = 2 /\ ks[j].data = 0
  <2>1. \A j \in 2..(b[2] + 1) : j = b[2] + 1 \/ (j \in 2..b[2] /\ j \in 1..b[2])
    BY <1>13
  <2> QED BY <1>15, <1>16, <1>17, <2>1
<1>19. ks[1].frame = 1 /\ ks[1].data = 0
  <2>1. 1 \in 1..b[2]
    BY <1>13
  <2> QED BY <1>3, <1>15, <1>16, <2>1, FirstEntry
<1>20. b[2] + 1 = 1 + gs[2].blocks /\ gs[2].blocks > 0
  BY <1>7, <1>11, <1>12
<1>21. Resort(b, b[2] + 1, gs, ks)
  BY <1>11, <1>12, <1>16, <1>18, <1>19, <1>20 DEF Resort
<1>22. Shape(gs, "run") /\ InStep(gs, ks, "run")
  BY <1>3, <1>21, ResortInStep
<1> QED BY <1>8, <1>22 DEF Kept


(* EmptyTaskWorker::Handle: the process ends, or the frame of the atExn actions is pushed. *)
LEMMA EmptyHandleKeeps ==
  ASSUME MatchInv, EmptyTaskHandle
  PROVE  Kept
<1> DEFINE i == handlers[Nearest].frame
           t == NewFrame("uncaught", 1, closures)
           gs == Append(Unrolled, t)
           ks == Append(Activated, NewHandler(2, 0))
<1>1. Handles("empty")
  BY DEF EmptyTaskHandle
<1>2. PICK b : RaiseKnown("empty", b, i)
  BY <1>1, RaiseFacts
<1>3. /\ Known(b) /\ i \in 1..Len(frames) /\ frames[i].worker = "empty"
      /\ Nearest \in 1..Len(handlers) /\ b[i - 1] < Nearest /\ Nearest <= b[i]
  BY <1>2 DEF RaiseKnown
<1>4. /\ frames \in Seq(Frame) /\ handlers \in Seq(Handler) /\ Len(handlers) \in Nat
      /\ Len(frames) \in Nat /\ Shape(frames, mode)
  BY StackFacts
<1>5. /\ Unrolled \in Seq(Frame) /\ Len(Unrolled) = i
      /\ \A x \in 1..i : Unrolled[x] = frames[x]
  BY <1>3, <1>4, UnrolledKeeps
<1>6. i = 1
  <2>1. ~(i \in 2..Len(frames))
    BY <1>3, <1>4 DEF Shape
  <2>2. \A x \in 1..Len(frames) : x \in 2..Len(frames) \/ x = 1
    BY <1>4
  <2> QED BY <1>3, <2>1, <2>2
<1>7. Nearest = 1
  <2>1. b[1] = 1
    BY <1>3 DEF Known
  <2>2. Nearest \in Nat /\ 1 <= Nearest /\ Nearest <= 1
    BY <1>3, <1>4, <1>6, <2>1
  <2> QED BY <2>2
<1>8. Len(Unrolled) = 1 /\ Unrolled[1] = frames[1]
  BY <1>5, <1>6
<1>9. CASE closures = 0 /\ frames' = Unrolled /\ mode' = "exited"
  <2>1. \A m : m # "raise" => Shape(SubSeq(frames, 1, i), m)
    BY <1>3, <1>4, ShapeCut
  <2>2. Shape(Unrolled, "exited")
    BY <2>1 DEF Unrolled
  <2>3. ~Active'
    BY <1>9 DEF Active
  <2> QED BY <1>9, <2>2, <2>3 DEF Kept
<1>10. CASE /\ closures > 0 /\ frames' = gs /\ mode' = "run"
            /\ PushHandler(Activated, Len(Unrolled) + 1, 0)
  <2>1. handlers' = ks
    <3>1. Len(Unrolled) + 1 = 2
      BY <1>8
    <3> QED BY <1>10, <3>1, Zenon DEF PushHandler
  <2>2. t \in Frame /\ t.worker = "uncaught" /\ t.blocks = 1
    <3>1. closures \in Nat
      BY DEF MatchInv, StackInv, TypeOK
    <3> QED BY <3>1 DEF NewFrame, Frame, Worker
  <2> HIDE DEF t
  <2>3. gs \in Seq(Frame) /\ Len(gs) = 2 /\ gs[2] = t /\ gs[1] = frames[1]
    <3>1. Unrolled \in Seq(Frame) /\ t \in Frame
      BY <1>5, <2>2
    <3> QED BY <1>8, <3>1, PushedOnOne
  <2>4. /\ Activated \in Seq(Handler) /\ Len(Activated) = 1
        /\ Activated[1].frame = handlers[1].frame /\ Activated[1].data = handlers[1].data
    BY <1>3, <1>4, <1>7, ActivatedEntries
  <2>5. /\ ks \in Seq(Handler) /\ Len(ks) = 2 /\ ks[1] = Activated[1]
        /\ ks[2].frame = 2 /\ ks[2].data = 0 /\ ks[2].state = "TRYING"
    <3> DEFINE h == NewHandler(2, 0)
    <3>1. h \in Handler /\ h.frame = 2 /\ h.data = 0 /\ h.state = "TRYING"
      BY DEF NewHandler, Handler
    <3> HIDE DEF h
    <3>2. /\ Append(Activated, h) \in Seq(Handler) /\ Len(Append(Activated, h)) = 2
          /\ Append(Activated, h)[2] = h /\ Append(Activated, h)[1] = Activated[1]
      BY <2>4, <3>1, PushedOnOne
    <3>3. ks = Append(Activated, h)
      BY DEF h
    <3> HIDE DEF ks
    <3> QED BY <3>1, <3>2, <3>3
  <2> HIDE DEF gs, ks
  <2>6. ks[1].frame = 1 /\ ks[1].data = 0
    BY <1>3, <2>4, <2>5, FirstEntry
  <2>7. Resort(b, 2, gs, ks)
    BY <2>2, <2>3, <2>5, <2>6 DEF Resort
  <2>8. Shape(gs, "run") /\ InStep(gs, ks, "run")
    BY <1>3, <2>7, ResortInStep
  <2> QED BY <1>10, <2>1, <2>8 DEF Kept
<1> QED BY <1>9, <1>10 DEF EmptyTaskHandle

(***************************************************************************)
(* UncaughtExceptionWorker::Run: the next action is called like any other  *)
(* procedure; after the last one the process ends.                         *)
(***************************************************************************)
LEMMA UncaughtRunKeeps ==
  ASSUME MatchInv, UncaughtRun
  PROVE  Kept
<1> DEFINE t == [frames[2] EXCEPT !.left = @ - 1]
           fs == [frames EXCEPT ![2] = t]
           gs == Append(fs, NewFrame("code", 0, 0))
<1>1. Active /\ mode = "run" /\ top.worker = "uncaught"
  BY DEF UncaughtRun, Runs, Active
<1>2. PICK b : Known(b)
  BY <1>1, StacksInStep
<1>3. /\ frames \in Seq(Frame) /\ handlers \in Seq(Handler) /\ Len(frames) = 2 /\ Len(handlers) \in Nat
      /\ Shape(frames, mode) /\ Len(frames) \in Nat
  BY <1>1, StackFacts
<1>4. frames[2].worker = "uncaught" /\ 2 \in 1..Len(frames) /\ 1 \in 1..Len(frames) /\ top = frames[2]
  BY <1>1, <1>3 DEF top
<1>5. CASE PopFrame /\ mode' = "exited"
  <2>1. \A m : m # "raise" => Shape(SubSeq(frames, 1, 1), m)
    BY <1>3, <1>4, ShapeCut
  <2>2. Shape(SubSeq(frames, 1, 1), "exited")
    BY <2>1
  <2>3. ~Active'
    BY <1>5 DEF Active
  <2>4. Len(frames) - 1 = 1
    BY <1>3
  <2>5. frames' = SubSeq(frames, 1, 1)
    BY <1>5, <2>4, Zenon DEF PopFrame
  <2> QED BY <1>5, <2>2, <2>3, <2>5 DEF Kept
<1>6. CASE /\ top.left > 0 /\ frames' = Append([frames EXCEPT ![Len(frames)].left = @ - 1], NewFrame("code", 0, 0))
           /\ UNCHANGED <<handlers, mode>>
  <2>1. frames' = gs /\ handlers' = handlers /\ mode' = "run"
    BY <1>1, <1>3, <1>6
  <2>2. t \in Frame /\ t.worker = "uncaught" /\ t.blocks = frames[2].blocks
    <3>1. frames[2] \in Frame /\ frames[2].left \in Nat /\ frames[2].left > 0
      <4>1. frames[2] \in Frame
        BY <1>4, StackFacts
      <4> QED BY <1>4, <1>6, <4>1 DEF Frame
    <3>2. frames[2].left - 1 \in Nat
      BY <3>1
    <3>3. \A f \in Frame : \A l \in Nat :
            /\ [f EXCEPT !.left = l] \in Frame /\ [f EXCEPT !.left = l].worker = f.worker
            /\ [f EXCEPT !.left = l].blocks = f.blocks
      BY DEF Frame
    <3> QED BY <1>4, <3>1, <3>2, <3>3
  <2> HIDE DEF t
  <2>3. fs \in Seq(Frame) /\ Len(fs) = 2 /\ fs[2] = t /\ fs[1] = frames[1]
    BY <1>3, <2>2, TopOfTwo
  <2>4. Shape(fs, "run")
    <3>1. fs = [frames EXCEPT ![Len(frames)] = t]
      BY <1>3
    <3>2. frames # <<>> /\ t.worker = frames[Len(frames)].worker /\ t.blocks = frames[Len(frames)].blocks
      BY <1>3, <1>4, <2>2
    <3>3. Shape([frames EXCEPT ![Len(frames)] = t], "run")
      <4>1. t \in Frame /\ "run" # "raise"
        BY <2>2
      <4>2. frames \in Seq(Frame) /\ Shape(frames, mode)
        BY <1>3
      <4>3. \/ t.blocks = frames[Len(frames)].blocks
            \/ t.worker = "code"
            \/ t.worker = "uncaught" /\ t.blocks > 0
        BY <3>2
      <4> QED BY <3>2, <4>1, <4>2, <4>3, ShapeTop
    <3> QED BY <3>1, <3>3
  <2> HIDE DEF fs
  <2>5. Shape(gs, "run")
    <3>1. fs # <<>>
      <4>1. Len(fs) # 0
        BY <2>3
      <4> QED BY <4>1
    <3> QED BY <2>3, <2>4, <3>1, ShapePush
  <2> DEFINE code == NewFrame("code", 0, 0)
  <2>6. code \in Frame /\ code.worker = "code" /\ code.blocks = 0
    BY DEF NewFrame, Frame, Worker
  <2> HIDE DEF code
  <2>7. gs \in Seq(Frame) /\ Len(gs) = 3 /\ gs[3] = code /\ gs[2] = t /\ gs[1] = frames[1]
    <3>1. 2 \in Nat /\ 3 \in Nat /\ 3 = 2 + 1 /\ 1 \in 1..2 /\ 2 \in 1..2
      OBVIOUS
    <3>2. /\ Append(fs, code) \in Seq(Frame) /\ Len(Append(fs, code)) = 3 /\ Append(fs, code)[3] = code
          /\ \A x \in 1..2 : Append(fs, code)[x] = fs[x]
      BY <2>3, <2>6, PushedOnTwo, Zenon
    <3>3. gs = Append(fs, code)
      BY DEF code
    <3> HIDE DEF gs
    <3> QED BY <2>3, <3>1, <3>2, <3>3
  <2> HIDE DEF gs
  <2>8. b[2] \in Nat /\ Len(handlers) = b[2] /\ Segments(frames, handlers, b) /\ handlers[b[2]].state = "TRYING"
    <3>1. 2 \in 0..Len(frames)
      BY <1>3
    <3> QED BY <1>2, <1>3, <1>4, <3>1 DEF Known, Caught
  <2>9. Rebuilds(b, 3, b[2], gs, handlers, "run")
    <3>1. 3 \in 1..(Len(frames) + 1) /\ 3 - 1 = 2
      BY <1>3
    <3>2. \A x \in 1..2 : gs[x].blocks = frames[x].blocks /\ gs[x].worker = frames[x].worker
      BY <1>4, <2>2, <2>7
    <3>3. b[2] = b[2] + gs[3].blocks /\ b[2] <= Len(handlers)
      BY <2>6, <2>7, <2>8
    <3>4. LastResort(b, 3, b[2], gs, handlers)
      BY <2>8, <2>2, <2>7 DEF LastResort
    <3>5. \A j \in (b[2] + 1)..b[2] :
            handlers[j].frame = 3 /\ handlers[j].data = (IF gs[3].worker = "code" THEN j - b[2] ELSE 0)
      BY <2>8
    <3> QED BY <1>3, <2>7, <2>8, <3>1, <3>2, <3>3, <3>4, <3>5 DEF Rebuilds
  <2>10. InStep(gs, handlers, "run")
    BY <1>3, <2>8, <2>9, Rebuilt
  <2> QED BY <2>1, <2>5, <2>10 DEF Kept
<1> QED BY <1>5, <1>6 DEF UncaughtRun


(* Raise, AddExnClosure and EmptyTaskWorker::Run leave both stacks alone. *)
LEMMA SameStacksKeep ==
  ASSUME MatchInv, Raise \/ AddExnClosure \/ EmptyTaskRun
  PROVE  Kept
<1>1. /\ frames' = frames /\ handlers' = handlers /\ mode = "run" /\ Active
      /\ mode' \in {"run", "raise", "terminated"} /\ (mode' = "raise" => top.worker = "code")
      /\ (mode' = "run" => mode' = mode)
  BY DEF Raise, AddExnClosure, EmptyTaskRun, Runs, Active
<1>2. Shape(frames, mode) /\ (top.worker # "empty" => Len(frames) >= 2)
  BY StackFacts
<1>3. Shape(frames, mode')
  BY <1>1, <1>2 DEF Shape, top
<1>4. PICK b : Known(b)
  BY <1>1, StacksInStep
<1>5. mode' = "raise" => Len(handlers) = b[Len(frames)]
  BY <1>1, <1>2, <1>4 DEF Known
<1>6. Active' => Tops(frames, handlers, mode', b)
  BY <1>1, <1>4, <1>5 DEF Known, Tops, Active
<1>7. Active' => InStep(frames, handlers, mode')
  BY <1>4, <1>6 DEF InStep, Known
<1> QED BY <1>1, <1>3, <1>7 DEF Kept

(* Elements of two joined sequences *)
LEMMA JoinedLow ==
  ASSUME NEW S, NEW p \in Seq(S), NEW q \in Seq(S)
  PROVE  /\ Len(p) >= 1 => (p \o q)[1] = p[1]
         /\ Len(p) >= 2 => (p \o q)[2] = p[2]
<1>1. ASSUME Len(p) >= 1 PROVE (p \o q)[1] = p[1]
  BY <1>1, ConcatProperties
<1>2. ASSUME Len(p) >= 2 PROVE (p \o q)[2] = p[2]
  BY <1>2, ConcatProperties
<1> QED BY <1>1, <1>2

(* The last one, when the second sequence has just one *)
LEMMA JoinedHigh ==
  ASSUME NEW S, NEW p \in Seq(S), NEW q \in Seq(S), Len(q) = 1
  PROVE  /\ Len(p) = 1 => (p \o q)[2] = q[1]
         /\ Len(p) = 2 => (p \o q)[3] = q[1]
<1>1. \A i \in 1..(Len(p) + Len(q)) : (p \o q)[i] = IF i <= Len(p) THEN p[i] ELSE q[i - Len(p)]
  BY ConcatProperties
<1>2. ASSUME Len(p) = 1 PROVE (p \o q)[2] = q[1]
  <2>1. 2 \in 1..(Len(p) + Len(q)) /\ ~(2 <= Len(p)) /\ 2 - Len(p) = 1
    BY <1>2
  <2> QED BY <1>1, <2>1, Zenon
<1>3. ASSUME Len(p) = 2 PROVE (p \o q)[3] = q[1]
  <2>1. 3 \in 1..(Len(p) + Len(q)) /\ ~(3 <= Len(p)) /\ 3 - Len(p) = 1
    BY <1>3
  <2> QED BY <1>1, <2>1, Zenon
<1> QED BY <1>2, <1>3

(* The frames of a new thread, one by one *)
LEMMA FirstFrames ==
  ASSUME NEW a, NEW z, NEW y
  PROVE  /\ Len(<<a>> \o <<>> \o <<z>>) = 2
         /\ (<<a>> \o <<>> \o <<z>>)[1] = a /\ (<<a>> \o <<>> \o <<z>>)[2] = z
         /\ Len(<<a>> \o <<y>> \o <<z>>) = 3
         /\ (<<a>> \o <<y>> \o <<z>>)[1] = a /\ (<<a>> \o <<y>> \o <<z>>)[2] = y
         /\ (<<a>> \o <<y>> \o <<z>>)[3] = z
<1> DEFINE S == {a, y, z}
           A == <<a>>
           Y == <<y>>
           Z == <<z>>
           N == <<>>
           p == A \o N
           q == A \o Y
<1>1. A \in Seq(S) /\ Y \in Seq(S) /\ Z \in Seq(S) /\ N \in Seq(S)
  OBVIOUS
<1>2. /\ Len(A) = 1 /\ Len(Y) = 1 /\ Len(Z) = 1 /\ Len(N) = 0
      /\ A[1] = a /\ Y[1] = y /\ Z[1] = z
  OBVIOUS
<1> HIDE DEF S, A, Y, Z, N
<1>3. p \in Seq(S) /\ Len(p) = 1 /\ q \in Seq(S) /\ Len(q) = 2
  <2>1. p \in Seq(S) /\ Len(p) = Len(A) + Len(N)
    BY <1>1, ConcatProperties, Zenon
  <2>2. q \in Seq(S) /\ Len(q) = Len(A) + Len(Y)
    BY <1>1, ConcatProperties, Zenon
  <2> HIDE DEF p, q
  <2> QED BY <1>2, <2>1, <2>2
<1>4. p[1] = a /\ q[1] = a /\ q[2] = y
  <2>1. Len(A) >= 1
    BY <1>2
  <2>2. (A \o N)[1] = A[1]
    BY <1>1, <2>1, JoinedLow, Zenon
  <2>3. (A \o Y)[1] = A[1]
    BY <1>1, <2>1, JoinedLow, Zenon
  <2>4. (A \o Y)[2] = Y[1]
    BY <1>1, <1>2, JoinedHigh, Zenon
  <2> QED BY <1>2, <2>2, <2>3, <2>4, Zenon
<1> HIDE DEF p, q
<1>5. Len(p \o Z) = 2 /\ Len(q \o Z) = 3
  <2>1. Len(p \o Z) = Len(p) + Len(Z)
    BY <1>1, <1>3, ConcatProperties, Zenon
  <2>2. Len(q \o Z) = Len(q) + Len(Z)
    BY <1>1, <1>3, ConcatProperties, Zenon
  <2> QED BY <1>2, <1>3, <2>1, <2>2
<1>6. (p \o Z)[1] = a /\ (q \o Z)[1] = a /\ (q \o Z)[2] = y
  <2>1. Len(p) >= 1 /\ Len(q) >= 1 /\ Len(q) >= 2
    BY <1>3
  <2>2. (p \o Z)[1] = p[1]
    BY <1>1, <1>3, <2>1, JoinedLow, Zenon
  <2>3. (q \o Z)[1] = q[1] /\ (q \o Z)[2] = q[2]
    BY <1>1, <1>3, <2>1, JoinedLow, Zenon
  <2> QED BY <1>4, <2>2, <2>3, Zenon
<1>7. (p \o Z)[2] = z /\ (q \o Z)[3] = z
  <2>1. (p \o Z)[2] = Z[1]
    BY <1>1, <1>2, <1>3, JoinedHigh, Zenon
  <2>2. (q \o Z)[3] = Z[1]
    BY <1>1, <1>2, <1>3, JoinedHigh, Zenon
  <2> QED BY <1>2, <2>1, <2>2, Zenon
<1> QED BY <1>5, <1>6, <1>7, Zenon DEF p, q, A, Y, Z, N

(* A new thread has its stacks in step, whatever its first frames are. *)
LEMMA MatchInit == Init => MatchInv
<1> SUFFICES ASSUME Init PROVE MatchInv
  OBVIOUS
<1>0. StackInv
  BY StackInit
<1> DEFINE e == NewFrame("empty", 1, 0)
           c == NewFrame("code", 0, 0)
           x == NewFrame("bind", 1, 0)
           s == NewFrame("signal", 0, 0)
           h1 == NewHandler(1, 0)
           h2 == NewHandler(2, 0)
<1>1. /\ e.worker = "empty" /\ e.blocks = 1 /\ c.worker = "code" /\ c.blocks = 0
      /\ x.worker = "bind" /\ x.blocks = 1 /\ s.worker = "signal" /\ s.blocks = 0
  BY DEF NewFrame
<1>2. /\ h1.frame = 1 /\ h1.data = 0 /\ h1.state = "TRYING"
      /\ h2.frame = 2 /\ h2.data = 0 /\ h2.state = "TRYING"
  BY DEF NewHandler
<1>3. PICK bottom \in {<<>>, <<x>>, <<s>>} : frames = <<e>> \o bottom \o <<c>>
  BY DEF Init
<1>4. mode = "run" /\ Active
  BY DEF Init, Active
<1>5. handlers = IF frames[2].worker = "bind" THEN <<h1, h2>> ELSE <<h1>>
  BY DEF Init
<1> HIDE DEF e, c, x, s, h1, h2
<1>6. CASE bottom = <<>>
  <2>1. Len(frames) = 2 /\ frames[1] = e /\ frames[2] = c
    <3>1. frames = <<e>> \o <<>> \o <<c>>
      BY <1>3, <1>6, Zenon
    <3>2. Len(<<e>> \o <<>> \o <<c>>) = 2 /\ (<<e>> \o <<>> \o <<c>>)[1] = e /\ (<<e>> \o <<>> \o <<c>>)[2] = c
      BY FirstFrames
    <3> QED BY <3>1, <3>2, Zenon
  <2>2. handlers = <<h1>>
    BY <1>1, <1>5, <2>1
  <2>3. Shape(frames, "run")
    BY <1>1, <2>1 DEF Shape
  <2> DEFINE b == [i \in 0..2 |-> IF i = 0 THEN 0 ELSE 1]
  <2>4. Segments(frames, handlers, b) /\ Tops(frames, handlers, "run", b) /\ Caught(frames, handlers, b)
    <3>1. /\ Len(frames) = 2 /\ frames[1] = e /\ frames[2] = c
          /\ Len(handlers) = 1 /\ handlers[1] = h1
      BY <2>1, <2>2
    <3>2. b \in [0..2 -> Nat] /\ b[0] = 0 /\ b[1] = 1 /\ b[2] = 1
      OBVIOUS
    <3> HIDE DEF b
    <3>3. \A i \in 1..2 : b[i] = b[i - 1] + frames[i].blocks
      <4>1. 1..2 = {1, 2}
        OBVIOUS
      <4> QED BY <1>1, <3>1, <3>2, <4>1
    <3>4. \A i, k \in 0..2 : i <= k => b[i] <= b[k]
      <4>1. 0..2 = {0, 1, 2}
        OBVIOUS
      <4> QED BY <3>2, <4>1
    <3>5. \A j \in 1..1 :
            /\ handlers[j].frame \in 1..2 /\ b[handlers[j].frame - 1] < j /\ j <= b[handlers[j].frame]
            /\ handlers[j].data = IF frames[handlers[j].frame].worker = "code"
                                  THEN j - b[handlers[j].frame - 1] ELSE 0
      <4>1. 1..1 = {1}
        OBVIOUS
      <4> QED BY <1>1, <1>2, <3>1, <3>2, <4>1
    <3>6. Segments(frames, handlers, b)
      BY <3>1, <3>2, <3>3, <3>4, <3>5 DEF Segments
    <3>7. Tops(frames, handlers, "run", b) /\ Caught(frames, handlers, b)
      BY <1>1, <1>2, <3>1, <3>2 DEF Tops, Caught
    <3> QED BY <3>6, <3>7
  <2> QED BY <1>0, <1>4, <2>3, <2>4 DEF MatchInv, InStep
<1>7. CASE bottom = <<x>>
  <2>1. Len(frames) = 3 /\ frames[1] = e /\ frames[2] = x /\ frames[3] = c
    <3>1. frames = <<e>> \o <<x>> \o <<c>>
      BY <1>3, <1>7, Zenon
    <3>2. Len(<<e>> \o <<x>> \o <<c>>) = 3 /\ (<<e>> \o <<x>> \o <<c>>)[1] = e /\ (<<e>> \o <<x>> \o <<c>>)[2] = x /\ (<<e>> \o <<x>> \o <<c>>)[3] = c
      BY FirstFrames
    <3> QED BY <3>1, <3>2, Zenon
  <2>2. handlers = <<h1, h2>>
    BY <1>1, <1>5, <2>1
  <2>3. Shape(frames, "run")
    BY <1>1, <2>1 DEF Shape
  <2> DEFINE b == [i \in 0..3 |-> IF i = 0 THEN 0 ELSE IF i = 1 THEN 1 ELSE 2]
  <2>4. Segments(frames, handlers, b) /\ Tops(frames, handlers, "run", b) /\ Caught(frames, handlers, b)
    <3>1. /\ Len(frames) = 3 /\ frames[1] = e /\ frames[2] = x /\ frames[3] = c
          /\ Len(handlers) = 2 /\ handlers[1] = h1 /\ handlers[2] = h2
      BY <2>1, <2>2
    <3>2. b \in [0..3 -> Nat] /\ b[0] = 0 /\ b[1] = 1 /\ b[2] = 2 /\ b[3] = 2
      OBVIOUS
    <3> HIDE DEF b
    <3>3. \A i \in 1..3 : b[i] = b[i - 1] + frames[i].blocks
      <4>1. 1..3 = {1, 2, 3}
        OBVIOUS
      <4> QED BY <1>1, <3>1, <3>2, <4>1
    <3>4. \A i, k \in 0..3 : i <= k => b[i] <= b[k]
      <4>1. 0..3 = {0, 1, 2, 3}
        OBVIOUS
      <4> QED BY <3>2, <4>1
    <3>5. \A j \in 1..2 :
            /\ handlers[j].frame \in 1..3 /\ b[handlers[j].frame - 1] < j /\ j <= b[handlers[j].frame]
            /\ handlers[j].data = IF frames[handlers[j].frame].worker = "code"
                                  THEN j - b[handlers[j].frame - 1] ELSE 0
      <4>1. 1..2 = {1, 2}
        OBVIOUS
      <4> QED BY <1>1, <1>2, <3>1, <3>2, <4>1
    <3>6. Segments(frames, handlers, b)
      BY <3>1, <3>2, <3>3, <3>4, <3>5 DEF Segments
    <3>7. Tops(frames, handlers, "run", b) /\ Caught(frames, handlers, b)
      BY <1>1, <1>2, <3>1, <3>2 DEF Tops, Caught
    <3> QED BY <3>6, <3>7
  <2> QED BY <1>0, <1>4, <2>3, <2>4 DEF MatchInv, InStep
<1>8. CASE bottom = <<s>>
  <2>1. Len(frames) = 3 /\ frames[1] = e /\ frames[2] = s /\ frames[3] = c
    <3>1. frames = <<e>> \o <<s>> \o <<c>>
      BY <1>3, <1>8, Zenon
    <3>2. Len(<<e>> \o <<s>> \o <<c>>) = 3 /\ (<<e>> \o <<s>> \o <<c>>)[1] = e /\ (<<e>> \o <<s>> \o <<c>>)[2] = s /\ (<<e>> \o <<s>> \o <<c>>)[3] = c
      BY FirstFrames
    <3> QED BY <3>1, <3>2, Zenon
  <2>2. handlers = <<h1>>
    BY <1>1, <1>5, <2>1
  <2>3. Shape(frames, "run")
    BY <1>1, <2>1 DEF Shape
  <2> DEFINE b == [i \in 0..3 |-> IF i = 0 THEN 0 ELSE 1]
  <2>4. Segments(frames, handlers, b) /\ Tops(frames, handlers, "run", b) /\ Caught(frames, handlers, b)
    <3>1. /\ Len(frames) = 3 /\ frames[1] = e /\ frames[2] = s /\ frames[3] = c
          /\ Len(handlers) = 1 /\ handlers[1] = h1
      BY <2>1, <2>2
    <3>2. b \in [0..3 -> Nat] /\ b[0] = 0 /\ b[1] = 1 /\ b[2] = 1 /\ b[3] = 1
      OBVIOUS
    <3> HIDE DEF b
    <3>3. \A i \in 1..3 : b[i] = b[i - 1] + frames[i].blocks
      <4>1. 1..3 = {1, 2, 3}
        OBVIOUS
      <4> QED BY <1>1, <3>1, <3>2, <4>1
    <3>4. \A i, k \in 0..3 : i <= k => b[i] <= b[k]
      <4>1. 0..3 = {0, 1, 2, 3}
        OBVIOUS
      <4> QED BY <3>2, <4>1
    <3>5. \A j \in 1..1 :
            /\ handlers[j].frame \in 1..3 /\ b[handlers[j].frame - 1] < j /\ j <= b[handlers[j].frame]
            /\ handlers[j].data = IF frames[handlers[j].frame].worker = "code"
                                  THEN j - b[handlers[j].frame - 1] ELSE 0
      <4>1. 1..1 = {1}
        OBVIOUS
      <4> QED BY <1>1, <1>2, <3>1, <3>2, <4>1
    <3>6. Segments(frames, handlers, b)
      BY <3>1, <3>2, <3>3, <3>4, <3>5 DEF Segments
    <3>7. Tops(frames, handlers, "run", b) /\ Caught(frames, handlers, b)
      BY <1>1, <1>2, <3>1, <3>2 DEF Tops, Caught
    <3> QED BY <3>6, <3>7
  <2> QED BY <1>0, <1>4, <2>3, <2>4 DEF MatchInv, InStep
<1> QED BY <1>3, <1>6, <1>7, <1>8

(* Every step keeps the stacks in step. *)
LEMMA MatchStep == MatchInv /\ [Next]_vars => MatchInv'
<1> SUFFICES ASSUME MatchInv, [Next]_vars PROVE MatchInv'
  OBVIOUS
<1>1. StackInv'
  BY StackStep DEF MatchInv
<1>2. CASE Next
  <2>1. Kept
    BY <1>2, CallKeeps, PopKeeps, InstallKeeps, RemoveKeeps, SameStacksKeep, BindRunKeeps, UncaughtRunKeeps,
       CodeHandleKeeps, BindHandleKeeps, UncaughtHandleKeeps, EmptyHandleKeeps DEF Next
  <2> QED BY <1>1, <2>1 DEF Kept, MatchInv
<1>3. CASE UNCHANGED vars
  BY <1>1, <1>3 DEF vars, MatchInv, Active
<1> QED BY <1>2, <1>3


-----------------------------------------------------------------------------
(* The entry of a frame that is on the stack, or the used one that is left over *)
LEMMA EntryCases ==
  ASSUME MatchInv, NEW b, Known(b), NEW j \in 1..Len(handlers)
  PROVE  \/ /\ handlers[j].frame \in 1..Len(frames)
            /\ b[handlers[j].frame - 1] \in Nat /\ b[handlers[j].frame] \in Nat
            /\ b[handlers[j].frame - 1] < j /\ j <= b[handlers[j].frame]
            /\ handlers[j].data = IF frames[handlers[j].frame].worker = "code"
                                  THEN j - b[handlers[j].frame - 1] ELSE 0
         \/ /\ Len(frames) = 1 /\ j = 2 /\ handlers[j].frame = 2
            /\ handlers[j].state = "HANDLING" /\ handlers[j].data = 0
<1> DEFINE n == Len(frames)
           f == handlers[j].frame
<1>1. n \in Nat /\ Len(handlers) \in Nat
  BY StackFacts
<1>2. n \in 0..n /\ b[n] \in Nat /\ Segments(frames, handlers, b) /\ (n = 1 => b[n] = 1)
  BY <1>1 DEF Known
<1>3. CASE j <= b[n]
  <2>1. j \in 1..b[n]
    BY <1>1, <1>2, <1>3
  <2>2. /\ f \in 1..n /\ b[f - 1] < j /\ j <= b[f]
        /\ handlers[j].data = IF frames[f].worker = "code" THEN j - b[f - 1] ELSE 0
    BY <1>2, <2>1 DEF Segments
  <2>3. f - 1 \in 0..n /\ f \in 0..n
    BY <1>1, <2>2
  <2>4. b[f - 1] \in Nat /\ b[f] \in Nat
    BY <2>3 DEF Known
  <2> QED BY <2>2, <2>4
<1>4. CASE ~(j <= b[n])
  <2>1. Len(handlers) # b[n]
    BY <1>1, <1>2, <1>4
  <2>2. /\ n = 1 /\ Len(handlers) = 2
        /\ handlers[2].frame = 2 /\ handlers[2].state = "HANDLING" /\ handlers[2].data = 0
    BY <2>1 DEF Known, Tops
  <2>3. j = 2
    <3>1. b[n] = 1
      BY <1>2, <2>2
    <3>2. \A x \in 1..2 : ~(x <= 1) => x = 2
      OBVIOUS
    <3> QED BY <1>4, <2>2, <3>1, <3>2
  <2> QED BY <2>2, <2>3
<1> QED BY <1>3, <1>4

(* The entries are in the order of the frames. *)
LEMMA EntriesOrdered ==
  ASSUME MatchInv, Active, NEW j \in 1..Len(handlers), NEW k \in 1..j
  PROVE  /\ handlers[k].frame <= handlers[j].frame
         /\ handlers[k].frame = handlers[j].frame /\ handlers[j].data > 0
              => handlers[j].data + k = handlers[k].data + j
<1> DEFINE n == Len(frames)
           f == handlers[j].frame
           g == handlers[k].frame
<1>1. PICK b : Known(b)
  BY StacksInStep
<1>2. n \in Nat /\ Len(handlers) \in Nat /\ k \in 1..Len(handlers) /\ k <= j /\ k \in Nat /\ j \in Nat
  BY StackFacts
<1>3. CASE /\ n = 1 /\ j = 2 /\ f = 2 /\ handlers[j].data = 0
  <2>1. k = 2 \/ g \in 1..n
    BY <1>1, <1>2, EntryCases
  <2> QED BY <1>3, <2>1
<1>4. CASE /\ f \in 1..n /\ b[f - 1] \in Nat /\ b[f] \in Nat /\ b[f - 1] < j /\ j <= b[f]
           /\ handlers[j].data = IF frames[f].worker = "code" THEN j - b[f - 1] ELSE 0
  <2>1. CASE n = 1 /\ k = 2
    <3>1. f = 1
      BY <1>4, <2>1
    <3>2. b[1] = 1
      BY <1>1 DEF Known
    <3> QED BY <1>2, <1>4, <2>1, <3>1, <3>2
  <2>2. CASE /\ g \in 1..n /\ b[g - 1] \in Nat /\ b[g] \in Nat /\ b[g - 1] < k /\ k <= b[g]
             /\ handlers[k].data = IF frames[g].worker = "code" THEN k - b[g - 1] ELSE 0
    <3>1. g <= f
      <4>0. \A x, y \in 1..n : x + 1 <= y => x <= y - 1 /\ x \in 0..n /\ y - 1 \in 0..n
        BY <1>2
      <4>1. f + 1 <= g => f <= g - 1 /\ f \in 0..n /\ g - 1 \in 0..n
        BY <1>4, <2>2, <4>0, Zenon
      <4>2. f + 1 <= g => b[f] <= b[g - 1]
        BY <1>1, <4>1 DEF Known
      <4>3. ~(f + 1 <= g)
        <5>1. b[g - 1] < k /\ k <= j /\ j <= b[f] /\ b[f] \in Nat /\ b[g - 1] \in Nat
          BY <1>2, <1>4, <2>2
        <5> HIDE DEF f, g
        <5> QED BY <1>2, <4>2, <5>1
      <4> QED BY <1>2, <1>4, <2>2, <4>3
    <3>2. ASSUME g = f, handlers[j].data > 0 PROVE handlers[j].data + k = handlers[k].data + j
      <4>1. frames[f].worker = "code"
        BY <1>4, <3>2
      <4>2. handlers[j].data = j - b[f - 1] /\ handlers[k].data = k - b[f - 1]
        BY <1>4, <2>2, <3>2, <4>1
      <4> QED BY <1>2, <1>4, <4>2
    <3> QED BY <3>1, <3>2
  <2> QED BY <1>1, <1>2, <2>1, <2>2, EntryCases
<1> QED BY <1>1, <1>3, <1>4, EntryCases

(* The number of entries of a frame *)
LEMMA EntriesCounted ==
  ASSUME MatchInv, Active, NEW i \in 1..Len(frames)
  PROVE  Cardinality(EntriesOf(i)) = frames[i].blocks
<1> DEFINE n == Len(frames)
<1>1. PICK b : Known(b)
  BY StacksInStep
<1>2. frames \in Seq(Frame) /\ handlers \in Seq(Handler) /\ n \in Nat /\ Len(handlers) \in Nat
  BY StackFacts
<1>3. frames[i].blocks \in Nat
  <2>1. frames[i] \in Frame
    BY <1>2
  <2> QED BY <2>1 DEF Frame
<1>4. i - 1 \in 0..n /\ i \in 0..n /\ n \in 0..n
  BY <1>2
<1>5. /\ b[i - 1] \in Nat /\ b[i] \in Nat /\ b[n] \in Nat /\ b[i] <= b[n] /\ b[n] <= Len(handlers)
      /\ b[i] = b[i - 1] + frames[i].blocks /\ Segments(frames, handlers, b)
  BY <1>1, <1>2, <1>4 DEF Known
<1> DEFINE l == b[i - 1] + 1
           r == b[i]
<1>6. l \in Int /\ r \in Int
  BY <1>5
<1>7. EntriesOf(i) = l..r
  <2>1. ASSUME NEW j \in EntriesOf(i) PROVE j \in l..r
    <3>1. j \in 1..Len(handlers) /\ handlers[j].frame = i
      BY DEF EntriesOf
    <3>2. b[i - 1] < j /\ j <= b[i]
      <4>0. \A m \in Nat : \A x \in 1..m : ~(m = 1 /\ x = 2)
        OBVIOUS
      <4>1. ~(n = 1 /\ i = 2)
        BY <1>2, <4>0
      <4> QED BY <1>1, <3>1, <4>1, EntryCases
    <3> QED BY <1>2, <1>5, <3>1, <3>2
  <2>2. ASSUME NEW j \in l..r PROVE j \in EntriesOf(i)
    <3>1. handlers[j].frame = i
      BY <1>2, <1>5, InSegment
    <3>2. j \in 1..Len(handlers)
      BY <1>2, <1>5
    <3> QED BY <3>1, <3>2 DEF EntriesOf
  <2> HIDE DEF l, r
  <2> QED BY <2>1, <2>2
<1>8. Cardinality(l..r) = IF l > r THEN 0 ELSE r - l + 1
  <2> HIDE DEF l, r
  <2> QED BY <1>6, FS_Interval
<1>9. Cardinality(EntriesOf(i)) = IF l > r THEN 0 ELSE r - l + 1
  BY <1>7, <1>8, Zenon
<1> QED BY <1>3, <1>5, <1>9

(***************************************************************************)
(* The stacks of frames and of handlers stay in step, whatever exceptions  *)
(* are raised where: every frame finds the entries of its own blocks, in   *)
(* their order, and no entry leads to a frame that has gone, but for the   *)
(* used one that BindFutureWorker::Handle leaves.                          *)
(***************************************************************************)
THEOREM StacksMatch == Spec => []HandlersMatchFrames
<1>1. ASSUME MatchInv PROVE HandlersMatchFrames
  <2>1. ASSUME Active, NEW j \in 1..Len(handlers), handlers[j].frame > Len(frames)
        PROVE  Len(frames) = 1 /\ handlers[j].state = "HANDLING"
    <3>1. PICK b : Known(b)
      BY <1>1, <2>1, StacksInStep
    <3>2. Len(frames) \in Nat
      BY <1>1, StackFacts
    <3>3. ~(handlers[j].frame \in 1..Len(frames))
      BY <2>1, <3>2
    <3> QED BY <1>1, <3>1, <3>3, EntryCases
  <2>2. ASSUME Active, NEW j \in 1..Len(handlers), NEW k \in 1..j
        PROVE  /\ handlers[k].frame <= handlers[j].frame
               /\ k \in EntriesOf(handlers[j].frame) /\ handlers[j].data > 0
                    => handlers[j].data + k = handlers[k].data + j
    BY <1>1, <2>2, EntriesOrdered DEF EntriesOf
  <2>3. ASSUME Active, NEW i \in 1..Len(frames) PROVE Cardinality(EntriesOf(i)) = frames[i].blocks
    BY <1>1, <2>3, EntriesCounted
  <2> QED BY <2>1, <2>2, <2>3, Zenon DEF HandlersMatchFrames
<1> QED BY MatchInit, MatchStep, <1>1, PTL DEF Spec

(* ActivateNextHandler finds an entry, and its frame is on the task stack. *)
LEMMA AlwaysCaught ==
  ASSUME MatchInv, Active
  PROVE  Trying # {} /\ handlers[Nearest].frame <= Len(frames)
<1> DEFINE n == Len(frames)
<1>1. PICK b : Known(b)
  BY StacksInStep
<1>2. handlers \in Seq(Handler) /\ n \in Nat /\ n >= 1 /\ Len(handlers) \in Nat
  BY StackFacts
<1>3. /\ 1 \in 0..n /\ n \in 0..n /\ (n >= 2 => 2 \in 0..n)
  BY <1>2
<1>4. /\ b \in [0..n -> Nat] /\ b[1] = 1 /\ b[1] <= b[n] /\ b[n] <= Len(handlers) /\ b[n] \in Nat
      /\ (n >= 2 => b[2] \in Nat /\ b[1] <= b[2] /\ b[2] <= b[n])
  BY <1>1, <1>2, <1>3 DEF Known
<1>5. 1 \in 1..Len(handlers) /\ (n >= 2 => b[2] \in 1..Len(handlers))
  BY <1>2, <1>4
<1>6. Trying # {}
  BY <1>1, <1>5 DEF Known, Caught, Trying
<1>7. Nearest \in Trying
  BY <1>2, <1>6, NearestTrying
<1>8. Nearest \in 1..Len(handlers) /\ handlers[Nearest].state = "TRYING"
  BY <1>7 DEF Trying
<1>9. handlers[Nearest].frame \in 1..n
  BY <1>1, <1>8, EntryCases
<1> QED BY <1>2, <1>6, <1>9

(***************************************************************************)
(* An exception always finds a handler: the assertions of                  *)
(* ActivateNextHandler and DoRaise hold however deep the stacks are.       *)
(***************************************************************************)
THEOREM ExceptionsCaught == Spec => []HandlerFound
<1>1. MatchInv => HandlerFound
  BY AlwaysCaught DEF HandlerFound
<1> QED BY MatchInit, MatchStep, <1>1, PTL DEF Spec


(***************************************************************************)
(* An exception uses up one handler: ActivateNextHandler and the workers   *)
(* leave the entries further out, and the frames they lead to, as they     *)
(* are.                                                                    *)
(***************************************************************************)
THEOREM OuterHandlersSurvive == Spec => OuterHandlersStay
<1> DEFINE Stay == mode = "raise" =>
             \A j \in Trying \ {Nearest} : /\ j <= Len(handlers') /\ handlers'[j] = handlers[j]
                                           /\ handlers[j].frame <= Len(frames')
<1>1. ASSUME MatchInv, mode = "raise", NEW w, Handles(w), Len(frames') \in Nat, Len(handlers') \in Nat,
             Len(frames') >= handlers[Nearest].frame \/ (w = "bind" /\ Len(frames') >= 1),
             Len(handlers') >= Nearest, \A j \in 1..Nearest : handlers'[j] = Activated[j]
      PROVE  Stay
  <2> DEFINE i == handlers[Nearest].frame
  <2>1. PICK b : RaiseKnown(w, b, i)
    BY <1>1, RaiseFacts
  <2>2. /\ Known(b) /\ i \in 1..Len(frames) /\ frames[i].worker = w /\ Nearest \in 1..Len(handlers)
        /\ Nearest <= b[i] /\ \A j \in Trying : j <= Nearest
    BY <2>1 DEF RaiseKnown
  <2>3. Active
    BY <1>1 DEF Active
  <2>4. handlers \in Seq(Handler) /\ Len(handlers) \in Nat /\ Len(frames) \in Nat
    BY <1>1, StackFacts
  <2>5. \A j \in 1..Nearest : j # Nearest => Activated[j] = handlers[j]
    BY <2>2, <2>4, ActivatedEntries
  <2>6. \A j \in 1..Len(handlers) : handlers[j].frame \in Nat
    <3>1. \A j \in 1..Len(handlers) : handlers[j] \in Handler
      BY <2>4, ElementOfSeq
    <3>2. \A h \in Handler : h.frame \in Nat
      BY DEF Handler
    <3> QED BY <3>1, <3>2
  <2> SUFFICES ASSUME NEW j \in Trying \ {Nearest}
               PROVE  /\ j <= Len(handlers') /\ handlers'[j] = handlers[j]
                      /\ handlers[j].frame <= Len(frames')
    OBVIOUS
  <2>7. j \in 1..Len(handlers) /\ j \in 1..Nearest /\ j # Nearest
    <3>1. j \in 1..Len(handlers)
      BY DEF Trying
    <3>2. j <= Nearest
      BY <2>2
    <3> QED BY <2>2, <2>4, <3>1, <3>2
  <2>8. handlers'[j] = handlers[j]
    BY <1>1, <2>5, <2>7
  <2>9. j <= Len(handlers')
    <3>1. \A x, y, z \in Nat : x <= y /\ z >= y => x <= z
      OBVIOUS
    <3>2. j \in Nat /\ Nearest \in Nat /\ j <= Nearest
      BY <2>2, <2>4, <2>7
    <3> QED BY <1>1, <3>1, <3>2
  <2>10. handlers[j].frame <= i /\ handlers[j].frame \in Nat /\ i \in Nat
    BY <1>1, <2>2, <2>3, <2>4, <2>6, <2>7, EntriesOrdered
  <2>11. CASE Len(frames') >= i
    <3>1. \A x, y, z \in Nat : x <= y /\ z >= y => x <= z
      OBVIOUS
    <3> QED BY <1>1, <2>8, <2>9, <2>10, <2>11, <3>1
  <2>12. CASE w = "bind" /\ Len(frames') >= 1
    <3>1. i = 2
      BY <1>1, <2>2, <2>12, SecondFrame
    <3>2. b[2] = 1 + frames[2].blocks /\ frames[2].blocks = 1
      BY <1>1, <2>2, <2>12, <3>1, SecondFrame
    <3>3. j = 1
      <4>1. \A x \in 1..2 : \A y \in 1..x : y # x => y = 1
        OBVIOUS
      <4>2. Nearest \in 1..2
        BY <2>2, <2>4, <3>1, <3>2
      <4> QED BY <2>7, <4>1, <4>2
    <3>4. handlers[1].frame = 1
      BY <1>1, <2>2, FirstEntry
    <3> QED BY <2>8, <2>9, <2>12, <3>3, <3>4
  <2> QED BY <1>1, <2>11, <2>12
<1>2. ASSUME MatchInv, NEW w, Handles(w)
      PROVE  /\ Nearest \in Nat /\ Nearest \in 1..Len(handlers) /\ Activated \in Seq(Handler) /\ Len(Activated) = Nearest
             /\ handlers[Nearest].frame \in Nat /\ handlers[Nearest].frame \in 1..Len(frames)
             /\ Unrolled \in Seq(Frame) /\ Len(Unrolled) = handlers[Nearest].frame
             /\ Len(frames) \in Nat
  <2>1. /\ frames \in Seq(Frame) /\ handlers \in Seq(Handler) /\ Len(handlers) \in Nat /\ Len(frames) \in Nat
    BY <1>2, StackFacts
  <2>2. /\ Nearest \in 1..Len(handlers) /\ handlers[Nearest].frame \in 1..Len(frames)
        /\ Activated \in Seq(Handler) /\ Len(Activated) = Nearest
    BY <1>2, <2>1, ActivatedKeeps
  <2>3. Unrolled \in Seq(Frame) /\ Len(Unrolled) = handlers[Nearest].frame
    BY <2>1, <2>2, UnrolledKeeps
  <2> QED BY <2>1, <2>2, <2>3
<1>3. ASSUME MatchInv, NEW w, Handles(w), NEW k \in Nat
      PROVE  Len([Unrolled EXCEPT ![Len(Unrolled)].blocks = k]) = Len(Unrolled)
  <2> DEFINE n == Len(Unrolled)
             t == [Unrolled[n] EXCEPT !.blocks = k]
  <2>1. Unrolled \in Seq(Frame) /\ n \in 1..Len(frames) /\ Len(frames) \in Nat
    BY <1>2, <1>3
  <2>2. n \in 1..Len(Unrolled) /\ Unrolled[n] \in Frame
    BY <2>1
  <2>3. t \in Frame
    BY <2>2, <1>3, FrameBlocks
  <2> HIDE DEF t
  <2>4. Len([Unrolled EXCEPT ![n] = t]) = n
    BY <2>1, <2>2, <2>3, ExceptSeq
  <2> QED BY <2>4 DEF t
<1>4. ASSUME MatchInv, NEW w, Handles(w), NEW f \in Nat, handlers' = Append(Activated, NewHandler(f, 0))
      PROVE  Len(handlers') \in Nat /\ Len(handlers') >= Nearest /\ \A j \in 1..Nearest : handlers'[j] = Activated[j]
  <2>1. Activated \in Seq(Handler) /\ Len(Activated) = Nearest /\ Nearest \in Nat
    BY <1>2, <1>4
  <2> DEFINE h == NewHandler(f, 0)
  <2>2. h \in Handler
    BY DEF NewHandler, Handler
  <2> HIDE DEF h
  <2>3. /\ Append(Activated, h) \in Seq(Handler) /\ Len(Append(Activated, h)) = Nearest + 1
        /\ \A j \in 1..Nearest : Append(Activated, h)[j] = Activated[j]
    BY <2>1, <2>2, AppendProperties
  <2>4. handlers' = Append(Activated, h)
    BY <1>4 DEF h
  <2>5. Nearest + 1 \in Nat /\ Nearest + 1 >= Nearest
    BY <2>1
  <2> QED BY <2>3, <2>4, <2>5
<1>5. ASSUME MatchInv, CodeHandle PROVE Stay
  <2>1. Handles("code") /\ mode = "raise" /\ handlers' = Activated
        /\ frames' = [Unrolled EXCEPT ![Len(Unrolled)].blocks = handlers[Nearest].data]
    BY <1>5 DEF CodeHandle, Handles
  <2>2. handlers[Nearest].data \in Nat
    <3>1. handlers[Nearest] \in Handler
      BY <1>2, <1>5, <2>1, StackFacts
    <3> QED BY <3>1 DEF Handler
  <2>3. Len(frames') = handlers[Nearest].frame
    BY <1>2, <1>3, <1>5, <2>1, <2>2
  <2>4. /\ Nearest \in Nat /\ Len(Activated) = Nearest /\ handlers[Nearest].frame \in Nat
    BY <1>2, <1>5, <2>1
  <2>5. /\ Len(frames') \in Nat /\ Len(handlers') \in Nat /\ Len(frames') >= handlers[Nearest].frame
        /\ Len(handlers') >= Nearest /\ \A j \in 1..Nearest : handlers'[j] = Activated[j]
    BY <2>1, <2>3, <2>4
  <2> QED BY <1>1, <1>5, <2>1, <2>5
<1>6. ASSUME MatchInv, BindFutureHandle PROVE Stay
  <2>1. Handles("bind") /\ mode = "raise" /\ handlers' = Activated
        /\ frames' = SubSeq(Unrolled, 1, Len(Unrolled) - 1)
    BY <1>6 DEF BindFutureHandle, Handles
  <2>2. PICK b : RaiseKnown("bind", b, handlers[Nearest].frame)
    BY <1>6, <2>1, RaiseFacts
  <2>3. handlers[Nearest].frame = 2
    BY <1>6, <2>2, SecondFrame DEF RaiseKnown
  <2>4. Unrolled \in Seq(Frame) /\ Len(Unrolled) = 2 /\ Len(Activated) = Nearest /\ Nearest \in Nat
    BY <1>2, <1>6, <2>1, <2>3
  <2>5. Len(frames') = 1
    BY <2>1, <2>4, BottomLeft
  <2>6. /\ Len(frames') \in Nat /\ Len(handlers') \in Nat /\ Len(frames') >= 1
        /\ Len(handlers') >= Nearest /\ \A j \in 1..Nearest : handlers'[j] = Activated[j]
    BY <2>1, <2>4, <2>5
  <2> QED BY <1>1, <1>6, <2>1, <2>6
<1>7. ASSUME MatchInv, UncaughtHandle PROVE Stay
  <2>1. Handles("uncaught") /\ mode = "raise" /\ handlers' = Append(Activated, NewHandler(Len(Unrolled), 0))
        /\ frames' = [Unrolled EXCEPT ![Len(Unrolled)].blocks = Unrolled[Len(Unrolled)].blocks + 1]
    BY <1>7 DEF UncaughtHandle, Handles, PushHandler
  <2>2. /\ handlers[Nearest].frame \in Nat /\ Len(Unrolled) = handlers[Nearest].frame /\ Unrolled \in Seq(Frame)
        /\ Len(Unrolled) \in 1..Len(frames) /\ Len(frames) \in Nat
    BY <1>2, <1>7, <2>1
  <2>3. Unrolled[Len(Unrolled)].blocks + 1 \in Nat
    <3>1. Len(Unrolled) \in 1..Len(Unrolled)
      BY <2>2
    <3>2. Unrolled[Len(Unrolled)] \in Frame
      BY <2>2, <3>1, ElementOfSeq
    <3>3. Unrolled[Len(Unrolled)].blocks \in Nat
      BY <3>2 DEF Frame
    <3> QED BY <3>3
  <2>4. Len(frames') = handlers[Nearest].frame
    BY <1>3, <1>7, <2>1, <2>2, <2>3
  <2>5. Len(handlers') \in Nat /\ Len(handlers') >= Nearest /\ \A j \in 1..Nearest : handlers'[j] = Activated[j]
    BY <1>4, <1>7, <2>1, <2>2
  <2>6. Len(frames') \in Nat /\ Len(frames') >= handlers[Nearest].frame
    BY <2>2, <2>4
  <2> QED BY <1>1, <1>7, <2>1, <2>5, <2>6
<1>8. ASSUME MatchInv, EmptyTaskHandle PROVE Stay
  <2>1. Handles("empty") /\ mode = "raise"
    BY <1>8 DEF EmptyTaskHandle, Handles
  <2>2. /\ handlers[Nearest].frame \in Nat /\ Len(Unrolled) = handlers[Nearest].frame /\ Unrolled \in Seq(Frame)
        /\ Nearest \in Nat /\ Len(Activated) = Nearest
    BY <1>2, <1>8, <2>1
  <2>3. CASE frames' = Unrolled /\ handlers' = Activated
    <3>1. /\ Len(frames') \in Nat /\ Len(handlers') \in Nat /\ Len(frames') >= handlers[Nearest].frame
          /\ Len(handlers') >= Nearest /\ \A j \in 1..Nearest : handlers'[j] = Activated[j]
      BY <2>2, <2>3
    <3> QED BY <1>1, <1>8, <2>1, <3>1
  <2>4. CASE /\ frames' = Append(Unrolled, NewFrame("uncaught", 1, closures))
             /\ PushHandler(Activated, Len(Unrolled) + 1, 0)
    <3>1. NewFrame("uncaught", 1, closures) \in Frame
      <4>1. closures \in Nat
        BY <1>8 DEF MatchInv, StackInv, TypeOK
      <4> QED BY <4>1 DEF NewFrame, Frame, Worker
    <3>2. Len(frames') = handlers[Nearest].frame + 1
      BY <2>2, <2>4, <3>1, AppendProperties
    <3>3. Len(frames') \in Nat /\ Len(frames') >= handlers[Nearest].frame
      <4>1. handlers[Nearest].frame + 1 \in Nat /\ handlers[Nearest].frame + 1 >= handlers[Nearest].frame
        BY <2>2
      <4> QED BY <3>2, <4>1
    <3>4. Len(Unrolled) + 1 \in Nat /\ handlers' = Append(Activated, NewHandler(Len(Unrolled) + 1, 0))
      BY <2>2, <2>4 DEF PushHandler
    <3>5. Len(handlers') \in Nat /\ Len(handlers') >= Nearest /\ \A j \in 1..Nearest : handlers'[j] = Activated[j]
      BY <1>4, <1>8, <2>1, <3>4
    <3> QED BY <1>1, <1>8, <2>1, <3>3, <3>5
  <2> QED BY <1>8, <2>3, <2>4 DEF EmptyTaskHandle
<1> HIDE DEF Stay
<1>9. MatchInv /\ [Next]_vars => [Stay]_vars
  <2> SUFFICES ASSUME MatchInv, Next PROVE Stay
    OBVIOUS
  <2>1. CASE mode # "raise"
    BY <2>1 DEF Stay
  <2>2. CASE mode = "raise"
    <3>1. CodeHandle \/ BindFutureHandle \/ UncaughtHandle \/ EmptyTaskHandle
      BY <2>2 DEF Next, Runs, Call, Return, InstallHandler, RemoveHandler, Raise, AddExnClosure,
         BindFutureRun, SignalRun, EmptyTaskRun, UncaughtRun
    <3> QED BY <1>5, <1>6, <1>7, <1>8, <3>1
  <2> QED BY <2>1, <2>2
<1> QED BY MatchInit, MatchStep, <1>9, PTL DEF Spec, OuterHandlersStay, Stay


(* Only frame 2 can be that of the atExn actions. *)
LEMMA UncaughtIsSecond ==
  ASSUME MatchInv, NEW i \in 1..Len(frames), frames[i].worker = "uncaught"
  PROVE  i = 2 /\ Len(frames) \in Nat /\ Len(frames) >= 2 /\ frames \in Seq(Frame)
<1>1. Shape(frames, mode) /\ Len(frames) \in Nat /\ frames \in Seq(Frame)
  BY StackFacts
<1>2. i # 1 /\ ~(i \in 3..Len(frames))
  BY <1>1 DEF Shape
<1>3. \A n \in Nat : \A x \in 1..n : x # 1 /\ ~(x \in 3..n) => x = 2 /\ n >= 2
  OBVIOUS
<1> QED BY <1>1, <1>2, <1>3

(***************************************************************************)
(* The atExn actions are all executed, whatever they raise: no exception   *)
(* reaches the handler below their frame, and only                         *)
(* UncaughtExceptionWorker::Run pops it, after the last of them.           *)
(***************************************************************************)
THEOREM ExnActionsAllRun == Spec => ExnActionsRun
<1> DEFINE Stays == \A i \in 1..Len(frames) :
             frames[i].worker = "uncaught" =>
               \/ i <= Len(frames') /\ frames'[i].worker = "uncaught"
               \/ frames[i].left = 0 /\ i = Len(frames)
<1>1. ASSUME MatchInv, Len(frames') \in Nat, Len(frames') >= 2, frames'[2].worker = frames[2].worker
      PROVE  Stays
  <2> SUFFICES ASSUME NEW i \in 1..Len(frames), frames[i].worker = "uncaught"
               PROVE  i <= Len(frames') /\ frames'[i].worker = "uncaught"
    OBVIOUS
  <2>1. i = 2
    BY <1>1, UncaughtIsSecond
  <2> QED BY <1>1, <2>1
<1>2. ASSUME MatchInv, Len(frames) >= 2 => frames[2].worker # "uncaught" PROVE Stays
  <2> SUFFICES ASSUME NEW i \in 1..Len(frames), frames[i].worker = "uncaught" PROVE FALSE
    OBVIOUS
  <2> QED BY <1>2, UncaughtIsSecond
<1>3. ASSUME MatchInv, frames' = frames PROVE Stays
  <2> SUFFICES ASSUME NEW i \in 1..Len(frames), frames[i].worker = "uncaught"
               PROVE  i <= Len(frames') /\ frames'[i].worker = "uncaught"
    OBVIOUS
  <2>1. i \in Nat /\ Len(frames) \in Nat /\ i <= Len(frames)
    BY <1>3, StackFacts
  <2> QED BY <1>3, <2>1
<1>4. ASSUME MatchInv, Call PROVE Stays
  <2>1. frames' = Append(frames, NewFrame("code", 0, 0)) /\ top.worker = "code"
    BY <1>4 DEF Call, PushFrame, Runs
  <2>2. frames \in Seq(Frame) /\ Len(frames) \in Nat /\ Len(frames) >= 2
    BY <1>4, <2>1, StackFacts
  <2>3. NewFrame("code", 0, 0) \in Frame
    BY DEF NewFrame, Frame, Worker
  <2>4. Len(frames') = Len(frames) + 1 /\ \A x \in 1..Len(frames) : frames'[x] = frames[x]
    BY <2>1, <2>2, <2>3, AppendProperties
  <2>5. 2 \in 1..Len(frames) /\ Len(frames) + 1 \in Nat /\ Len(frames) + 1 >= 2
    BY <2>2
  <2> QED BY <1>1, <1>4, <2>4, <2>5
<1>5. ASSUME MatchInv, Return \/ SignalRun PROVE Stays
  <2>1. /\ frames' = SubSeq(frames, 1, Len(frames) - 1) /\ frames \in Seq(Frame) /\ Len(frames) \in Nat
        /\ (top.worker = "code" \/ top.worker = "signal") /\ Len(frames) >= 2
    BY <1>5, StackFacts DEF Return, SignalRun, PopFrame, Runs
  <2>2. CASE Len(frames) = 2
    BY <1>2, <1>5, <2>1, <2>2 DEF top
  <2>3. CASE Len(frames) # 2
    <3>1. \A m \in 1..Len(frames) : /\ Len(SubSeq(frames, 1, m)) = m
                                    /\ \A x \in 1..m : SubSeq(frames, 1, m)[x] = frames[x]
      BY <2>1
    <3>2. /\ Len(frames) - 1 \in 1..Len(frames) /\ 2 \in 1..(Len(frames) - 1)
          /\ Len(frames) - 1 \in Nat /\ Len(frames) - 1 >= 2
      <4>1. \A m \in Nat : m >= 2 /\ m # 2 =>
              m - 1 \in 1..m /\ 2 \in 1..(m - 1) /\ m - 1 \in Nat /\ m - 1 >= 2
        OBVIOUS
      <4> QED BY <2>1, <2>3, <4>1
    <3>3. Len(frames') = Len(frames) - 1 /\ frames'[2] = frames[2]
      BY <2>1, <3>1, <3>2, Zenon
    <3> QED BY <1>1, <1>5, <3>2, <3>3
  <2> QED BY <2>2, <2>3
<1>6. ASSUME MatchInv, NEW k \in Nat, top.worker = "code", frames' = [frames EXCEPT ![Len(frames)].blocks = k]
      PROVE  Stays
  <2> DEFINE n == Len(frames)
             t == [frames[n] EXCEPT !.blocks = k]
  <2>1. frames \in Seq(Frame) /\ n \in Nat /\ n >= 2 /\ frames[n] \in Frame /\ n \in 1..n
    BY <1>6, StackFacts DEF top
  <2>2. t \in Frame /\ t.worker = frames[n].worker
    BY <2>1, FrameBlocks
  <2>3. frames' = [frames EXCEPT ![n] = t]
    BY <1>6
  <2> HIDE DEF t
  <2>4. Len(frames') = n /\ frames'[2].worker = frames[2].worker
    <3>1. 2 \in 1..n
      BY <2>1
    <3>2. Len(frames') = n /\ \A x \in 1..n : frames'[x] = IF x = n THEN t ELSE frames[x]
      BY <2>1, <2>2, <2>3, ExceptSeq
    <3> QED BY <2>2, <3>1, <3>2
  <2> QED BY <1>1, <1>6, <2>1, <2>4
<1>7. ASSUME MatchInv, InstallHandler \/ RemoveHandler PROVE Stays
  <2>1. top.worker = "code" /\ top.blocks \in Nat
    BY <1>7, StackFacts DEF InstallHandler, RemoveHandler, Runs
  <2>2. CASE InstallHandler
    <3>1. top.blocks + 1 \in Nat
      BY <2>1
    <3>2. frames' = [frames EXCEPT ![Len(frames)].blocks = top.blocks + 1]
      BY <2>2 DEF InstallHandler, top
    <3> QED BY <1>6, <1>7, <2>1, <3>1, <3>2
  <2>3. CASE RemoveHandler
    <3>1. top.blocks - 1 \in Nat
      BY <2>1, <2>3 DEF RemoveHandler
    <3>2. frames' = [frames EXCEPT ![Len(frames)].blocks = top.blocks - 1]
      BY <2>3 DEF RemoveHandler, top
    <3> QED BY <1>6, <1>7, <2>1, <3>1, <3>2
  <2> QED BY <1>7, <2>2, <2>3
<1>8. ASSUME MatchInv, BindFutureRun PROVE Stays
  <2>1. top.worker = "bind"
    BY <1>8 DEF BindFutureRun, Runs
  <2>2. Len(frames) = 2
    BY <1>8, <2>1, StackFacts
  <2> QED BY <1>2, <1>8, <2>1, <2>2 DEF top
<1>9. ASSUME MatchInv, UncaughtRun PROVE Stays
  <2>1. top.worker = "uncaught"
    BY <1>9 DEF UncaughtRun, Runs
  <2>2. Len(frames) = 2 /\ frames \in Seq(Frame) /\ frames[2] = top /\ top \in Frame
    BY <1>9, <2>1, StackFacts DEF top
  <2>3. CASE top.left = 0
    <3> SUFFICES ASSUME NEW i \in 1..Len(frames), frames[i].worker = "uncaught"
                 PROVE  frames[i].left = 0 /\ i = Len(frames)
      OBVIOUS
    <3>1. i = 2
      BY <1>9, UncaughtIsSecond
    <3> QED BY <2>2, <2>3, <3>1
  <2>4. CASE /\ top.left > 0
             /\ frames' = Append([frames EXCEPT ![Len(frames)].left = @ - 1], NewFrame("code", 0, 0))
    <3> DEFINE t == [top EXCEPT !.left = @ - 1]
               fs == [frames EXCEPT ![2] = t]
               c == NewFrame("code", 0, 0)
    <3>1. c \in Frame
      BY DEF NewFrame, Frame, Worker
    <3>2. top.left - 1 \in Nat
      BY <2>2, <2>4 DEF Frame
    <3>3. t \in Frame /\ t.worker = "uncaught"
      <4>1. \A f \in Frame : \A l \in Nat : [f EXCEPT !.left = l] \in Frame /\ [f EXCEPT !.left = l].worker = f.worker
        BY DEF Frame
      <4> QED BY <2>1, <2>2, <3>2, <4>1
    <3>4. frames' = Append(fs, c)
      BY <2>2, <2>4
    <3> HIDE DEF t, c
    <3>5. fs \in Seq(Frame) /\ Len(fs) = 2 /\ fs[2] = t
      BY <2>2, <3>3, TopOfTwo
    <3> HIDE DEF fs
    <3>6. 2 \in Nat /\ 3 \in Nat /\ 3 = 2 + 1 /\ 2 \in 1..2 /\ 3 >= 2
      OBVIOUS
    <3>7. Len(Append(fs, c)) = 3 /\ \A x \in 1..2 : Append(fs, c)[x] = fs[x]
      BY <3>1, <3>5, PushedOnTwo, Zenon
    <3>8. Len(frames') = 3 /\ frames'[2].worker = frames[2].worker
      BY <2>1, <2>2, <3>3, <3>4, <3>5, <3>6, <3>7
    <3> QED BY <1>1, <1>9, <3>6, <3>8
  <2> QED BY <1>9, <2>3, <2>4 DEF UncaughtRun
<1>10. ASSUME MatchInv, NEW w, Handles(w), w = "code" \/ w = "uncaught", NEW k \in Nat,
              frames' = [Unrolled EXCEPT ![Len(Unrolled)].blocks = k]
       PROVE  Stays
  <2> DEFINE i == handlers[Nearest].frame
             t == [frames[i] EXCEPT !.blocks = k]
  <2>1. frames \in Seq(Frame) /\ handlers \in Seq(Handler) /\ Len(frames) \in Nat /\ Shape(frames, mode)
    BY <1>10, StackFacts
  <2>2. i \in 1..Len(frames) /\ frames[i].worker = w
    BY <1>10, <2>1, ActivatedKeeps
  <2>3. i # 1
    BY <1>10, <2>1, <2>2 DEF Shape
  <2>4. Unrolled \in Seq(Frame) /\ Len(Unrolled) = i /\ \A x \in 1..i : Unrolled[x] = frames[x]
    BY <2>1, <2>2, UnrolledKeeps
  <2> HIDE DEF i
  <2>5. i \in Nat /\ i >= 2 /\ i \in 1..i /\ 2 \in 1..i
    BY <2>1, <2>2, <2>3
  <2>6. t \in Frame /\ t.worker = frames[i].worker
    <3>1. frames[i] \in Frame
      BY <2>1, <2>2, ElementOfSeq
    <3> QED BY <1>10, <3>1, FrameBlocks
  <2>7. frames' = [Unrolled EXCEPT ![i] = t]
    BY <1>10, <2>4, <2>5
  <2> HIDE DEF t
  <2>8. Len(frames') = i /\ \A x \in 1..i : frames'[x] = IF x = i THEN t ELSE Unrolled[x]
    BY <2>4, <2>5, <2>6, <2>7, ExceptSeq
  <2>9. frames'[2].worker = frames[2].worker
    BY <2>4, <2>5, <2>6, <2>8
  <2> QED BY <1>1, <1>10, <2>5, <2>8, <2>9
<1>11. ASSUME MatchInv, CodeHandle PROVE Stays
  <2>1. Handles("code") /\ frames' = [Unrolled EXCEPT ![Len(Unrolled)].blocks = handlers[Nearest].data]
    BY <1>11 DEF CodeHandle
  <2>2. handlers[Nearest] \in Handler
    BY <1>11, <2>1, ActivatedKeeps, StackFacts
  <2>3. handlers[Nearest].data \in Nat
    BY <2>2 DEF Handler
  <2> QED BY <1>10, <1>11, <2>1, <2>3
<1>12. ASSUME MatchInv, UncaughtHandle PROVE Stays
  <2>1. /\ Handles("uncaught")
        /\ frames' = [Unrolled EXCEPT ![Len(Unrolled)].blocks = Unrolled[Len(Unrolled)].blocks + 1]
    BY <1>12 DEF UncaughtHandle
  <2>2. Unrolled \in Seq(Frame) /\ Len(Unrolled) \in 1..Len(frames)
    BY <1>12, <2>1, ActivatedKeeps, UnrolledKeeps, StackFacts
  <2>3. Unrolled[Len(Unrolled)] \in Frame
    BY <2>2, ElementOfSeq
  <2>4. Unrolled[Len(Unrolled)].blocks \in Nat
    BY <2>3 DEF Frame
  <2>5. Unrolled[Len(Unrolled)].blocks + 1 \in Nat
    BY <2>4
  <2> QED BY <1>10, <1>12, <2>1, <2>5
<1>13. ASSUME MatchInv, BindFutureHandle \/ EmptyTaskHandle PROVE Stays
  <2>1. CASE BindFutureHandle
    <3>1. Handles("bind")
      BY <2>1 DEF BindFutureHandle
    <3>2. PICK b : RaiseKnown("bind", b, handlers[Nearest].frame)
      BY <1>13, <3>1, RaiseFacts
    <3>3. handlers[Nearest].frame = 2 /\ frames[2].worker = "bind"
      BY <1>13, <3>2, SecondFrame DEF RaiseKnown
    <3> QED BY <1>2, <1>13, <3>3
  <2>2. CASE EmptyTaskHandle
    <3>1. Handles("empty")
      BY <2>2 DEF EmptyTaskHandle
    <3> DEFINE i == handlers[Nearest].frame
    <3>2. PICK b : RaiseKnown("empty", b, i)
      BY <1>13, <3>1, RaiseFacts
    <3>3. /\ Known(b) /\ i \in 1..Len(frames) /\ frames[i].worker = "empty" /\ Nearest \in 1..Len(handlers)
          /\ Nearest <= b[i] /\ Len(frames) >= 2 /\ \A j \in Trying : j <= Nearest
      BY <3>2 DEF RaiseKnown
    <3>4. Shape(frames, mode) /\ Len(frames) \in Nat /\ Len(handlers) \in Nat
      BY <1>13, StackFacts
    <3>5. i = 1
      <4>1. ~(i \in 2..Len(frames))
        BY <3>3, <3>4 DEF Shape
      <4>2. \A x \in 1..Len(frames) : x \in 2..Len(frames) \/ x = 1
        BY <3>4
      <4> QED BY <3>3, <4>1, <4>2
    <3>6. Nearest \in Nat /\ Nearest <= 1 /\ b[1] = 1
      BY <3>3, <3>4, <3>5 DEF Known
    <3>7. ASSUME frames[2].worker = "uncaught" PROVE FALSE
      <4>1. 2 \in 1..Len(frames) /\ 2 \in 0..Len(frames) /\ Len(frames) \in 0..Len(frames) /\ 2 <= Len(frames)
        BY <3>3, <3>4
      <4>2. /\ b[2] = 1 + frames[2].blocks /\ frames[2].blocks \in Nat /\ frames[2].blocks > 0
            /\ handlers[b[2]].state = "TRYING"
        BY <1>13, <3>3, <3>7, <4>1, SecondFrame
      <4>3. b[2] \in Nat /\ b[2] > 1
        BY <4>2
      <4>4. b[2] <= b[Len(frames)] /\ b[Len(frames)] \in Nat /\ b[Len(frames)] <= Len(handlers)
        BY <3>3, <4>1 DEF Known
      <4>5. b[2] \in 1..Len(handlers)
        BY <3>4, <4>3, <4>4
      <4>6. b[2] \in Trying
        BY <4>2, <4>5 DEF Trying
      <4> QED BY <3>3, <3>6, <4>3, <4>6
    <3> QED BY <1>2, <1>13, <3>7
  <2> QED BY <1>13, <2>1, <2>2
<1>14. ASSUME MatchInv, Raise \/ AddExnClosure \/ EmptyTaskRun PROVE Stays
  BY <1>3, <1>14 DEF Raise, AddExnClosure, EmptyTaskRun
<1> HIDE DEF Stays
<1>15. MatchInv /\ [Next]_vars => [Stays]_vars
  <2> SUFFICES ASSUME MatchInv, Next PROVE Stays
    OBVIOUS
  <2> QED BY <1>4, <1>5, <1>7, <1>8, <1>9, <1>11, <1>12, <1>13, <1>14 DEF Next
<1> QED BY MatchInit, MatchStep, <1>15, PTL DEF Spec, ExnActionsRun, Stays

=============================================================================
