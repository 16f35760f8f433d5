------------------------------ MODULE IOHandler ------------------------------
(***************************************************************************)
(* Input and output of threads (src/seam/generic/IOHandler.cc, IODesc.cc,  *)
(* src/alice/vm-seam/alice/lib/system/UnsafeSocket.cc, UnsafeIODesc.cc).   *)
(*                                                                         *)
(* Descriptors are in non-blocking mode.  A primitive whose system call    *)
(* would block asks IOHandler for a future, blocks its thread on it and is *)
(* executed again when the future is bound.  IOHandler keeps three sets of *)
(* descriptors with futures; Scheduler::Run calls select on them between   *)
(* two threads.  The peers (kernel, other processes) act at any time, also *)
(* between two system calls of one primitive; other Alice threads act only *)
(* while none is inside a primitive.                                       *)
(*                                                                         *)
(* An IODesc knows that it was closed.  A socket is its number: what a     *)
(* primitive does with it depends on what has that number at that time.    *)
(***************************************************************************)
EXTENDS Naturals, Sequences, FiniteSets

CONSTANTS Thread, Future,
          Reader, Writer,   \* IODescs by direction
          Socket, Listener, \* sockets for data, sockets of servers
          Fd,               \* descriptor numbers of the system (bound)
          Ops,              \* the primitives that programs call
          NoThread, NoDesc, NoFuture

IODesc == Reader \cup Writer
Desc == IODesc \cup Socket \cup Listener

Op == {"Read", "Write", "DoBlock", "Close",
       "server", "client", "accept", "input", "output", "close"}

ASSUME IOAssumption ==
  /\ Fd \subseteq Nat
  /\ Ops \subseteq Op
  /\ Reader \cap Writer = {} /\ Socket \cap Listener = {}
  /\ IODesc \cap (Socket \cup Listener) = {}
  /\ NoDesc \notin Desc /\ NoThread \notin Thread /\ NoFuture \notin Future

VARIABLES
  type,       \* "NEW", "FD" or "CLOSED" (IODesc::FLAGS_POS; of a socket: was it closed)
  fd,         \* IODesc::FD_POS, the number of a socket; Close leaves it alone
  file,       \* system: what each number stands for
  ready,      \* system: which of "r" and "w" would not block
  sets,       \* Readable, Writable, Connected: queues of entries
  pending,    \* the futures that are not bound
  current,    \* the thread that is inside a primitive
  call,       \* the primitive a thread executes
  pc,         \* where it is in it
  blockedOn,  \* Thread::FUTURE_POS
  misled,     \* observer: arguments of transfers that went to another file
  failed      \* the assertion or the call of Error that ended the program

sysVars == <<file, ready>>
descVars == <<type, fd>>
threadVars == <<call, pc, blockedOn>>
obsVars == <<misled, failed>>
vars == <<sysVars, descVars, sets, pending, current, threadVars, obsVars>>

SetName == {"Readable", "Writable", "Connected"}
Entry == [fd : Fd, future : Future]
Call(op, d) == [op |-> op, d |-> d]
NoCall == Call("none", NoDesc)

(* The argument of a primitive is lost: Scheduler::SetNArgs(0) *)
Lost == Call("DoBlock", NoDesc)

Init ==
  /\ type = [d \in Desc |-> "NEW"]
  /\ fd = [d \in Desc |-> 0]
  /\ file = [n \in Fd |-> NoDesc]
  /\ ready = [d \in Desc |-> {}]
  /\ sets = [k \in SetName |-> <<>>]
  /\ pending = {}
  /\ current = NoThread
  /\ call = [t \in Thread |-> NoCall]
  /\ pc = [t \in Thread |-> "idle"]
  /\ blockedOn = [t \in Thread |-> NoFuture]
  /\ misled = {}
  /\ failed = "no"

-----------------------------------------------------------------------------
(* The queues of IOHandler *)

(* The direction in which a primitive waits; DoBlock asks GetDir. *)
Dir(c) == IF c.op \in {"Read", "input", "accept"} \/ c.d \in Reader THEN "r" ELSE "w"

(* WaitReadable, WaitWritable and WaitConnected name the set they add to. *)
SetOf(c) == IF c.op = "client" THEN "Connected"
            ELSE IF Dir(c) = "r" THEN "Readable" ELSE "Writable"

Entries(k) == {sets[k][i] : i \in 1..Len(sets[k])}

(* Future::New: one that nothing refers to (Future bounds how many there are) *)
FreeFuture == {f \in Future : f \notin pending /\ \A t \in Thread : blockedOn[t] # f}
NewFuture == CHOOSE f \in FreeFuture : TRUE

RemoveNthElement(q, i) ==
  [j \in 1..(Len(q) - 1) |-> IF j < i THEN q[j] ELSE q[j + 1]]

(***************************************************************************)
(* Set::Add: the future of the entry of n, a new one if there is none.     *)
(***************************************************************************)
Found(k, n) == {e \in Entries(k) : e.fd = n}
AddedFuture(k, n) == IF Found(k, n) # {} THEN (CHOOSE e \in Found(k, n) : TRUE).future
                     ELSE NewFuture
Add(k, n) ==
  IF Found(k, n) # {} THEN UNCHANGED <<sets, pending>>
  ELSE /\ FreeFuture # {}
       /\ sets' = [sets EXCEPT ![k] = Append(@, [fd |-> n, future |-> NewFuture])]
       /\ pending' = pending \cup {NewFuture}

(***************************************************************************)
(* ScheduleWaitingThreads and Become for the futures F: their threads      *)
(* execute their primitives again.  UnsafeSocket_client has dropped its    *)
(* frame: its thread goes on with the socket as the result.                *)
(***************************************************************************)
Bind(F) ==
  LET woken == {t \in Thread : blockedOn[t] \in F}
      Done(t) == t \in woken /\ call[t].op = "client"
  IN /\ pending' = pending \ F
     /\ blockedOn' = [t \in Thread |-> IF t \in woken THEN NoFuture ELSE blockedOn[t]]
     /\ pc' = [t \in Thread |-> IF Done(t) THEN "idle"
                                ELSE IF t \in woken THEN "call" ELSE pc[t]]
     /\ call' = [t \in Thread |-> IF Done(t) THEN NoCall ELSE call[t]]

(* Mutant of Schedule: the loop goes on after an element was removed *)
ScheduleSkips(queue, R) ==
  LET loop[p \in Seq(Entry) \X Nat] ==
        LET q == p[1]
            i == p[2]
        IN IF i > Len(q) THEN q
           ELSE IF q[i].fd \in R THEN loop[<<RemoveNthElement(q, i), i + 1>>]
           ELSE loop[<<q, i + 1>>]
  IN loop[<<queue, 1>>]

(***************************************************************************)
(* Set::Schedule: the loop over the queue, for the numbers R of an fd_set. *)
(* The queue closes up when an element is removed: the loop looks at the   *)
(* same index again.                                                       *)
(***************************************************************************)
Schedule(queue, R) ==
  LET loop[p \in Seq(Entry) \X Nat] ==
        LET q == p[1]
            i == p[2]
        IN IF i > Len(q) THEN q
           ELSE IF q[i].fd \in R THEN loop[<<RemoveNthElement(q, i), i>>]
           ELSE loop[<<q, i + 1>>]
  IN loop[<<queue, 1>>]

(* Set::Remove: the first entry of n *)
Remove(queue, n) ==
  LET at == {i \in 1..Len(queue) : queue[i].fd = n}
  IN IF at = {} THEN queue
     ELSE RemoveNthElement(queue, CHOOSE i \in at : \A j \in at : i <= j)

Futures(q) == {q[i].future : i \in 1..Len(q)}

(* The sets become new; Schedule and Remove bind the futures they drop. *)
Update(new) == /\ sets' = new
               /\ Bind(UNION {Futures(sets[k]) \ Futures(new[k]) : k \in SetName})

(* Mutant of IOHandlerClose: entries are removed, their futures are not bound *)
IOHandlerCloseSilent(n) == /\ sets' = [k \in SetName |-> Remove(sets[k], n)]
                           /\ UNCHANGED <<pending, threadVars>>

(* Mutant of IOHandlerClose: the set of writers is forgotten *)
IOHandlerCloseReadable(n) ==
  Update([k \in SetName |-> IF k = "Writable" THEN sets[k] ELSE Remove(sets[k], n)])

(* IOHandler::Close *)
IOHandlerClose(n) == Update([k \in SetName |-> Remove(sets[k], n)])

(***************************************************************************)
(* IOHandler::Select, called by Poll and Block between two threads.  The   *)
(* system reports the numbers that would not block; a number that stands   *)
(* for nothing makes the call fail.  A select that finds nothing, times    *)
(* out or is interrupted changes nothing.                                  *)
(***************************************************************************)
Registered(k) == {e.fd : e \in Entries(k)}
ReadyFds(S, x) == {n \in S : x \in ready[file[n]]}
BadFd == \E k \in SetName : \E n \in Registered(k) : file[n] = NoDesc

(* Mutant of Select: the set Connected is not looked at *)
SelectNotConnected ==
  /\ failed = "no" /\ current = NoThread /\ ~BadFd
  /\ LET readFDs == ReadyFds(Registered("Readable"), "r")
         writeFDs == ReadyFds(Registered("Writable"), "w")
     IN /\ readFDs \cup writeFDs # {}
        /\ Update([k \in SetName |->
                     Schedule(sets[k], IF k = "Readable" THEN readFDs ELSE writeFDs)])
  /\ UNCHANGED <<sysVars, descVars, current, obsVars>>

Select ==
  /\ failed = "no" /\ current = NoThread
  /\ IF BadFd
     THEN failed' = "select" /\ UNCHANGED <<sets, pending, threadVars>>
     ELSE LET readFDs == ReadyFds(Registered("Readable"), "r")
              writeFDs == ReadyFds(Registered("Writable") \cup Registered("Connected"), "w")
          IN /\ readFDs \cup writeFDs # {}
             /\ Update([k \in SetName |->
                          Schedule(sets[k], IF k = "Readable" THEN readFDs ELSE writeFDs)])
             /\ UNCHANGED failed
  /\ UNCHANGED <<sysVars, descVars, current, misled>>

-----------------------------------------------------------------------------
(* Threads *)

(* The program of t calls a primitive. *)
Calls(t, op) == /\ failed = "no" /\ current = NoThread
                /\ pc[t] = "idle"
                /\ op \in Ops

(* t is inside a primitive, or is about to execute it again. *)
Executes(t, at) == /\ failed = "no" /\ current \in {NoThread, t}
                   /\ pc[t] = at

(* The primitive returns or raises. *)
Returns(t) == /\ pc' = [pc EXCEPT ![t] = "idle"]
              /\ call' = [call EXCEPT ![t] = NoCall]
              /\ current' = NoThread
              /\ UNCHANGED blockedOn

(* Worker::REQUEST of future f; c is what will be executed again. *)
Requests(t, f, c) == /\ pc' = [pc EXCEPT ![t] = "blocked"]
                     /\ call' = [call EXCEPT ![t] = c]
                     /\ blockedOn' = [blockedOn EXCEPT ![t] = f]
                     /\ current' = NoThread

(* open, socket, accept: the system gives out the lowest free number *)
FreeFd == {n \in Fd : file[n] = NoDesc}
LowestFd == CHOOSE m \in FreeFd : \A k \in FreeFd : m <= k
Opens(d) == /\ FreeFd # {} /\ type[d] = "NEW"
            /\ type' = [type EXCEPT ![d] = "FD"]
            /\ fd' = [fd EXCEPT ![d] = LowestFd]
            /\ file' = [file EXCEPT ![LowestFd] = d]

(* IODesc::NewFromFD, on a number that was just opened *)
NewFromFD(d) == /\ failed = "no" /\ current = NoThread
                /\ d \in IODesc
                /\ Opens(d)
                /\ UNCHANGED <<ready, sets, pending, current, threadVars, obsVars>>

(***************************************************************************)
(* The program calls a primitive that transfers data.  It may use an       *)
(* IODesc that is closed, but it does not use a socket after closing it.   *)
(***************************************************************************)
Start(t, op, d) ==
  /\ Calls(t, op)
  /\ \/ op = "Read" /\ d \in Reader /\ type[d] # "NEW"
     \/ op = "Write" /\ d \in Writer /\ type[d] # "NEW"
     \/ op = "DoBlock" /\ d \in IODesc /\ type[d] # "NEW"
     \/ op \in {"input", "output"} /\ d \in Socket /\ type[d] = "FD"
     \/ op = "accept" /\ d \in Listener /\ type[d] = "FD"
  /\ \A u \in Thread : call[u] # Call("client", d)
  /\ pc' = [pc EXCEPT ![t] = "call"]
  /\ call' = [call EXCEPT ![t] = Call(op, d)]
  /\ current' = t
  /\ UNCHANGED <<sysVars, descVars, sets, pending, blockedOn, obsVars>>

(***************************************************************************)
(* What has the number of the primitive's argument now.  The primitive     *)
(* raises if the IODesc is closed (result_closed), or if the system call   *)
(* fails because the number stands for nothing or for another kind of file *)
(***************************************************************************)
Target(c) == file[fd[c.d]]
Usable(c) == IF c.d \in IODesc THEN type[c.d] # "CLOSED" /\ Target(c) # NoDesc
             ELSE Target(c) \in (IF c.d \in Socket THEN Socket ELSE Listener)
WouldBlock(c) == Dir(c) \notin ready[Target(c)]

Fails(t) == /\ Executes(t, "call")
            /\ call[t] # Lost
            /\ ~Usable(call[t])
            /\ Returns(t)
            /\ UNCHANGED <<sysVars, descVars, sets, pending, obsVars>>

(***************************************************************************)
(* IODesc::Read, Write, input1, inputN, output1, output, accept: the       *)
(* system call transfers something, after which the next may block.        *)
(* accept gives its client a number, or fails when there is none left.     *)
(***************************************************************************)
Transfer(t) ==
  LET c == call[t] IN
  /\ Executes(t, "call")
  /\ c.op # "DoBlock"
  /\ Usable(c) /\ ~WouldBlock(c)
  /\ misled' = IF Target(c) = c.d THEN misled ELSE misled \cup {c.d}
  /\ ready' \in {ready, [ready EXCEPT ![Target(c)] = @ \ {Dir(c)}]}
  /\ IF c.op = "accept" /\ FreeFd # {} /\ \E s \in Socket : type[s] = "NEW"
     THEN \E s \in Socket : Opens(s)
     ELSE UNCHANGED <<file, descVars>>
  /\ Returns(t)
  /\ UNCHANGED <<sets, pending, failed>>

(* It returns EWOULDBLOCK: the primitive goes on to WaitReadable or WaitWritable. *)
Blocks(t) ==
  LET c == call[t] IN
  /\ Executes(t, "call")
  /\ c.op # "DoBlock"
  /\ Usable(c) /\ WouldBlock(c)
  /\ pc' = [pc EXCEPT ![t] = "wait"]
  /\ current' = t
  /\ UNCHANGED <<sysVars, descVars, sets, pending, call, blockedOn, obsVars>>

(***************************************************************************)
(* WaitReadable, WaitWritable: a second system call.  If it says that the  *)
(* first would succeed now, the primitive goes back to it (goto retry).    *)
(***************************************************************************)
Wait(t) ==
  LET c == call[t] IN
  /\ Executes(t, "wait")
  /\ IF WouldBlock(c)
     THEN /\ Add(SetOf(c), fd[c.d])
          /\ Requests(t, AddedFuture(SetOf(c), fd[c.d]), c)
     ELSE /\ pc' = [pc EXCEPT ![t] = "call"]
          /\ UNCHANGED <<sets, pending, current, call, blockedOn>>
  /\ UNCHANGED <<sysVars, descVars, obsVars>>

(***************************************************************************)
(* IODesc::DoBlock.  It clears the arguments before it requests the        *)
(* future: when it is executed again, DECLARE_IODESC finds unit instead of *)
(* the IODesc and requests that.                                           *)
(***************************************************************************)
DoBlock(t) ==
  LET c == call[t] IN
  /\ Executes(t, "call")
  /\ c.op = "DoBlock"
  /\ IF c = Lost
     THEN failed' = "REQUEST" /\ UNCHANGED <<threadVars, current, sets, pending>>
     ELSE /\ Usable(c)
          /\ UNCHANGED failed
          /\ IF WouldBlock(c)
             THEN /\ Add(SetOf(c), fd[c.d])
                  /\ Requests(t, AddedFuture(SetOf(c), fd[c.d]), Lost)
             ELSE Returns(t) /\ UNCHANGED <<sets, pending>>
  /\ UNCHANGED <<sysVars, descVars, misled>>

(* Mutant of Close: the type of the IODesc is not changed *)
CloseKeepsType(t, op, d) ==
  /\ Calls(t, op)
  /\ d \in (IF op = "Close" THEN IODesc ELSE IF op = "close" THEN Socket \cup Listener ELSE {})
  /\ type[d] = "FD"
  /\ \A u \in Thread : call[u] # Call("client", d)
  /\ IOHandlerClose(fd[d])
  /\ file' = [file EXCEPT ![fd[d]] = NoDesc]
  /\ ready' = [ready EXCEPT ![d] = {}]
  /\ UNCHANGED <<descVars, current, obsVars>>

(***************************************************************************)
(* IODesc::Close, by the program or as the finalizer of the IODesc, and    *)
(* UnsafeSocket_close: IOHandler::Close and the close of the system, in    *)
(* either order.  A second Close of an IODesc does nothing.                *)
(***************************************************************************)
Close(t, op, d) ==
  /\ Calls(t, op)
  /\ d \in (IF op = "Close" THEN IODesc ELSE IF op = "close" THEN Socket \cup Listener ELSE {})
  /\ type[d] = "FD"
  /\ \A u \in Thread : call[u] # Call("client", d)
  /\ IOHandlerClose(fd[d])
  /\ file' = [file EXCEPT ![fd[d]] = NoDesc]
  /\ ready' = [ready EXCEPT ![d] = {}]
  /\ type' = [type EXCEPT ![d] = "CLOSED"]
  /\ UNCHANGED <<fd, current, obsVars>>

(* UnsafeSocket_server: socket, bind, listen *)
Server(t, s) == /\ Calls(t, "server")
                /\ Opens(s)
                /\ UNCHANGED <<ready, sets, pending, current, threadVars, obsVars>>

(***************************************************************************)
(* UnsafeSocket_client: connect succeeds or fails at once, or is in        *)
(* progress and the thread waits in the set Connected.  A socket whose     *)
(* connect fails is left open, like one that the program does not use.     *)
(***************************************************************************)
Client(t, s) ==
  /\ Calls(t, "client")
  /\ Opens(s)
  /\ \/ UNCHANGED <<sets, pending, current, threadVars>>
     \/ /\ Add("Connected", fd'[s])
        /\ Requests(t, AddedFuture("Connected", fd'[s]), Call("client", s))
  /\ UNCHANGED <<ready, obsVars>>

(***************************************************************************)
(* Another thread raises an exception in t (Thread.raiseIn): t leaves the  *)
(* wait queue, the entry stays.  Nobody knows the socket of a client then. *)
(***************************************************************************)
Interrupt(t) ==
  LET c == call[t] IN
  /\ failed = "no" /\ current = NoThread
  /\ pc[t] = "blocked"
  /\ pc' = [pc EXCEPT ![t] = "idle"]
  /\ call' = [call EXCEPT ![t] = NoCall]
  /\ blockedOn' = [blockedOn EXCEPT ![t] = NoFuture]
  /\ type' = IF c.op = "client" THEN [type EXCEPT ![c.d] = "LEAKED"] ELSE type
  /\ UNCHANGED <<sysVars, fd, sets, pending, current, obsVars>>

(* A peer sends data, makes room for data, or accepts a connection. *)
Peer(d) == /\ failed = "no"
           /\ type[d] \in {"FD", "LEAKED"}
           /\ \E x \in {"r", "w"} : /\ x = "r" => d \notin Writer
                                    /\ x = "w" => d \notin Reader \cup Listener
                                    /\ x \notin ready[d]
                                    /\ ready' = [ready EXCEPT ![d] = @ \cup {x}]
           /\ UNCHANGED <<file, descVars, sets, pending, current, threadVars, obsVars>>

Next == \/ Select
        \/ \E t \in Thread : \/ \E op \in Ops, d \in Desc : Start(t, op, d) \/ Close(t, op, d)
                             \/ Fails(t) \/ Transfer(t) \/ Blocks(t) \/ Wait(t) \/ DoBlock(t)
                             \/ \E s \in Socket : Client(t, s)
                             \/ \E s \in Listener : Server(t, s)
                             \/ Interrupt(t)
        \/ \E d \in Desc : NewFromFD(d) \/ Peer(d)

(***************************************************************************)
(* A primitive that was begun is carried on.  Scheduler::Run calls Poll    *)
(* after every slice and Block when no thread can run, so that Select is   *)
(* executed again and again, whatever the threads do in between.           *)
(***************************************************************************)
Fairness == /\ SF_vars(Select)
            /\ \A t \in Thread :
                 WF_vars(Fails(t) \/ Transfer(t) \/ Blocks(t) \/ Wait(t) \/ DoBlock(t))

Spec == Init /\ [][Next]_vars /\ Fairness

-----------------------------------------------------------------------------
(* Properties *)

TypeOK == /\ type \in [Desc -> {"NEW", "FD", "CLOSED", "LEAKED"}]
          /\ fd \in [Desc -> Fd \cup {0}]
          /\ file \in [Fd -> Desc \cup {NoDesc}]
          /\ ready \in [Desc -> SUBSET {"r", "w"}]
          /\ DOMAIN sets = SetName
          /\ \A k \in SetName : Entries(k) \subseteq Entry
          /\ pending \subseteq Future
          /\ current \in Thread \cup {NoThread}
          /\ pc \in [Thread -> {"idle", "call", "wait", "blocked"}]
          /\ \A t \in Thread : call[t].op \in Ops \cup {"none"} /\ call[t].d \in Desc \cup {NoDesc}
          /\ blockedOn \in [Thread -> Future \cup {NoFuture}]
          /\ \A t \in Thread : /\ blockedOn[t] # NoFuture <=> pc[t] = "blocked"
                               /\ current = t => pc[t] \in {"call", "wait"}
          /\ misled \subseteq Desc
          /\ failed \in {"no", "select", "REQUEST"}

(***************************************************************************)
(* A thread that waits for I/O waits for the future of an entry with the   *)
(* number and the direction it needs, and the number of an IODesc stands   *)
(* for that IODesc: however threads share entries, close descriptors and   *)
(* are interrupted, nobody waits for something that will not be reported   *)
(* (Set::Add, Remove, Schedule).                                           *)
(***************************************************************************)
WaitersRegistered ==
  \A t \in Thread : pc[t] = "blocked" =>
     \E k \in SetName : \E e \in Entries(k) :
        /\ e.future = blockedOn[t]
        /\ call[t] # Lost => k = SetOf(call[t]) /\ e.fd = fd[call[t].d]
        /\ call[t].d \in IODesc => file[e.fd] = call[t].d

(***************************************************************************)
(* Every number in a set stands for something and has one entry there, and *)
(* the futures of all entries are unbound and different: select does not   *)
(* fail with EBADF, which ends the virtual machine, and the assertion of   *)
(* Entry::GetFuture holds.                                                 *)
(***************************************************************************)
EntriesLive ==
  /\ failed # "select"
  /\ \A k \in SetName : \A i \in 1..Len(sets[k]) :
       /\ file[sets[k][i].fd] # NoDesc
       /\ sets[k][i].future \in pending
       /\ \A l \in SetName : \A j \in 1..Len(sets[l]) :
            <<k, i>> # <<l, j>> => /\ sets[k][i].future # sets[l][j].future
                                   /\ k = l => sets[k][i].fd # sets[l][j].fd

(***************************************************************************)
(* Data that is read or written through an IODesc goes to the descriptor   *)
(* it was made for, also when the IODesc is closed while a thread waits    *)
(* and its number is in use again when the thread retries.                 *)
(***************************************************************************)
RightStream == misled \cap IODesc = {}

(***************************************************************************)
(* A call of select serves every descriptor that it reports: none is       *)
(* skipped because an entry before it was removed from the queue.          *)
(***************************************************************************)
ReadyEntry(k, e) == (IF k = "Readable" THEN "r" ELSE "w") \in ready[file[e.fd]]
SelectServesAll ==
  [][file' = file /\ (\E k \in SetName : Len(sets'[k]) < Len(sets[k]))
     => \A k \in SetName : \A i \in 1..Len(sets'[k]) : ~ReadyEntry(k, sets'[k][i])]_vars

(***************************************************************************)
(* No thread waits for ever for a descriptor that is ready: what becomes   *)
(* ready between the two system calls of a primitive, or while other       *)
(* threads use the same descriptor, is not missed.                         *)
(***************************************************************************)
NoLostWakeup ==
  \A t \in Thread :
     []<>~(/\ failed = "no"
            /\ pc[t] = "blocked" /\ call[t] # Lost
            /\ Dir(call[t]) \in ready[call[t].d])
=============================================================================
