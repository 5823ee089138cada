---------------------------- MODULE TunnelsProofs ----------------------------
(***************************************************************************)
(* Proofs about Tunnels for any set of tunnels and of closing goroutines.  *)
(* IInv, the inductive invariant, is defined in Tunnels and checked by the *)
(* run tunnels.                                                            *)
(***************************************************************************)
EXTENDS Tunnels, TLAPS

\* Without tunnels there is nothing to keep.
LEMMA InitIInv == Init => IInv
  <1> SUFFICES ASSUME Init PROVE IInv
    OBVIOUS
  <1> USE TunnelsAssumption DEF Init
  <1>1. TypeOK
    BY DEF TypeOK, Holding
  <1>2. LockInOrder /\ ClosingInOrder
    BY DEF LockInOrder, ClosingInOrder, Holding, Registered, BeingClosed
  <1>3. QED
    BY <1>1, <1>2 DEF IInv

\* Open, up to the start of the accept loop.
LEMMA OpenKeepsIInv ==
  ASSUME IInv, NEW t \in Ids, Bind(t) \/ OpenStep(t)
  PROVE  IInv'
  <1> USE TunnelsAssumption
      DEF IInv, TypeOK, LockInOrder, ClosingInOrder, Holding, Registered,
          BeingClosed, tunnels, held, closers
  <1>1. CASE Bind(t)
    BY <1>1 DEF Bind
  <1>2. CASE Register(t)
    BY <1>2 DEF Register
  <1>3. CASE StartLoop(t)
    BY <1>3 DEF StartLoop
  <1>4. QED
    BY <1>1, <1>2, <1>3 DEF OpenStep

\* The accept loop.
LEMMA LoopKeepsIInv ==
  ASSUME IInv, NEW t \in Ids, AcceptFails(t) \/ LoopStep(t)
  PROVE  IInv'
  <1> USE TunnelsAssumption
      DEF IInv, TypeOK, LockInOrder, ClosingInOrder, Holding, Registered,
          BeingClosed, LoopGoes, tunnels, held, closers
  <1>1. CASE AcceptFails(t)
    BY <1>1 DEF AcceptFails
  <1>2. CASE CheckStopped(t)
    BY <1>2 DEF CheckStopped
  <1>3. CASE LoopReturns(t)
    BY <1>3 DEF LoopReturns
  <1>4. QED
    BY <1>1, <1>2, <1>3 DEF LoopStep

\* Close and CloseAll up to the moment they hold tm.mu.
LEMMA LockKeepsIInv ==
  ASSUME IInv, NEW c \in Closers, InvokeClose(c) \/ LockStep(c)
  PROVE  IInv'
  <1> USE TunnelsAssumption
      DEF IInv, TypeOK, LockInOrder, ClosingInOrder, Holding, Registered,
          BeingClosed, Goto, tunnels, held, closers
  <1>1. CASE InvokeClose(c)
    BY <1>1 DEF InvokeClose
  <1>2. CASE LockClose(c)
    BY <1>2 DEF LockClose
  <1>3. CASE LockCloseAll(c)
    BY <1>3 DEF LockCloseAll
  <1>4. QED
    BY <1>1, <1>2, <1>3 DEF LockStep

\* What they do while they hold it.
LEMMA CloseKeepsIInv ==
  ASSUME IInv, NEW c \in Closers, CloseStep(c)
  PROVE  IInv'
  <1> USE TunnelsAssumption
      DEF IInv, TypeOK, LockInOrder, ClosingInOrder, Holding, Registered,
          BeingClosed, Goto, Unlock, tunnels, held, closers
  <1>1. CASE NextTunnel(c)
    BY <1>1 DEF NextTunnel
  <1>2. CASE CloseAllReturns(c)
    BY <1>2 DEF CloseAllReturns
  <1>3. CASE CompareAndSwap(c)
    BY <1>3 DEF CompareAndSwap
  <1>4. CASE CloseStopChan(c)
    BY <1>4 DEF CloseStopChan
  <1>5. CASE CloseListener(c)
    BY <1>5 DEF CloseListener
  <1>6. CASE Delete(c)
    BY <1>6 DEF Delete
  <1>7. QED
    BY <1>1, <1>2, <1>3, <1>4, <1>5, <1>6 DEF CloseStep

\* The invariant is inductive.
LEMMA NextKeepsIInv == IInv /\ [Next]_vars => IInv'
  <1> SUFFICES ASSUME IInv, [Next]_vars PROVE IInv'
    OBVIOUS
  <1>1. CASE Next
    BY <1>1, OpenKeepsIInv, LoopKeepsIInv, LockKeepsIInv, CloseKeepsIInv DEF Next
  <1>2. CASE UNCHANGED vars
    BY <1>2 DEF vars, tunnels, held, closers, IInv, TypeOK, LockInOrder,
        ClosingInOrder, Registered, BeingClosed
  <1>3. QED
    BY <1>1, <1>2

\* IInv is invariant: the strengthening the theorems below follow from.
THEOREM Inductive == Spec => []IInv
  <1>1. QED
    BY InitIInv, NextKeepsIInv, PTL DEF Spec

\* Whenever tm.mu is free, the table lists the tunnels that listen and no other.
THEOREM ListIsTrue == Spec => []ListedIsListening
  <1>1. IInv => ListedIsListening
    <2> SUFFICES ASSUME IInv, tmu = None, NEW t \in Ids, Registered(t)
                 PROVE  IF t \in table
                        THEN listener[t] = "open" /\ ~ closed[t] /\ ~ stopChan[t]
                        ELSE listener[t] = "closed" /\ closed[t] /\ stopChan[t]
      BY DEF ListedIsListening
    <2>1. \A ls : ~ BeingClosed(t, ls)
      BY DEF BeingClosed
    <2>2. /\ closed[t] <=> t \notin table
          /\ stopChan[t] <=> t \notin table
          /\ t \notin table => listener[t] = "closed"
          /\ listener[t] = "closed" => closed[t]
      BY <2>1 DEF IInv, ClosingInOrder
    <2>3. listener[t] \in {"open", "closed"}
      BY DEF IInv, TypeOK, ClosingInOrder, Registered
    <2>4. QED
      BY <2>2, <2>3
  <1>2. QED
    BY <1>1, Inductive, PTL

\* An accept loop ends only when its tunnel is being closed.
THEOREM ServesUntilClosed == Spec => []LoopServesUntilClosed
  <1>1. IInv => LoopServesUntilClosed
    BY DEF IInv, ClosingInOrder, LoopServesUntilClosed
  <1>2. QED
    BY <1>1, Inductive, PTL

-----------------------------------------------------------------------------
(* Tunnels implements TunnelBook. *)

phases == [t \in Ids |-> PhaseOf(t)]

book == <<phases, Clearing>>

\* What changes neither the table nor the lock's holder and its work, nor who
\* is registered, is a stutter.
LEMMA Stutter ==
  ASSUME UNCHANGED <<table, batch, opener, tmu, arg>>
  PROVE  UNCHANGED book
  BY DEF book, phases, PhaseOf, Registered, Clearing

\* No tunnel is open yet.
LEMMA InitBook == Init => Book!Init
  BY TunnelsAssumption DEF Init, Book!Init, PhaseOf, Registered, Clearing

\* While tm.mu is free nobody is clearing.
LEMMA FreeIsNotClearing ==
  ASSUME tmu = None
  PROVE  Clearing = FALSE
  BY TunnelsAssumption DEF Clearing

\* Registering a tunnel is the Open of TunnelBook.
LEMMA RegisterOpens ==
  ASSUME IInv, NEW t \in Ids, Register(t)
  PROVE  Book!Open(t)
  <1>1. Clearing = FALSE /\ Clearing' = FALSE
    BY FreeIsNotClearing, TunnelsAssumption DEF Register, Clearing, closers, held
  <1>2. phases[t] = "new"
    BY DEF Register, phases, PhaseOf, Registered
  <1>3. PhaseOf(t)' = "open"
    BY DEF Register, PhaseOf, Registered, IInv, TypeOK
  <1>4. \A u \in Ids \ {t} : PhaseOf(u)' = PhaseOf(u)
    BY DEF Register, PhaseOf, Registered, IInv, TypeOK, closers, held
  <1>5. phases' = [phases EXCEPT ![t] = "open"]
    BY <1>3, <1>4 DEF phases
  <1>6. QED
    BY <1>1, <1>2, <1>5 DEF Book!Open, phases

\* The other steps of Open and of the accept loop change no phase.
LEMMA OpenStepsBook ==
  ASSUME IInv, NEW t \in Ids, Bind(t) \/ OpenStep(t) \/ AcceptFails(t) \/ LoopStep(t)
  PROVE  [Book!Next]_book
  <1>1. CASE Bind(t)
    <2>1. \A u \in Ids : Registered(u)' = Registered(u)
      BY <1>1 DEF Bind, Registered, IInv, TypeOK
    <2>2. UNCHANGED book
      BY <1>1, <2>1 DEF Bind, book, phases, PhaseOf, Clearing, closers, held
    <2>3. QED
      BY <2>2
  <1>2. CASE Register(t)
    BY <1>2, RegisterOpens DEF Book!Next
  <1>3. CASE StartLoop(t)
    <2>1. \A u \in Ids : Registered(u)' = Registered(u)
      BY <1>3 DEF StartLoop, Registered, IInv, TypeOK
    <2>2. UNCHANGED book
      BY <1>3, <2>1 DEF StartLoop, book, phases, PhaseOf, Clearing, closers, held
    <2>3. QED
      BY <2>2
  <1>4. CASE AcceptFails(t) \/ LoopStep(t)
    BY <1>4, Stutter
       DEF AcceptFails, LoopStep, CheckStopped, LoopReturns, tunnels, closers, held
  <1>5. QED
    BY <1>1, <1>2, <1>3, <1>4 DEF OpenStep

\* Taking tm.mu for a close changes no phase, for CloseAll it begins one.
LEMMA LockStepsBook ==
  ASSUME IInv, NEW c \in Closers, InvokeClose(c) \/ LockStep(c)
  PROVE  [Book!Next]_book
  <1>1. CASE InvokeClose(c)
    <2>1. tmu # c
      BY <1>1 DEF InvokeClose, IInv, LockInOrder, Holding
    <2>2. Clearing' = Clearing
      BY <1>1, <2>1 DEF InvokeClose, Clearing, IInv, TypeOK
    <2>3. UNCHANGED book
      BY <1>1, <2>2 DEF InvokeClose, book, phases, PhaseOf, Registered, tunnels
    <2>4. QED
      BY <2>3
  <1>2. CASE LockClose(c)
    <2>1. batch = {} /\ table \cup batch' = table
      BY <1>2 DEF LockClose, IInv, LockInOrder
    <2>2. Clearing = FALSE /\ Clearing' = FALSE
      BY <1>2, FreeIsNotClearing, TunnelsAssumption DEF LockClose, Clearing
    <2>3. phases' = phases
      BY <1>2, <2>1 DEF LockClose, phases, PhaseOf, Registered, tunnels
    <2>4. QED
      BY <2>2, <2>3 DEF book
  <1>3. CASE LockCloseAll(c)
    <2>1. batch = {} /\ batch' = table
      BY <1>3 DEF LockCloseAll, IInv, LockInOrder
    <2>2. Clearing = FALSE /\ Clearing' = TRUE
      BY <1>3, FreeIsNotClearing DEF LockCloseAll, Clearing
    <2>3. phases' = phases
      BY <1>3, <2>1 DEF LockCloseAll, phases, PhaseOf, Registered, tunnels
    <2>4. QED
      BY <2>2, <2>3 DEF Book!Next, Book!BeginClear, phases
  <1>4. QED
    BY <1>1, <1>2, <1>3 DEF LockStep

\* A closer changes no phase until the step that releases tm.mu.
LEMMA CloseStepsBook ==
  ASSUME IInv, NEW c \in Closers, CloseStep(c)
  PROVE  [Book!Next]_book
  <1>1. CASE NextTunnel(c) \/ CompareAndSwap(c) \/ CloseStopChan(c) \/ CloseListener(c)
    BY <1>1, Stutter
       DEF NextTunnel, CompareAndSwap, CloseStopChan, CloseListener, tunnels, held
  <1>2. CASE CloseAllReturns(c)
    <2>1. tmu = c /\ arg[c] = None
      BY <1>2, TunnelsAssumption DEF CloseAllReturns, IInv, LockInOrder, Holding
    <2>2. table = {} /\ batch' = {} /\ UNCHANGED <<table, opener>>
      BY <1>2, <2>1, TunnelsAssumption
         DEF CloseAllReturns, Unlock, tunnels, IInv, LockInOrder
    <2>3. Clearing = TRUE /\ Clearing' = FALSE
      BY <1>2, <2>1, TunnelsAssumption DEF CloseAllReturns, Unlock, Clearing
    <2>4. \A t \in Ids : PhaseOf(t)' = IF phases[t] = "open" THEN "closed" ELSE phases[t]
      BY <2>2 DEF phases, PhaseOf, Registered
    <2>5. QED
      BY <2>3, <2>4 DEF Book!Next, Book!Clear, phases
  <1>3. CASE Delete(c)
    <2>1. tmu = c /\ cur \in batch \cap table
      BY <1>3, TunnelsAssumption DEF Delete, IInv, LockInOrder, Holding
    <2>2. CASE arg[c] = None
      <3>1. table' \cup batch' = table \cup batch /\ UNCHANGED <<opener, tmu, arg>>
        BY <1>3, <2>1, <2>2 DEF Delete
      <3>2. UNCHANGED book
        BY <3>1 DEF book, phases, PhaseOf, Registered, Clearing
      <3>3. QED
        BY <3>2
    <2>3. CASE arg[c] # None
      <3>1. batch = {cur} /\ batch' = {} /\ table' = table \ {cur} /\ opener' = opener
        BY <1>3, <2>1, <2>3, TunnelsAssumption DEF Delete, Unlock, IInv, LockInOrder
      <3>2. Clearing = FALSE /\ Clearing' = FALSE
        BY <1>3, <2>1, <2>3, TunnelsAssumption DEF Delete, Unlock, Clearing
      <3>3. PICK t \in Ids : t = cur
        BY <2>1 DEF IInv, TypeOK
      <3>4. phases[t] = "open" /\ PhaseOf(t)' = "closed"
        BY <2>1, <3>1, <3>3 DEF phases, PhaseOf, Registered, IInv, ClosingInOrder
      <3>5. \A u \in Ids \ {t} : PhaseOf(u)' = PhaseOf(u)
        BY <3>1, <3>3 DEF PhaseOf, Registered
      <3>6. Book!Close(t)
        BY <3>2, <3>3, <3>4, <3>5 DEF Book!Close, phases
      <3>7. QED
        BY <3>3, <3>6 DEF Book!Next
    <2>4. QED
      BY <2>2, <2>3
  <1>4. QED
    BY <1>1, <1>2, <1>3 DEF CloseStep

\* Open, Close and CloseAll take effect at one moment each, and no tunnel is
\* opened or closed by others while a disconnect closes them all: every step is
\* a step of TunnelBook or leaves the book alone.
THEOREM Implements == Spec => BookSpec
  <1>1. IInv /\ [Next]_vars => [Book!Next]_book
    <2> SUFFICES ASSUME IInv, [Next]_vars PROVE [Book!Next]_book
      OBVIOUS
    <2>1. CASE Next
      BY <2>1, OpenStepsBook, LockStepsBook, CloseStepsBook DEF Next
    <2>2. CASE UNCHANGED vars
      BY <2>2, Stutter DEF vars, tunnels, closers, held
    <2>3. QED
      BY <2>1, <2>2
  <1>2. QED
    BY <1>1, InitBook, Inductive, PTL DEF Spec, BookSpec, Book!Spec, book, phases
=============================================================================
