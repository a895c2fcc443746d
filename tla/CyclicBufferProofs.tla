------------------------- MODULE CyclicBufferProofs -------------------------
(***************************************************************************)
(* What the two locks of the buffer do guarantee, for any number of        *)
(* writers, readers and slots, with spurious wake-ups or without: a push   *)
(* that did not wait finds room. What goes wrong (run cyclic_buffer) goes  *)
(* wrong after a wait.                                                     *)
(***************************************************************************)
EXTENDS CyclicBuffer, TLAPS

\* The constructor's argument, and threads that are not confused.
Sizes == /\ Size \in Nat \ {0}
         /\ Writer \cap Reader = {}
         /\ None \notin Writer

\* pos_increment is the successor on the ring, and no two positions have the same.
LEMMA Successor ==
  ASSUME Sizes, NEW i \in 0 .. Size
  PROVE  pos_increment(i) = IF i = Size THEN 0 ELSE i + 1
<1>1. Size \in Nat /\ i \in Nat /\ i <= Size
  BY DEF Sizes
<1>2. CASE i = Size
  <2>1. (Size + 1) % (Size + 1) = 0
    BY <1>1, SMT
  <2>. QED BY <1>2, <2>1 DEF pos_increment, capacity
<1>3. CASE i < Size
  <2>1. (i + 1) % (Size + 1) = i + 1
    BY <1>1, <1>3, SMT
  <2>. QED BY <1>3, <2>1 DEF pos_increment, capacity
<1>. QED BY <1>1, <1>2, <1>3

LEMMA SuccessorInjective ==
  ASSUME Sizes, NEW i \in 0 .. Size, NEW j \in 0 .. Size,
         pos_increment(i) = pos_increment(j)
  PROVE  i = j
BY Successor DEF Sizes

\* A writer between its test and the end of its push owns write_lock, so there is
\* one of them at most.
RingInv ==
  /\ read \in 0 .. Size
  /\ write \in 0 .. Size
  /\ pc \in [Writer \cup Reader ->
             {"idle", "wait", "asleep", "woken", "store", "publish", "pop", "copy", "signal"}]
  /\ waited \in [Writer -> BOOLEAN]
  /\ \A w \in Writer : pc[w] \in {"wait", "store", "publish"} => write_lock = w

RoomInv == RingInv /\ RoomKept

LEMMA InitRoom ==
  ASSUME Sizes, Init
  PROVE  RoomInv
BY DEF Sizes, Init, RoomInv, RingInv, RoomKept

LEMMA PushKeepsRoom ==
  ASSUME Sizes, RoomInv, NEW w \in Writer, Push(w)
  PROVE  RoomInv'
<1>. USE DEF Sizes, RoomInv, RingInv, RoomKept, ring, is_full, is_empty
<1>1. CASE LockAndTest(w)
  BY <1>1 DEF LockAndTest
<1>2. CASE Sleep(w)
  BY <1>2 DEF Sleep
<1>3. CASE Resume(w)
  BY <1>3 DEF Resume
<1>4. CASE Spurious(w)
  BY <1>4 DEF Spurious
<1>5. CASE Store(w)
  BY <1>5 DEF Store
<1>6. CASE Publish(w)
  <2>1. write' \in 0 .. Size
    BY <1>6, Successor DEF Publish
  <2>2. \A v \in Writer : pc'[v] # "store"
    BY <1>6 DEF Publish
  <2>. QED BY <1>6, <2>1, <2>2 DEF Publish
<1>. QED BY <1>1, <1>2, <1>3, <1>4, <1>5, <1>6 DEF Push

\* A reader moves read on, away from write: the one step of another thread that
\* a writer's test could be spoilt by.
LEMMA TakeKeepsRoom ==
  ASSUME Sizes, RoomInv, NEW r \in Reader, Take(r)
  PROVE  RoomInv'
<1>1. read \in 0 .. Size /\ write \in 0 .. Size /\ read # write
  BY DEF RoomInv, RingInv, Take, is_empty
<1>2. read' = pos_increment(read) /\ write' = write
  BY DEF Take
<1>3. read' \in 0 .. Size
  BY <1>1, <1>2, Successor DEF Sizes
<1>4. pos_increment(write') # read'
  BY <1>1, <1>2, SuccessorInjective
<1>5. RingInv'
  BY <1>2, <1>3 DEF Take, RoomInv, RingInv, Sizes
<1>6. RoomKept'
  BY <1>4 DEF RoomKept, is_full, pos_increment, capacity
<1>. QED BY <1>5, <1>6 DEF RoomInv

LEMMA PopKeepsRoom ==
  ASSUME Sizes, RoomInv, NEW r \in Reader, Pop(r)
  PROVE  RoomInv'
<1>. USE DEF Sizes, RoomInv, RingInv, RoomKept, ring, is_full
<1>1. CASE Lock(r)
  BY <1>1 DEF Lock
<1>2. CASE FindEmpty(r)
  BY <1>2 DEF FindEmpty
<1>3. CASE Take(r)
  BY <1>3, TakeKeepsRoom
<1>4. CASE Copy(r)
  BY <1>4 DEF Copy
<1>5. CASE SignalAndUnlock(r)
  BY <1>5 DEF SignalAndUnlock
<1>. QED BY <1>1, <1>2, <1>3, <1>4, <1>5 DEF Pop

\* A push that did not have to wait stores into a free slot.
THEOREM RoomKeptHolds ==
  ASSUME Sizes
  PROVE  Spec => []RoomKept
<1>1. Init => RoomInv
  BY InitRoom
<1>2. RoomInv /\ [Next]_vars => RoomInv'
  <2>1. ASSUME RoomInv, Next PROVE RoomInv'
    BY <2>1, PushKeepsRoom, PopKeepsRoom DEF Next
  <2>2. ASSUME RoomInv, UNCHANGED vars PROVE RoomInv'
    BY <2>2 DEF vars, ring, RoomInv, RingInv, RoomKept, is_full, pos_increment, capacity
  <2>. QED BY <2>1, <2>2
<1>3. RoomInv => RoomKept
  BY DEF RoomInv
<1>. QED BY <1>1, <1>2, <1>3, PTL DEF Spec

=============================================================================
