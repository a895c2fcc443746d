---------------------------- MODULE CyclicBuffer ----------------------------
(***************************************************************************)
(* qs::concurrent_cyclic_buffer: a ring of Size + 1 slots, one of them     *)
(* free. Writers exclude each other by write_lock and readers by           *)
(* read_lock; nothing but the ring itself stands between the two.          *)
(*                                                                         *)
(* A step is an access to read or write, or a step of the condition        *)
(* variable. The accesses are not synchronised; they are taken to happen   *)
(* whole and in the order of the program. The field size of the buffer is  *)
(* never read and is left out.                                             *)
(***************************************************************************)
EXTENDS Integers, Sequences

CONSTANTS
  Writer, Reader,     \* threads that push and that pop
  None,
  Size,               \* the argument of the constructor
  SpuriousWakeups     \* whether pthread_cond_wait may return unasked

VARIABLES
  buffer,             \* an element is the name of the writer that pushed it
  read, write,
  write_lock,         \* its owner or None; read_lock is held by a reader
  pc,                 \*   whose pc is not "idle"
  should_signal,
  ret,                \* the slot a reader takes its element from
  waited,             \* history: did the push under way wait
  inside, taken       \* history: what was pushed and not popped, in order;
                      \*   what the pop under way has to return

ring == <<buffer, read, write>>
vars == <<ring, write_lock, pc, should_signal, ret, waited, inside, taken>>

capacity == Size + 1
pos_increment(pos) == (pos + 1) % capacity
is_empty == write = read
is_full == pos_increment(write) = read

Init ==
  /\ buffer = [i \in 0 .. Size |-> None]
  /\ read = 0
  /\ write = 0
  /\ write_lock = None
  /\ pc = [t \in Writer \cup Reader |-> "idle"]
  /\ should_signal = [r \in Reader |-> FALSE]
  /\ ret = [r \in Reader |-> 0]
  /\ waited = [w \in Writer |-> FALSE]
  /\ inside = <<>>
  /\ taken = [r \in Reader |-> None]

----------------------------------------------------------------------------
\* push

LockAndTest(w) ==
  /\ pc[w] = "idle"
  /\ write_lock = None
  /\ write_lock' = w
  /\ pc' = [pc EXCEPT ![w] = IF is_full THEN "wait" ELSE "store"]
  /\ waited' = [waited EXCEPT ![w] = FALSE]
  /\ UNCHANGED <<ring, should_signal, ret, inside, taken>>

\* pthread_cond_wait goes to sleep and lets go of the lock. A signal sent before
\* this step wakes nobody.
Sleep(w) ==
  /\ pc[w] = "wait"
  /\ pc' = [pc EXCEPT ![w] = "asleep"]
  /\ write_lock' = None
  /\ UNCHANGED <<ring, should_signal, ret, waited, inside, taken>>

\* It returns with the lock, and is_full is not asked again.
Resume(w) ==
  /\ pc[w] = "woken"
  /\ write_lock = None
  /\ write_lock' = w
  /\ pc' = [pc EXCEPT ![w] = "store"]
  /\ waited' = [waited EXCEPT ![w] = TRUE]
  /\ UNCHANGED <<ring, should_signal, ret, inside, taken>>

Spurious(w) ==
  /\ SpuriousWakeups
  /\ pc[w] = "asleep"
  /\ pc' = [pc EXCEPT ![w] = "woken"]
  /\ UNCHANGED <<ring, write_lock, should_signal, ret, waited, inside, taken>>

Store(w) ==
  /\ pc[w] = "store"
  /\ buffer' = [buffer EXCEPT ![write] = w]
  /\ pc' = [pc EXCEPT ![w] = "publish"]
  /\ UNCHANGED <<read, write, write_lock, should_signal, ret, waited, inside, taken>>

Publish(w) ==
  /\ pc[w] = "publish"
  /\ write' = pos_increment(write)
  /\ inside' = Append(inside, w)
  /\ write_lock' = None
  /\ pc' = [pc EXCEPT ![w] = "idle"]
  /\ UNCHANGED <<buffer, read, should_signal, ret, waited, taken>>

----------------------------------------------------------------------------
\* pop

Lock(r) ==
  /\ \A other \in Reader : pc[other] = "idle"
  /\ should_signal' = [should_signal EXCEPT ![r] = is_full]
  /\ pc' = [pc EXCEPT ![r] = "pop"]
  /\ UNCHANGED <<ring, write_lock, ret, waited, inside, taken>>

FindEmpty(r) ==
  /\ pc[r] = "pop"
  /\ is_empty
  /\ pc' = [pc EXCEPT ![r] = "signal"]
  /\ UNCHANGED <<ring, write_lock, should_signal, ret, waited, inside, taken>>

\* read moves on before the element has been copied out of its slot.
Take(r) ==
  /\ pc[r] = "pop"
  /\ ~is_empty
  /\ ret' = [ret EXCEPT ![r] = read]
  /\ read' = pos_increment(read)
  /\ taken' = [taken EXCEPT ![r] = IF inside = <<>> THEN None ELSE Head(inside)]
  /\ inside' = IF inside = <<>> THEN <<>> ELSE Tail(inside)
  /\ pc' = [pc EXCEPT ![r] = "copy"]
  /\ UNCHANGED <<buffer, write, write_lock, should_signal, waited>>

Copy(r) ==
  /\ pc[r] = "copy"
  /\ pc' = [pc EXCEPT ![r] = "signal"]
  /\ UNCHANGED <<ring, write_lock, should_signal, ret, waited, inside, taken>>

\* The signal is sent under read_lock, not under the lock the writer waits with.
SignalAndUnlock(r) ==
  /\ pc[r] = "signal"
  /\ LET asleep == {w \in Writer : pc[w] = "asleep"}
     IN  IF should_signal[r] /\ asleep # {}
         THEN \E w \in asleep : pc' = [pc EXCEPT ![w] = "woken", ![r] = "idle"]
         ELSE pc' = [pc EXCEPT ![r] = "idle"]
  /\ UNCHANGED <<ring, write_lock, should_signal, ret, waited, inside, taken>>

Push(w) == LockAndTest(w) \/ Sleep(w) \/ Resume(w) \/ Spurious(w) \/ Store(w) \/ Publish(w)
Pop(r) == Lock(r) \/ FindEmpty(r) \/ Take(r) \/ Copy(r) \/ SignalAndUnlock(r)
Next == (\E w \in Writer : Push(w)) \/ (\E r \in Reader : Pop(r))

Spec == Init /\ [][Next]_vars

----------------------------------------------------------------------------
\* A push stores nothing over an element that is still inside, and a pop returns
\* the one it has to: what was pushed and not yet popped is in the ring in order,
\* and the slot of a pop under way is still as it was.
ElementsKept ==
  /\ Len(inside) <= Size
  /\ \A i \in 1 .. Len(inside) : buffer[(read + i - 1) % capacity] = inside[i]
  /\ \A r \in Reader : pc[r] = "copy" => buffer[ret[r]] = taken[r]

\* A push that did not have to wait finds room when it stores: readers, who hold
\* another lock, only make more of it, and no writer comes in between.
RoomKept ==
  \A w \in Writer : pc[w] = "store" /\ ~waited[w] => ~is_full

=============================================================================
