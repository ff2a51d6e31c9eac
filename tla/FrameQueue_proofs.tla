--------------------------- MODULE FrameQueue_proofs ---------------------------
(* The receive queue, for every capacity from 2 to the largest uint16_t and every set of frames. *)
EXTENDS FrameQueue, SequenceTheorems, TLAPS

(* Wherever the task is past its test of length, a frame is there to drop. *)
SomethingToDrop == pc \in {"copy", "load"} => length >= 1

(* What the task holds in its register, and while no window has been hit that
   it is still what the memory says.                                          *)
RegisterFresh ==
  /\ pc = "store" => reg >= 1
  /\ pc = "ptr_store" => reg \in Slots
  /\ ~torn => /\ pc = "store" => reg = length
              /\ pc = "ptr_store" => reg = pointer_index

IInv == TypeOK /\ SomethingToDrop /\ RegisterFresh /\ RingExactUnlessTorn

LEMMA WrapInSlots ==
  ASSUME NEW i \in Slots
  PROVE  Wrap(i + 1) \in Slots
BY QueueAssumption DEF Slots, Wrap

LEMMA NextHeaderInSlots == TypeOK => NextHeader \in Slots
BY QueueAssumption DEF TypeOK, NextHeader, Slots

(* The slot after the newest one moves on by one, round the ring. *)
LEMMA NextHeaderAdvances ==
  ASSUME TypeOK, header_index' = NextHeader
  PROVE  NextHeader' = Wrap(NextHeader + 1)
BY QueueAssumption DEF TypeOK, NextHeader, Slots, Wrap

LEMMA InitIInv == Init => IInv
<1> SUFFICES ASSUME Init PROVE IInv
  OBVIOUS
<1> USE QueueAssumption DEF Init
<1>1. TypeOK
  <2>1. /\ length \in 0 .. QueueSize
        /\ header_index \in Slots \cup {MaxU16}
        /\ pointer_index \in Slots
        /\ reg \in 0 .. QueueSize
        /\ rx \in 0 .. MaxRx
    BY DEF Slots
  <2>2. /\ buffer \in [Slots -> Frames \cup {NoFrame}]
        /\ pc \in {"idle", "copy", "load", "store", "ptr_load", "ptr_store", "decode"}
        /\ purge \in BOOLEAN
        /\ frame \in Frames \cup {NoFrame}
        /\ torn \in BOOLEAN
    OBVIOUS
  <2>3. QED
    BY <2>1, <2>2 DEF TypeOK
<1>2. SomethingToDrop /\ RegisterFresh
  BY DEF SomethingToDrop, RegisterFresh
<1>3. RingExactUnlessTorn
  BY DEF RingExactUnlessTorn, RingConsistent, NextHeader, Wrap
<1>4. QED
  BY <1>1, <1>2, <1>3 DEF IInv

LEMMA AddFullKeepsIInv ==
  ASSUME IInv, NEW f \in Frames, UartRXCallback(f), AddFull
  PROVE  IInv'
<1> USE QueueAssumption DEF UartRXCallback, AddFull, IInv, taskVars, Full
<1>1. TypeOK'
  BY WrapInSlots DEF TypeOK, Slots
<1>2. SomethingToDrop'
  BY DEF TypeOK, SomethingToDrop
<1>3. RegisterFresh'
  BY DEF TypeOK, RegisterFresh, Unprotected, Slots
<1>4. RingExactUnlessTorn'
  <2>1. NextHeader' = NextHeader
    BY DEF NextHeader
  <2>2. QED
    BY <2>1 DEF TypeOK, RingExactUnlessTorn, RingConsistent, Wrap, Slots
<1>5. QED
  BY <1>1, <1>2, <1>3, <1>4

LEMMA AddRoomKeepsIInv ==
  ASSUME IInv, NEW f \in Frames, UartRXCallback(f), AddRoom(f)
  PROVE  IInv'
<1> USE QueueAssumption DEF UartRXCallback, AddRoom, IInv, taskVars, Full
<1>1. TypeOK'
  BY NextHeaderInSlots DEF TypeOK, Slots
<1>2. SomethingToDrop'
  BY DEF TypeOK, SomethingToDrop
<1>3. RegisterFresh'
  BY DEF TypeOK, RegisterFresh, Unprotected, Slots
<1>4. RingExactUnlessTorn'
  <2>1. NextHeader' = Wrap(NextHeader + 1)
    BY NextHeaderAdvances
  <2>2. NextHeader \in Slots
    BY NextHeaderInSlots
  <2>3. QED
    BY <2>1, <2>2 DEF TypeOK, RingExactUnlessTorn, RingConsistent, Wrap, Slots
<1>5. QED
  BY <1>1, <1>2, <1>3, <1>4

(* The steps that leave the ring alone. *)
LEMMA QuietStepsKeepIInv ==
  ASSUME IInv, Begin \/ Copy \/ LoadLength \/ LoadPointer \/ DecodeGood \/ DecodeBad
  PROVE  IInv'
<1> USE QueueAssumption DEF IInv, Go, queueVars
<1>1. CASE Begin
  BY <1>1 DEF Begin, TypeOK, SomethingToDrop, RegisterFresh, RingExactUnlessTorn,
       RingConsistent, NextHeader
<1>2. CASE Copy
  BY <1>2 DEF Copy, TypeOK, SomethingToDrop, RegisterFresh, RingExactUnlessTorn,
       RingConsistent, NextHeader
<1>3. CASE LoadLength
  BY <1>3 DEF LoadLength, TypeOK, SomethingToDrop, RegisterFresh, RingExactUnlessTorn,
       RingConsistent, NextHeader
<1>4. CASE LoadPointer
  BY <1>4 DEF LoadPointer, TypeOK, SomethingToDrop, RegisterFresh, RingExactUnlessTorn,
       RingConsistent, NextHeader, Slots
<1>5. CASE DecodeGood
  BY <1>5 DEF DecodeGood, TypeOK, SomethingToDrop, RegisterFresh, RingExactUnlessTorn,
       RingConsistent, NextHeader
<1>6. CASE DecodeBad
  BY <1>6 DEF DecodeBad, TypeOK, SomethingToDrop, RegisterFresh, RingExactUnlessTorn,
       RingConsistent, NextHeader
<1>7. QED
  BY <1>1, <1>2, <1>3, <1>4, <1>5, <1>6

LEMMA StoreLengthKeepsIInv ==
  ASSUME IInv, StoreLength
  PROVE  IInv'
<1> USE QueueAssumption DEF IInv, StoreLength, Go
<1>1. TypeOK' /\ SomethingToDrop' /\ RegisterFresh'
  BY DEF TypeOK, SomethingToDrop, RegisterFresh
<1>2. RingExactUnlessTorn'
  <2>1. NextHeader' = NextHeader
    BY DEF NextHeader
  <2>2. QED
    BY <2>1 DEF TypeOK, RegisterFresh, RingExactUnlessTorn, RingConsistent, Wrap, Slots
<1>3. QED
  BY <1>1, <1>2

LEMMA StorePointerKeepsIInv ==
  ASSUME IInv, StorePointer
  PROVE  IInv'
<1> USE QueueAssumption DEF IInv, StorePointer
<1>1. TypeOK'
  <2>1. reg \in Slots
    BY DEF RegisterFresh
  <2>2. Wrap(reg + 1) \in Slots
    BY <2>1, WrapInSlots
  <2>3. /\ frame' \in Frames \cup {NoFrame}
        /\ pc' \in {"idle", "copy", "load", "store", "ptr_load", "ptr_store", "decode"}
        /\ purge' \in BOOLEAN
    BY DEF TypeOK
  <2>4. reg' \in 0 .. QueueSize
    OBVIOUS
  <2>5. QED
    BY <2>2, <2>3, <2>4 DEF TypeOK
<1>2. SomethingToDrop' /\ RegisterFresh'
  BY DEF TypeOK, SomethingToDrop, RegisterFresh
<1>3. RingExactUnlessTorn'
  <2>1. NextHeader' = NextHeader
    BY DEF NextHeader
  <2>2. QED
    BY <2>1 DEF TypeOK, RegisterFresh, RingExactUnlessTorn, RingConsistent
<1>4. QED
  BY <1>1, <1>2, <1>3

LEMMA NextKeepsIInv == IInv /\ [Next]_vars => IInv'
<1> SUFFICES ASSUME IInv, [Next]_vars PROVE IInv'
  OBVIOUS
<1>1. ASSUME NEW f \in Frames, UartRXCallback(f) PROVE IInv'
  BY <1>1, AddFullKeepsIInv, AddRoomKeepsIInv DEF UartRXCallback
<1>2. CASE CommTask
  BY <1>2, QuietStepsKeepIInv, StoreLengthKeepsIInv, StorePointerKeepsIInv DEF CommTask
<1>3. CASE UNCHANGED vars
  BY <1>3 DEF vars, IInv, TypeOK, SomethingToDrop, RegisterFresh, RingExactUnlessTorn,
       RingConsistent, NextHeader, Slots, Wrap
<1>4. QED
  BY <1>1, <1>2, <1>3 DEF Next

(* The inductive invariant: no interleaving breaks it. *)
THEOREM QueueInvariant == Spec => []IInv
<1>1. Init => IInv
  BY InitIInv
<1>2. IInv /\ [Next]_vars => IInv'
  BY NextKeepsIInv
<1>3. QED
  BY <1>1, <1>2, PTL DEF Spec

(* No interleaving of the interrupt with the task's unprotected increments and
   decrements takes length or an index out of its range.                       *)
THEOREM QueueTypeCorrect == Spec => []TypeOK
<1>1. IInv => TypeOK
  BY DEF IInv
<1>2. QED
  BY <1>1, QueueInvariant, PTL

(* Until an interrupt lands in one of the three windows, the count and the two
   indices agree at every step.                                                *)
THEOREM QueueRingExact == Spec => []RingExactUnlessTorn
<1>1. IInv => RingExactUnlessTorn
  BY DEF IInv
<1>2. QED
  BY <1>1, QueueInvariant, PTL

--------------------------------------------------------------------------------
(* FrameQueue implements FrameFifo.  The frames that wait are n slots of the ring, from
   one on; what the actions do to them is what they do to a sequence.                   *)

Window(b, from, n) == [i \in 1 .. n |-> b[(from + i - 1) % QueueSize]]

LEMMA ModIsWrap ==
  ASSUME NEW x \in 0 .. 2 * QueueSize - 1
  PROVE  x % QueueSize = Wrap(x)
BY QueueAssumption DEF Wrap

(* w holds, in order, the n slots of b from `from' on. *)
Shows(w, S, b, from, n) ==
  /\ w \in Seq(S) /\ Len(w) = n
  /\ \A i \in 1 .. n : Wrap(from + i - 1) \in Slots /\ w[i] = b[Wrap(from + i - 1)]

LEMMA WindowShows ==
  ASSUME NEW S, NEW b \in [Slots -> S], NEW from \in 0 .. QueueSize, NEW n \in 0 .. QueueSize
  PROVE  Shows(Window(b, from, n), S, b, from, n)
<1>1. \A i \in 1 .. n : /\ from + i - 1 \in 0 .. 2 * QueueSize - 1
                       /\ Wrap(from + i - 1) \in Slots
  BY QueueAssumption DEF Wrap, Slots
<1>2. \A i \in 1 .. n : (from + i - 1) % QueueSize = Wrap(from + i - 1)
  BY <1>1, ModIsWrap
<1>3. Window(b, from, n) \in [1 .. n -> S]
  BY <1>1, <1>2 DEF Window
<1>4. n \in Nat
  BY QueueAssumption
<1>5. Window(b, from, n) \in Seq(S) /\ Len(Window(b, from, n)) = n
  BY <1>3, <1>4
<1>6. \A i \in 1 .. n : Window(b, from, n)[i] = b[Wrap(from + i - 1)]
  BY <1>2 DEF Window
<1> QED
  BY <1>1, <1>5, <1>6 DEF Shows

(* The same slots, counted from their index or from one ring on. *)
LEMMA WindowWraps ==
  ASSUME NEW b, NEW p \in Slots, NEW n \in 0 .. QueueSize
  PROVE  Window(b, Wrap(p + 1), n) = Window(b, p + 1, n)
<1>1. \A i \in 1 .. n : /\ Wrap(p + 1) + i - 1 \in 0 .. 2 * QueueSize - 1
                       /\ p + 1 + i - 1 \in 0 .. 2 * QueueSize - 1
                       /\ Wrap(Wrap(p + 1) + i - 1) = Wrap(p + 1 + i - 1)
  BY QueueAssumption DEF Wrap, Slots
<1>2. \A i \in 1 .. n : (Wrap(p + 1) + i - 1) % QueueSize = (p + 1 + i - 1) % QueueSize
  BY <1>1, ModIsWrap
<1> QED
  BY <1>2 DEF Window

LEMMA WindowTail ==
  ASSUME NEW S, NEW b \in [Slots -> S], NEW from \in Slots, NEW n \in 1 .. QueueSize
  PROVE  /\ Window(b, from, n) # <<>>
         /\ Head(Window(b, from, n)) = b[from]
         /\ Tail(Window(b, from, n)) = Window(b, from + 1, n - 1)
<1> DEFINE w == Window(b, from, n)
           v == Window(b, from + 1, n - 1)
<1>0. /\ from \in 0 .. QueueSize /\ n \in 0 .. QueueSize
      /\ from + 1 \in 0 .. QueueSize /\ n - 1 \in 0 .. QueueSize
  BY QueueAssumption DEF Slots
<1>a. Shows(w, S, b, from, n) /\ Shows(v, S, b, from + 1, n - 1)
  BY <1>0, WindowShows
<1> HIDE DEF w, v
<1>1. w \in Seq(S) /\ Len(w) = n /\ \A i \in 1 .. n : w[i] = b[Wrap(from + i - 1)]
  BY <1>a DEF Shows
<1>2. /\ v \in Seq(S) /\ Len(v) = n - 1
      /\ \A i \in 1 .. n - 1 : v[i] = b[Wrap((from + 1) + i - 1)]
  BY <1>a DEF Shows
<1>3. w # <<>> /\ Head(w) = w[1]
  BY <1>1
<1>4. w[1] = b[from]
  BY <1>1, QueueAssumption DEF Wrap, Slots
<1>5. Tail(w) \in Seq(S) /\ Len(Tail(w)) = n - 1 /\ \A i \in 1 .. n - 1 : Tail(w)[i] = w[i + 1]
  BY <1>1, <1>3, HeadTailProperties
<1>6. \A i \in 1 .. n - 1 : Tail(w)[i] = v[i]
  <2> TAKE i \in 1 .. n - 1
  <2>1. i + 1 \in 1 .. n /\ from + (i + 1) - 1 = (from + 1) + i - 1
    BY <1>0 DEF Slots
  <2> QED
    BY <1>1, <1>2, <1>5, <2>1
<1>7. Tail(w) = v
  BY <1>2, <1>5, <1>6, SeqEqual
<1> QED
  BY <1>3, <1>4, <1>7 DEF w, v

LEMMA WindowAppend ==
  ASSUME NEW S, NEW b \in [Slots -> S], NEW from \in 0 .. QueueSize, NEW n \in 0 .. QueueSize - 1,
         NEW f \in S
  PROVE  Window([b EXCEPT ![Wrap(from + n)] = f], from, n + 1) = Append(Window(b, from, n), f)
<1> DEFINE c == [b EXCEPT ![Wrap(from + n)] = f]
           w == Window(b, from, n)
           v == Window(c, from, n + 1)
<1>0. n \in 0 .. QueueSize /\ n + 1 \in 0 .. QueueSize /\ Wrap(from + n) \in Slots /\ n \in Nat
  BY QueueAssumption DEF Wrap, Slots
<1>1. c \in [Slots -> S] /\ \A s \in Slots : c[s] = IF s = Wrap(from + n) THEN f ELSE b[s]
  BY <1>0
<1> HIDE DEF c
<1>a. Shows(w, S, b, from, n) /\ Shows(v, S, c, from, n + 1)
  BY <1>0, <1>1, WindowShows
<1> HIDE DEF w, v
<1>2. /\ w \in Seq(S) /\ Len(w) = n
      /\ \A i \in 1 .. n : Wrap(from + i - 1) \in Slots /\ w[i] = b[Wrap(from + i - 1)]
  BY <1>a DEF Shows
<1>3. /\ v \in Seq(S) /\ Len(v) = n + 1
      /\ \A i \in 1 .. n + 1 : v[i] = c[Wrap(from + i - 1)]
  BY <1>a DEF Shows
<1>4. \A i \in 1 .. n : Wrap(from + i - 1) # Wrap(from + n)
  BY QueueAssumption DEF Wrap
<1>5. /\ Append(w, f) \in Seq(S) /\ Len(Append(w, f)) = n + 1
      /\ \A i \in 1 .. n : Append(w, f)[i] = w[i]
      /\ Append(w, f)[n + 1] = f
  BY <1>2, AppendProperties
<1>6. \A i \in 1 .. n : v[i] = w[i]
  <2> TAKE i \in 1 .. n
  <2>1. i \in 1 .. n + 1
    BY <1>0
  <2> QED
    BY <2>1, <1>1, <1>2, <1>3, <1>4
<1>7. v[n + 1] = f
  <2>1. from + (n + 1) - 1 = from + n /\ n + 1 \in 1 .. n + 1
    BY <1>0
  <2> QED
    BY <1>0, <1>1, <1>3, <2>1
<1>8. \A i \in 1 .. n + 1 : v[i] = Append(w, f)[i]
  BY <1>0, <1>5, <1>6, <1>7
<1>9. v = Append(w, f)
  BY <1>3, <1>5, <1>8, SeqEqual
<1> QED
  BY <1>9 DEF c, w, v

(* Where the frames that wait begin, how many they are, and what the task works on. *)
Oldest == IF HandedOver \/ pc \in {"ptr_load", "ptr_store"}
          THEN pointer_index + 1 ELSE pointer_index
Count  == IF HandedOver THEN length - 1 ELSE length
Taken  == IF purge /\ pc \in {"ptr_load", "ptr_store"} THEN NoFrame ELSE frame

(* What the task holds at each place of its turn; that it is a frame at all is
   known only while the ring is exact.                                         *)
HeldPlaces ==
  /\ purge => pc \in {"load", "store", "ptr_load", "ptr_store"}
  /\ pc \in {"idle", "copy"} => frame = NoFrame

HeldFrames ==
  /\ pc \notin {"idle", "copy"} => frame \in Frames
  /\ purge => frame \in Malformed
  /\ Pending \in Seq(Frames)

HInv == IInv /\ HeldPlaces /\ (~torn => HeldFrames)

LEMMA PendingIsWindow ==
  /\ Pending = Window(buffer, Oldest, Count)
  /\ Pending' = Window(buffer', Oldest', Count')
BY DEF Pending, Window, Oldest, Count

LEMMA PendingRanges ==
  ASSUME IInv, ~torn
  PROVE  /\ Oldest \in 0 .. QueueSize
         /\ Count \in 0 .. QueueSize
         /\ Len(Pending) = Count
<1>1. Oldest \in 0 .. QueueSize /\ Count \in 0 .. QueueSize
  BY QueueAssumption
  DEF IInv, TypeOK, SomethingToDrop, RegisterFresh, Oldest, Count, HandedOver, Slots
<1>2. buffer \in [Slots -> Frames \cup {NoFrame}]
  BY DEF IInv, TypeOK
<1>3. Shows(Window(buffer, Oldest, Count), Frames \cup {NoFrame}, buffer, Oldest, Count)
  BY <1>1, <1>2, WindowShows
<1>4. QED
  BY <1>1, <1>3, PendingIsWindow DEF Shows

(* The frames from the pointer on, less the first: what Drop and the overflow do. *)
LEMMA PendingTail ==
  ASSUME IInv, NEW p \in Slots, NEW n \in 1 .. QueueSize
  PROVE  /\ Window(buffer, p, n) # <<>>
         /\ Head(Window(buffer, p, n)) = buffer[p]
         /\ Tail(Window(buffer, p, n)) = Window(buffer, p + 1, n - 1)
BY WindowTail DEF IInv, TypeOK

(* A step of the queue with no window hit: what it does to the frames that wait
   and to the one taken is a step of the promise, or nothing.                   *)
LEMMA StepOfPromise ==
  ASSUME IInv, IInv', ~torn, ~torn',
         \/ Taken' = Taken /\ Pending' = Pending
         \/ \E f \in Frames :
              /\ Taken' = Taken
              /\ Pending' = IF Len(Pending) < QueueSize THEN Append(Pending, f) ELSE Tail(Pending)
         \/ /\ Taken = NoFrame /\ Pending # <<>>
            /\ Taken' = Head(Pending) /\ Pending' = Tail(Pending)
         \/ /\ Taken \in Frames \ Malformed
            /\ Taken' = NoFrame /\ Pending' = Pending
         \/ /\ Taken \in Malformed
            /\ Taken' = NoFrame
            /\ Pending' = IF Pending = <<>> THEN Pending ELSE Tail(Pending)
  PROVE  [Fifo!Next]_(Fifo!absVars)
<1>1. torn' = torn
  <2>1. torn \in BOOLEAN /\ torn' \in BOOLEAN
    BY DEF IInv, TypeOK
  <2>2. QED
    BY <2>1
<1>2. QED
  BY <1>1
  DEF Taken, Fifo!Next, Fifo!Arrive, Fifo!Take, Fifo!Finish, Fifo!Discard, Fifo!absVars

LEMMA TearOfPromise ==
  ASSUME torn'
  PROVE  [Fifo!Next]_(Fifo!absVars)
BY DEF Fifo!Next, Fifo!Tear

LEMMA InitHInv == Init => HInv /\ Fifo!Init
<1> SUFFICES ASSUME Init PROVE HInv /\ Fifo!Init
  OBVIOUS
<1>1. IInv
  BY InitIInv
<1>2. HeldPlaces
  BY DEF Init, HeldPlaces
<1>3. Pending = <<>>
  BY DEF Init, Pending, HandedOver
<1>4. HeldFrames
  BY <1>3 DEF Init, HeldFrames
<1>5. QED
  BY <1>1, <1>2, <1>3, <1>4 DEF Init, HInv, Fifo!Init

LEMMA NextKeepsPlaces ==
  ASSUME TypeOK, HeldPlaces, [Next]_vars
  PROVE  HeldPlaces'
<1> USE DEF HeldPlaces
<1>1. ASSUME NEW f \in Frames, UartRXCallback(f) PROVE HeldPlaces'
  BY <1>1 DEF UartRXCallback, taskVars
<1>2. CASE Begin \/ Copy \/ LoadLength \/ StoreLength \/ LoadPointer
  BY <1>2 DEF Begin, Copy, LoadLength, StoreLength, LoadPointer, Go, queueVars
<1>3. CASE StorePointer
  BY <1>3 DEF StorePointer
<1>4. CASE DecodeGood
  BY <1>4 DEF DecodeGood, Go, queueVars
<1>5. CASE DecodeBad
  <2>1. CASE length = 0
    BY <1>5, <2>1 DEF DecodeBad
  <2>2. CASE length # 0
    BY <1>5, <2>2 DEF DecodeBad
  <2>3. QED
    BY <2>1, <2>2
<1>6. CASE UNCHANGED vars
  BY <1>6 DEF vars
<1>7. QED
  BY <1>1, <1>2, <1>3, <1>4, <1>5, <1>6 DEF Next, CommTask

(* A frame that finds room goes to the slot behind the newest one. *)
LEMMA AddRoomArrives ==
  ASSUME HInv, IInv', ~torn, ~torn', NEW f \in Frames, UartRXCallback(f), AddRoom(f)
  PROVE  HeldFrames' /\ [Fifo!Next]_(Fifo!absVars)
<1> USE DEF HInv, UartRXCallback, AddRoom, taskVars, Full
<1>1. Oldest \in 0 .. QueueSize /\ Count \in 0 .. QueueSize - 1 /\ Len(Pending) = Count
  <2>1. Oldest \in 0 .. QueueSize /\ Count \in 0 .. QueueSize /\ Len(Pending) = Count
    BY PendingRanges
  <2>2. Count < QueueSize
    BY QueueAssumption DEF Count, IInv, TypeOK
  <2>3. QED
    BY <2>1, <2>2, QueueAssumption
<1>2. NextHeader = Wrap(Oldest + Count)
  <2>1. RingConsistent /\ pointer_index \in Slots /\ length \in 0 .. QueueSize /\ length < QueueSize
    BY QueueAssumption DEF IInv, TypeOK, RingExactUnlessTorn
  <2>2. CASE HandedOver
    BY <2>1, <2>2, QueueAssumption DEF RingConsistent, Oldest, Count, HandedOver, Slots
  <2>3. CASE pc \in {"ptr_load", "ptr_store"}
    BY <2>1, <2>3, QueueAssumption DEF RingConsistent, Oldest, Count, HandedOver, Slots, Wrap
  <2>4. CASE ~HandedOver /\ pc \notin {"ptr_load", "ptr_store"}
    BY <2>1, <2>4, QueueAssumption DEF RingConsistent, Oldest, Count, Slots
  <2>5. QED
    BY <2>2, <2>3, <2>4
<1>3. /\ Oldest' = Oldest /\ Count' = Count + 1 /\ Taken' = Taken
      /\ buffer' = [buffer EXCEPT ![Wrap(Oldest + Count)] = f]
  BY <1>2, QueueAssumption DEF Oldest, Count, Taken, HandedOver, IInv, TypeOK
<1>4. Pending' = Append(Pending, f)
  <2>1. Pending' = Window(buffer', Oldest', Count')
    BY PendingIsWindow
  <2>2. buffer \in [Slots -> Frames \cup {NoFrame}] /\ f \in Frames \cup {NoFrame}
    BY DEF IInv, TypeOK
  <2>3. Window([buffer EXCEPT ![Wrap(Oldest + Count)] = f], Oldest, Count + 1)
          = Append(Window(buffer, Oldest, Count), f)
    <3> DEFINE from == Oldest
               n    == Count
               S    == Frames \cup {NoFrame}
    <3>1. from \in 0 .. QueueSize /\ n \in 0 .. QueueSize - 1 /\ f \in S /\ buffer \in [Slots -> S]
      BY <1>1, <2>2
    <3> HIDE DEF from, n, S
    <3>2. Window([buffer EXCEPT ![Wrap(from + n)] = f], from, n + 1)
            = Append(Window(buffer, from, n), f)
      BY <3>1, WindowAppend, ZenonT(30)
    <3>3. QED
      BY <3>2 DEF from, n
  <2>4. QED
    BY <1>3, <2>1, <2>3, PendingIsWindow
<1>5. HeldFrames'
  BY <1>4 DEF HeldFrames
<1>6. Len(Pending) < QueueSize
  BY <1>1, QueueAssumption
<1>7. QED
  BY <1>3, <1>4, <1>5, <1>6, StepOfPromise

(* A frame that finds the queue full is lost, and the oldest one with it. *)
LEMMA AddFullArrives ==
  ASSUME HInv, IInv', ~torn, ~torn', NEW f \in Frames, UartRXCallback(f), AddFull
  PROVE  HeldFrames' /\ [Fifo!Next]_(Fifo!absVars)
<1> USE DEF HInv, UartRXCallback, AddFull, taskVars, Full
<1> DEFINE from == IF pc = "ptr_load" THEN Wrap(pointer_index + 1) ELSE pointer_index
<1>1. /\ length = QueueSize /\ pointer_index \in Slots
      /\ ~HandedOver /\ pc # "ptr_store"
  <2>1. ~Unprotected
    OBVIOUS
  <2>2. length = QueueSize /\ pointer_index \in Slots
    BY QueueAssumption DEF IInv, TypeOK
  <2>3. QED
    BY <2>1, <2>2 DEF Unprotected, HandedOver
<1>2. from \in Slots /\ QueueSize \in 1 .. QueueSize
  BY <1>1, WrapInSlots, QueueAssumption
<1>3. Pending = Window(buffer, from, QueueSize)
  <2>1. Count = QueueSize
    BY <1>1 DEF Count
  <2>2. CASE pc = "ptr_load"
    <3>1. Oldest = pointer_index + 1
      BY <2>2 DEF Oldest
    <3>2. QueueSize \in 0 .. QueueSize
      BY QueueAssumption
    <3>3. QED
      BY <1>1, <2>1, <2>2, <3>1, <3>2, PendingIsWindow, WindowWraps
  <2>3. CASE pc # "ptr_load"
    BY <1>1, <2>1, <2>3, PendingIsWindow DEF Oldest
  <2>4. QED
    BY <2>2, <2>3
<1>4. Pending' = Window(buffer, from + 1, QueueSize - 1)
  <2>0. QueueSize - 1 \in 0 .. QueueSize
    BY QueueAssumption
  <2>1. Pending' = Window(buffer, Oldest', Count') /\ ~HandedOver'
    BY <1>1, PendingIsWindow DEF HandedOver
  <2>2. Count' = QueueSize - 1
    BY <1>1, <2>1 DEF Count
  <2>3. CASE pc = "ptr_load"
    BY <2>1, <2>2, <2>3 DEF Oldest
  <2>4. CASE pc # "ptr_load"
    <3>1. Oldest' = Wrap(pointer_index + 1)
      BY <1>1, <2>1, <2>4 DEF Oldest
    <3>2. QED
      BY <1>1, <2>0, <2>1, <2>2, <2>4, <3>1, WindowWraps
  <2>5. QED
    BY <2>3, <2>4
<1>5. Pending # <<>> /\ Pending' = Tail(Pending)
  <2> HIDE DEF from
  <2>1. QED
    BY <1>2, <1>3, <1>4, PendingTail
<1>6. Taken' = Taken
  BY DEF Taken
<1>7. HeldFrames'
  BY <1>5 DEF HeldFrames
<1>8. ~(Len(Pending) < QueueSize)
  BY <1>1, PendingRanges, QueueAssumption DEF Count
<1>9. QED
  BY <1>5, <1>6, <1>7, <1>8, StepOfPromise

(* Drop hands its frame over at the copy. *)
LEMMA CopyTakes ==
  ASSUME HInv, IInv', ~torn, ~torn', Copy
  PROVE  HeldFrames' /\ [Fifo!Next]_(Fifo!absVars)
<1> USE DEF HInv, Copy, Go, queueVars
<1>1. length \in 1 .. QueueSize /\ pointer_index \in Slots /\ ~purge /\ frame = NoFrame
  BY QueueAssumption DEF IInv, TypeOK, SomethingToDrop, HeldPlaces
<1>2. Pending = Window(buffer, pointer_index, length)
  BY PendingIsWindow DEF Oldest, Count, HandedOver
<1>3. Pending' = Window(buffer, pointer_index + 1, length - 1)
  BY <1>1, PendingIsWindow DEF Oldest, Count, HandedOver
<1>4. Pending # <<>> /\ Head(Pending) = buffer[pointer_index] /\ Pending' = Tail(Pending)
  BY <1>1, <1>2, <1>3, PendingTail
<1>5. Taken = NoFrame /\ Taken' = Head(Pending)
  BY <1>1, <1>4 DEF Taken
<1>6. HeldFrames'
  BY <1>1, <1>4 DEF HeldFrames
<1>7. QED
  BY <1>4, <1>5, <1>6, StepOfPromise

(* The Drop(NULL) of a failed decode discards at its store of length. *)
LEMMA StoreLengthDiscards ==
  ASSUME HInv, IInv', ~torn, ~torn', StoreLength
  PROVE  HeldFrames' /\ [Fifo!Next]_(Fifo!absVars)
<1> USE DEF HInv, StoreLength, Go
<1>1. length \in 1 .. QueueSize /\ pointer_index \in Slots /\ reg = length
  BY QueueAssumption DEF IInv, TypeOK, RegisterFresh
<1>2. Pending' = Window(buffer, pointer_index + 1, length - 1)
  BY <1>1, PendingIsWindow DEF Oldest, Count, HandedOver
<1>3. CASE ~purge
  <2>1. Pending' = Pending
    BY <1>2, <1>3, PendingIsWindow DEF Oldest, Count, HandedOver
  <2>2. Taken' = Taken
    BY <1>3 DEF Taken
  <2>3. HeldFrames'
    BY <2>1 DEF HeldFrames
  <2>4. QED
    BY <2>1, <2>2, <2>3, StepOfPromise
<1>4. CASE purge
  <2>1. Pending = Window(buffer, pointer_index, length)
    BY <1>4, PendingIsWindow DEF Oldest, Count, HandedOver
  <2>2. Pending # <<>> /\ Pending' = Tail(Pending)
    BY <1>1, <1>2, <2>1, PendingTail
  <2>3. Taken \in Malformed /\ Taken' = NoFrame
    BY <1>4 DEF Taken, HeldFrames
  <2>4. HeldFrames'
    BY <2>2 DEF HeldFrames
  <2>5. QED
    BY <2>2, <2>3, <2>4, StepOfPromise
<1>5. QED
  BY <1>3, <1>4

(* The store of the pointer only catches up with the count. *)
LEMMA StorePointerStutters ==
  ASSUME HInv, IInv', ~torn, ~torn', StorePointer
  PROVE  HeldFrames' /\ [Fifo!Next]_(Fifo!absVars)
<1> USE DEF HInv, StorePointer
<1>1. length \in 0 .. QueueSize /\ pointer_index \in Slots /\ reg = pointer_index
  BY QueueAssumption DEF IInv, TypeOK, RegisterFresh
<1>2. Pending = Window(buffer, pointer_index + 1, length)
  BY PendingIsWindow DEF Oldest, Count, HandedOver
<1>3. Pending' = Window(buffer, Wrap(pointer_index + 1), length)
  BY <1>1, PendingIsWindow DEF Oldest, Count, HandedOver
<1>4. Pending' = Pending
  BY <1>1, <1>2, <1>3, WindowWraps
<1>5. Taken' = Taken
  BY DEF Taken
<1>6. HeldFrames'
  BY <1>4 DEF HeldFrames
<1>7. QED
  BY <1>4, <1>5, <1>6, StepOfPromise

(* A good frame is finished with; a bad one takes the next with it, if there is one. *)
LEMMA DecodeFinishes ==
  ASSUME HInv, IInv', ~torn, ~torn', DecodeGood \/ DecodeBad
  PROVE  HeldFrames' /\ [Fifo!Next]_(Fifo!absVars)
<1> USE DEF HInv, Go, queueVars
<1>1. frame \in Frames /\ ~purge /\ pc = "decode" /\ length \in 0 .. QueueSize
  BY DEF IInv, TypeOK, HeldPlaces, HeldFrames, DecodeGood, DecodeBad
<1>2. Pending' = Pending /\ Taken = frame
  <2>1. Pending = Window(buffer, pointer_index, length)
    BY <1>1, PendingIsWindow DEF Oldest, Count, HandedOver
  <2>2. pc' \in {"idle", "load"} /\ (pc' = "load" => purge')
    BY <1>1 DEF DecodeGood, DecodeBad
  <2>3. Pending' = Window(buffer, pointer_index, length)
    BY <2>2, PendingIsWindow DEF Oldest, Count, HandedOver, DecodeGood, DecodeBad
  <2>4. QED
    BY <1>1, <2>1, <2>3 DEF Taken
<1>3. CASE DecodeGood
  <2>1. Taken \in Frames \ Malformed /\ Taken' = NoFrame
    BY <1>1, <1>2, <1>3 DEF DecodeGood, Decodes, Taken
  <2>2. HeldFrames'
    BY <1>1, <1>2, <1>3 DEF DecodeGood, HeldFrames
  <2>3. QED
    BY <1>2, <2>1, <2>2, StepOfPromise
<1>4. CASE DecodeBad
  <2>1. frame \in Malformed
    BY <1>1, <1>4 DEF DecodeBad, Decodes
  <2>2. CASE length = 0
    <3>1. Pending = <<>>
      BY <1>1, <2>2 DEF Pending, HandedOver
    <3>2. Taken' = NoFrame /\ ~purge'
      BY <1>4, <2>2 DEF DecodeBad, Taken
    <3>3. HeldFrames'
      BY <1>2, <1>4, <2>2, <3>2 DEF DecodeBad, HeldFrames
    <3>4. QED
      BY <1>2, <2>1, <3>1, <3>2, <3>3, StepOfPromise
  <2>3. CASE length # 0
    <3>1. Taken' = Taken
      BY <1>1, <1>4, <2>3 DEF DecodeBad, Taken
    <3>2. HeldFrames'
      BY <1>1, <1>2, <1>4, <2>1, <2>3 DEF DecodeBad, HeldFrames
    <3>3. QED
      BY <1>2, <3>1, <3>2, StepOfPromise
  <2>4. QED
    BY <2>2, <2>3
<1>5. QED
  BY <1>3, <1>4

(* The rest of the task's steps leave the frames where they are. *)
LEMMA QuietStepsStutter ==
  ASSUME HInv, IInv', ~torn, ~torn', Begin \/ LoadLength \/ LoadPointer \/ UNCHANGED vars
  PROVE  HeldFrames' /\ [Fifo!Next]_(Fifo!absVars)
<1> USE DEF HInv, Begin, LoadLength, LoadPointer, Go, queueVars, vars
<1>1. /\ buffer' = buffer /\ length' = length /\ pointer_index' = pointer_index
      /\ purge' = purge /\ frame' = frame
  OBVIOUS
<1>2. /\ HandedOver' = HandedOver
      /\ (pc' \in {"ptr_load", "ptr_store"}) = (pc \in {"ptr_load", "ptr_store"})
  BY DEF HandedOver
<1>3. Pending' = Pending /\ Taken' = Taken
  BY <1>1, <1>2 DEF Pending, Taken
<1>4. pc' \notin {"idle", "copy"} => pc \notin {"idle", "copy"}
  OBVIOUS
<1>5. HeldFrames'
  BY <1>1, <1>3, <1>4 DEF HeldFrames
<1>6. QED
  BY <1>3, <1>5, StepOfPromise

LEMMA NextKeepsPromise ==
  ASSUME HInv, [Next]_vars
  PROVE  HInv' /\ [Fifo!Next]_(Fifo!absVars)
<1>1. IInv' /\ HeldPlaces'
  BY NextKeepsIInv, NextKeepsPlaces DEF HInv, IInv
<1>2. CASE torn'
  BY <1>1, <1>2, TearOfPromise DEF HInv
<1>3. CASE ~torn'
  <2>1. ~torn
    BY <1>3 DEF Next, CommTask, UartRXCallback, Begin, Copy, LoadLength, StoreLength,
                LoadPointer, StorePointer, DecodeGood, DecodeBad, vars
  <2>2. HeldFrames' /\ [Fifo!Next]_(Fifo!absVars)
    <3>1. ASSUME NEW f \in Frames, UartRXCallback(f)
          PROVE  HeldFrames' /\ [Fifo!Next]_(Fifo!absVars)
      <4>1. AddFull \/ AddRoom(f)
        BY <3>1 DEF UartRXCallback
      <4>2. QED
        BY <1>1, <1>3, <2>1, <3>1, <4>1, AddFullArrives, AddRoomArrives
    <3>2. CASE Copy
      BY <1>1, <1>3, <2>1, <3>2, CopyTakes
    <3>3. CASE StoreLength
      BY <1>1, <1>3, <2>1, <3>3, StoreLengthDiscards
    <3>4. CASE StorePointer
      BY <1>1, <1>3, <2>1, <3>4, StorePointerStutters
    <3>5. CASE DecodeGood \/ DecodeBad
      BY <1>1, <1>3, <2>1, <3>5, DecodeFinishes
    <3>6. CASE Begin \/ LoadLength \/ LoadPointer \/ UNCHANGED vars
      BY <1>1, <1>3, <2>1, <3>6, QuietStepsStutter
    <3>7. QED
      BY <3>1, <3>2, <3>3, <3>4, <3>5, <3>6 DEF Next, CommTask
  <2>3. QED
    BY <1>1, <2>2 DEF HInv
<1>4. QED
  BY <1>2, <1>3

(* Until an interrupt lands in one of the three windows, the frames come out of
   the ring in the order they came in, each once, and none is lost but by an
   overflow or behind a frame that does not decode.                             *)
THEOREM QueueKeepsPromise == Spec => KeepsFifoPromise
<1>1. Init => HInv /\ Fifo!Init
  BY InitHInv
<1>2. HInv /\ [Next]_vars => HInv' /\ [Fifo!Next]_(Fifo!absVars)
  BY NextKeepsPromise
<1>3. QED
  BY <1>1, <1>2, PTL DEF Spec, KeepsFifoPromise, Fifo!Spec
================================================================================
