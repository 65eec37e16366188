-------------------------- MODULE UartReceive_proofs --------------------------
(***************************************************************************)
(* Proofs about UartReceive, for any size of the ring buffer: types, that  *)
(* a single reader is given every byte unless the buffer overflows, and,   *)
(* unless it does so while the reader is at the ring buffer, in order, and *)
(* at least one when it waits for a line.                                  *)
(***************************************************************************)
EXTENDS UartReceive, Integers, TLAPS

(* Remainders of what the ring buffer computes, for its size as a variable *)
(* modulus: below it, from it up to its double, and in general.            *)
LEMMA RemainderBelow == ASSUME NEW x \in Nat, x < BufferSize PROVE x % BufferSize = x
  BY BufferAssumption, SMT

LEMMA RemainderAbove ==
  ASSUME NEW x \in Nat, x >= BufferSize, x < 2 * BufferSize
  PROVE  x % BufferSize = x - BufferSize
  BY BufferAssumption, SMT

(* The slot after a slot, without the remainder.                           *)
LEMMA FollowingSlot ==
  ASSUME NEW i \in Slot
  PROVE  /\ Following(i) \in Slot
         /\ Following(i) = IF i + 1 = BufferSize THEN 0 ELSE i + 1
<1>1. CASE i + 1 < BufferSize
  <2>1. (i + 1) % BufferSize = i + 1
    BY <1>1, RemainderBelow, BufferAssumption DEF Slot
  <2>2. QED
    BY <1>1, <2>1, BufferAssumption DEF Following, Slot
<1>2. CASE i + 1 = BufferSize
  <2>1. (i + 1) % BufferSize = (i + 1) - BufferSize
    BY <1>2, RemainderAbove, BufferAssumption DEF Slot
  <2>2. QED
    BY <1>2, <2>1, BufferAssumption DEF Following, Slot
<1>3. QED
  BY <1>1, <1>2, BufferAssumption DEF Slot

-----------------------------------------------------------------------------
(* A reader that looks for a byte still has room for it.                   *)
HasRoom ==
  \A r \in Reader :
    pc[r] \in Reading => index[r] < want[r]

TypeInv == TypeOK /\ HasRoom

(* The type invariant holds initially.                                     *)
LEMMA InitTypeInv == Init => TypeInv
<1> SUFFICES ASSUME Init PROVE TypeInv
  OBVIOUS
<1>1. 0 \in Slot /\ 0 \in 0..MaxRead /\ 0 \in 0..MaxBytes
  BY BufferAssumption, BoundAssumption DEF Slot
<1>2. NoByte \in Byte
  BY <1>1 DEF NoByte, Byte, Kind
<1>3. settings \in [Reader -> Settings]
  BY SettingsAssumption DEF Init
<1>4. seen \in [Reader -> [head : Slot, tail : Slot]] /\ ch \in [Reader -> Byte]
  BY <1>1, <1>2 DEF Init
<1>5. \A r \in Reader : pc[r] = "idle"
  BY DEF Init
<1>6. want \in [Reader -> 0..MaxRead] /\ index \in [Reader -> 0..MaxRead]
  BY <1>1 DEF Init
<1>7. \A r \in Reader : index[r] =< want[r]
  <2>1. SUFFICES ASSUME NEW r \in Reader PROVE index[r] =< want[r]
    OBVIOUS
  <2>2. index[r] = 0 /\ want[r] = 0
    BY DEF Init
  <2>3. QED
    BY <2>2
<1>8. buffer \in [Slot -> Byte]
  BY <1>2 DEF Init
<1>9. pc \in [Reader -> Place]
  BY DEF Init, Place
<1>10. HasRoom
  BY <1>5 DEF HasRoom, Reading
<1>11. /\ head \in Slot /\ tail \in Slot
       /\ received \in 0..MaxBytes /\ taken \in 0..MaxBytes
       /\ overflowed \in BOOLEAN /\ torn \in BOOLEAN
  BY <1>1 DEF Init
<1>12. TypeOK
  BY <1>3, <1>4, <1>6, <1>7, <1>8, <1>9, <1>11, Zenon DEF TypeOK
<1>13. QED
  BY <1>10, <1>12 DEF TypeInv

(* Reception keeps the type invariant.                                     *)
LEMMA ReceiveTypeInv == TypeInv /\ Receive => TypeInv'
<1> SUFFICES ASSUME TypeInv, Receive PROVE TypeInv'
  OBVIOUS
<1> USE BoundAssumption DEF TypeInv, TypeOK
<1>1. Following(head) \in Slot /\ Following(tail) \in Slot
  BY FollowingSlot
<1>2. received' \in 0..MaxBytes
  BY DEF Receive
<1>3. PICK kind \in Kind : Push([number |-> received + 1, kind |-> kind])
  BY DEF Receive
<1>4. [number |-> received + 1, kind |-> kind] \in Byte
  BY DEF Receive, Byte
<1>5. head' \in Slot /\ tail' \in Slot /\ overflowed' \in BOOLEAN /\ torn' \in BOOLEAN
  BY <1>1, <1>3 DEF Push, AtBuffer
<1>6. buffer' \in [Slot -> Byte]
  BY <1>3, <1>4 DEF Push
<1>7. HasRoom'
  BY DEF Receive, HasRoom
<1>8. QED
  BY <1>2, <1>5, <1>6, <1>7 DEF Receive

(* Every step of a reader keeps the type invariant.                        *)
LEMMA ReaderTypeInv ==
  ASSUME TypeInv, NEW r \in Reader, Configure(r) \/ ReadBegin(r) \/ ReadStep(r)
  PROVE  TypeInv'
<1> USE BoundAssumption DEF TypeInv, TypeOK, ring, At, GoTo
<1>1. CASE Configure(r)
  BY <1>1 DEF Configure, HasRoom
<1>2. CASE ReadBegin(r)
  BY <1>2 DEF ReadBegin, HasRoom, Reading, Place
<1>3. CASE ReadLoop(r)
  <2>1. pc' \in [Reader -> Place]
    BY <1>3 DEF ReadLoop, Place
  <2>2. seen' \in [Reader -> [head : Slot, tail : Slot]]
    BY <1>3 DEF ReadLoop
  <2>3. \A s \in Reader : s # r => pc'[s] = pc[s]
    BY <1>3 DEF ReadLoop
  <2>4. pc'[r] = "size" => index[r] < want[r]
    BY <1>3 DEF ReadLoop
  <2>5. pc'[r] \in {"size", "idle"}
    BY <1>3 DEF ReadLoop
  <2>6. HasRoom'
    BY <1>3, <2>3, <2>4, <2>5 DEF ReadLoop, HasRoom, Reading
  <2>7. QED
    BY <1>3, <2>1, <2>2, <2>6 DEF ReadLoop
<1>4. CASE ReadSize(r)
  <2>1. pc' = [pc EXCEPT ![r] = "ahead"] \/ pc' = [pc EXCEPT ![r] = "behind"]
    BY <1>4 DEF ReadSize
  <2>2. HasRoom'
    BY <1>4, <2>1 DEF ReadSize, HasRoom, Reading
  <2>3. QED
    BY <1>4, <2>1, <2>2 DEF ReadSize, Heads, Tails, Place
<1>10. CASE ReadDifference(r)
  <2>1. \E to \in {"idle", "loop", "read", "panic"} : pc' = [pc EXCEPT ![r] = to]
    BY <1>10 DEF ReadDifference, NoInput
  <2>2. HasRoom'
    BY <1>10, <2>1 DEF ReadDifference, HasRoom, Reading
  <2>3. QED
    BY <1>10, <2>1, <2>2 DEF ReadDifference, Heads, Tails, Place
<1>5. CASE ReadTest(r)
  BY <1>5 DEF ReadTest, HasRoom, Reading, Place, Heads, Tails
<1>6. CASE ReadLoad(r)
  BY <1>6 DEF ReadLoad, HasRoom, Reading, Place, Tails
<1>7. CASE ReadAdvance(r)
  BY <1>7, FollowingSlot DEF ReadAdvance, HasRoom, Reading, Place, Tails
<1>8. CASE ReadStore(r)
  <2>1. index[r] < want[r] /\ index[r] \in 0..MaxRead /\ want[r] \in 0..MaxRead
    BY <1>8 DEF ReadStore, HasRoom, Reading
  <2>2. \E i \in {index[r] + 1, index[r] - 1, 0} :
          i \in 0..want[r] /\ index' = [index EXCEPT ![r] = i]
    <3>1. CASE ch[r].kind = "erase" /\ settings[r].canonical /\ index[r] > 0
      <4>1. index' = [index EXCEPT ![r] = index[r] - 1]
        BY <1>8, <3>1 DEF ReadStore, Edit
      <4>2. index[r] - 1 \in 0..want[r]
        BY <2>1, <3>1
      <4>3. QED
        BY <4>1, <4>2
    <3>2. CASE ch[r].kind = "erase" /\ settings[r].canonical /\ ~(index[r] > 0)
      <4>1. index' = [index EXCEPT ![r] = 0]
        BY <1>8, <3>2 DEF ReadStore, Edit
      <4>2. 0 \in 0..want[r]
        BY <2>1
      <4>3. QED
        BY <4>1, <4>2
    <3>3. CASE ~(ch[r].kind = "erase" /\ settings[r].canonical)
      <4>1. index' = [index EXCEPT ![r] = index[r] + 1]
        BY <1>8, <3>3, Zenon DEF ReadStore, Edit
      <4>2. index[r] + 1 \in 0..want[r]
        BY <2>1
      <4>3. QED
        BY <4>1, <4>2
    <3>4. QED
      BY <3>1, <3>2, <3>3
  <2>3. index' \in [Reader -> 0..MaxRead] /\ \A s \in Reader : index'[s] =< want[s]
    BY <2>1, <2>2
  <2>4. pc' = [pc EXCEPT ![r] = "loop"] \/ pc' = [pc EXCEPT ![r] = "idle"]
    BY <1>8, Zenon DEF ReadStore, Edit
  <2>5. tail' \in Slot /\ taken' \in 0..MaxBytes
    BY <1>8 DEF ReadStore, Byte
  <2>6. \A s \in Reader : s # r => pc'[s] = pc[s] /\ index'[s] = index[s]
    BY <2>2, <2>4
  <2>7. pc'[r] \in {"loop", "idle"}
    BY <2>4
  <2>8. HasRoom'
    BY <1>8, <2>6, <2>7 DEF ReadStore, HasRoom, Reading
  <2>9. QED
    BY <1>8, <2>3, <2>4, <2>5, <2>8 DEF ReadStore, Place
<1>9. QED
  BY <1>1, <1>2, <1>3, <1>4, <1>5, <1>6, <1>7, <1>8, <1>10 DEF ReadStep

(* Every step of the specification keeps the type invariant.               *)
LEMMA NextTypeInv == TypeInv /\ [Next]_vars => TypeInv'
<1>1. TypeInv /\ UNCHANGED vars => TypeInv'
  BY DEF TypeInv, TypeOK, HasRoom, vars
<1>2. QED
  BY <1>1, ReceiveTypeInv, ReaderTypeInv DEF Next

(* Indices stay within the ring buffer and no read writes past the end of  *)
(* the caller's buffer, for any number of readers, whatever overflows.     *)
THEOREM TypeCorrect == Spec => []TypeOK
<1>1. TypeInv => TypeOK
  BY DEF TypeInv
<1>2. QED
  BY InitTypeInv, NextTypeInv, <1>1, PTL DEF Spec

-----------------------------------------------------------------------------
(* One process reads the console at a time.                                *)
OneReader == \A r, s \in Reader : r = s

(* What a reader has loaded is still so: only it moves the tail, and the   *)
(* interrupt neither empties the buffer nor overwrites its oldest byte.    *)
Synchronised(r) ==
  /\ pc[r] \in Reading \ {"store"} => seen[r].tail = tail
  /\ pc[r] \in {"size", "ahead"} => (seen[r].head # tail => head # tail)
  /\ pc[r] \in {"behind", "read"} => seen[r].head # tail /\ head # tail
  /\ pc[r] \in {"load", "advance", "store"} => head # tail
  /\ pc[r] \in {"advance", "store"} => ch[r] = buffer[tail]
  /\ pc[r] = "store" => seen[r].tail = Following(tail)

(* The slot of the k-th byte and the number of bytes stored.               *)
SlotOf(t, k) == IF t + k - 1 < BufferSize THEN t + k - 1 ELSE t + k - 1 - BufferSize
Distance(h, t) == IF h >= t THEN h - t ELSE h + BufferSize - t

(* The number of bytes stored, without the remainder.                      *)
LEMMA StoredIsDistance ==
  ASSUME NEW h \in Slot, NEW t \in Slot
  PROVE  (h + BufferSize - t) % BufferSize = Distance(h, t)
<1> DEFINE x == h + BufferSize - t
<1>1. x \in Nat /\ x < 2 * BufferSize
  BY BufferAssumption DEF Slot
<1>2. CASE h >= t
  <2>1. x >= BufferSize
    BY <1>2, BufferAssumption DEF Slot
  <2>2. x % BufferSize = x - BufferSize
    BY <1>1, <2>1, RemainderAbove
  <2>3. QED
    BY <1>2, <2>2, BufferAssumption DEF Slot, Distance
<1>3. CASE h < t
  <2>1. x < BufferSize
    BY <1>3, BufferAssumption DEF Slot
  <2>2. x % BufferSize = x
    BY <1>1, <2>1, RemainderBelow
  <2>3. QED
    BY <1>3, <2>2, BufferAssumption DEF Slot, Distance
<1>4. QED
  BY <1>2, <1>3, BufferAssumption DEF Slot

(* The slot of a byte, without the remainder.                              *)
LEMMA IndexIsSlotOf ==
  ASSUME NEW t \in Slot, NEW k \in 1..BufferSize
  PROVE  (t + k - 1) % BufferSize = SlotOf(t, k)
<1> DEFINE x == t + k - 1
<1>1. x \in Nat /\ x < 2 * BufferSize
  BY BufferAssumption DEF Slot
<1>2. CASE x < BufferSize
  BY <1>1, <1>2, RemainderBelow DEF SlotOf
<1>3. CASE x >= BufferSize
  BY <1>1, <1>3, RemainderAbove, BufferAssumption DEF SlotOf, Slot
<1>4. QED
  BY <1>1, <1>2, <1>3, BufferAssumption

(* The bytes stored are the newest, in the order of reception, and all of  *)
(* them newer than what was given away.                                    *)
Ordered ==
  /\ taken + Distance(head, tail) =< received
  /\ \A k \in 1..Distance(head, tail) :
       buffer[SlotOf(tail, k)].number = received - Distance(head, tail) + k

(* None is missing between what was given away and the oldest.             *)
Gapless == taken + Distance(head, tail) = received

(* In terms of the property of the specification.                          *)
LEMMA OrderedIsNothingLost ==
  ASSUME TypeOK, ~overflowed => Ordered /\ Gapless PROVE NothingLost
<1> SUFFICES ASSUME ~overflowed
             PROVE  /\ taken + Stored = received
                    /\ \A k \in 1..Stored : Content[k].number = taken + k
  BY DEF NothingLost
<1>1. head \in Slot /\ tail \in Slot /\ received \in Nat /\ taken \in Nat
  BY BoundAssumption DEF TypeOK
<1>2. Stored = Distance(head, tail)
  BY <1>1, StoredIsDistance DEF Stored
<1>3. Stored \in 0..BufferSize - 1
  BY <1>1, <1>2, BufferAssumption DEF Distance, Slot
<1>4. taken + Stored = received
  BY <1>2 DEF Gapless
<1>5. ASSUME NEW k \in 1..Stored PROVE Content[k].number = taken + k
  <2>1. k \in 1..BufferSize
    BY <1>3, BufferAssumption
  <2>2. (tail + k - 1) % BufferSize = SlotOf(tail, k)
    BY <1>1, <2>1, IndexIsSlotOf
  <2>3. Content[k] = buffer[SlotOf(tail, k)]
    BY <2>2 DEF Content
  <2>4. buffer[SlotOf(tail, k)].number = received - Stored + k
    BY <1>2 DEF Ordered
  <2>5. QED
    BY <1>1, <1>3, <1>4, <2>3, <2>4
<1>6. QED
  BY <1>4, <1>5

(* The inductive invariant.                                                *)
IInv ==
  /\ TypeInv
  /\ torn => overflowed
  /\ ~torn => Ordered /\ \A r \in Reader : Synchronised(r)
  /\ ~overflowed => Gapless

(* A byte pushed into a buffer that is not full goes into a slot that none *)
(* of the stored bytes is in, behind them.                                 *)
LEMMA PushedSlot ==
  ASSUME NEW h \in Slot, NEW t \in Slot, Following(h) # t
  PROVE  /\ Distance(h, t) \in 0..BufferSize - 1
         /\ Distance(Following(h), t) = Distance(h, t) + 1
         /\ SlotOf(t, Distance(h, t) + 1) = h
         /\ \A k \in 1..Distance(h, t) : SlotOf(t, k) \in Slot /\ SlotOf(t, k) # h
  BY FollowingSlot, BufferAssumption DEF Distance, SlotOf, Slot

(* A byte pushed into a full buffer goes into the one free slot; dropping  *)
(* the oldest byte leaves as many as before.                               *)
LEMMA OverflowSlot ==
  ASSUME NEW h \in Slot, NEW t \in Slot, Following(h) = t
  PROVE  /\ Distance(h, t) = BufferSize - 1
         /\ Distance(Following(h), Following(t)) = BufferSize - 1
         /\ SlotOf(Following(t), BufferSize - 1) = h
         /\ \A k \in 1..BufferSize - 2 :
              /\ SlotOf(Following(t), k) = SlotOf(t, k + 1)
              /\ SlotOf(t, k + 1) \in Slot /\ SlotOf(t, k + 1) # h
  BY FollowingSlot, BufferAssumption DEF Distance, SlotOf, Slot

(* Without the oldest byte of a buffer that is not empty, every byte is    *)
(* one place further in front.                                             *)
LEMMA PoppedSlot ==
  ASSUME NEW h \in Slot, NEW t \in Slot, h # t
  PROVE  /\ Distance(h, t) \in 1..BufferSize - 1
         /\ Distance(h, Following(t)) = Distance(h, t) - 1
         /\ SlotOf(t, 1) = t
         /\ \A k \in 1..Distance(h, t) - 1 : SlotOf(Following(t), k) = SlotOf(t, k + 1)
  BY FollowingSlot, BufferAssumption DEF Distance, SlotOf, Slot

(* The buffer is empty at first and nobody reads.                          *)
LEMMA InitIInv == Init => IInv
<1> SUFFICES ASSUME Init PROVE IInv
  OBVIOUS
<1>1. Distance(head, tail) = 0
  BY DEF Init, Distance
<1>2. Ordered /\ Gapless
  BY <1>1 DEF Ordered, Gapless, Init
<1>3. \A r \in Reader : pc[r] = "idle"
  BY DEF Init
<1>4. \A r \in Reader : Synchronised(r)
  BY <1>3 DEF Synchronised, Reading
<1>5. QED
  BY InitTypeInv, <1>2, <1>4 DEF IInv, Init

(* Reception of a byte that fits leaves the oldest byte and the tail alone *)
(* and appends the byte with the next number.                              *)
LEMMA AppendedIsOrdered ==
  ASSUME TypeOK, TypeOK', Ordered, NEW b, b.number = received + 1, Following(head) # tail,
         tail' = tail, head' = Following(head), buffer' = [buffer EXCEPT ![head] = b],
         received' = received + 1, taken' = taken
  PROVE  Ordered' /\ (Gapless => Gapless')
<1>1. head \in Slot /\ tail \in Slot /\ buffer \in [Slot -> Byte]
      /\ received \in Nat /\ taken \in Nat
  BY BoundAssumption DEF TypeOK
<1> DEFINE d == Distance(head, tail)
<1>2. d \in Nat /\ Distance(head', tail') = d + 1
  BY <1>1, PushedSlot
<1>3. ASSUME NEW k \in 1..d + 1 PROVE buffer'[SlotOf(tail', k)].number = received - d + k
  <2>1. CASE k = d + 1
    <3>1. SlotOf(tail', k) = head
      BY <2>1, <1>1, PushedSlot
    <3>2. buffer'[head].number = received + 1
      BY <1>1
    <3>3. QED
      BY <2>1, <3>1, <3>2, <1>1, <1>2
  <2>2. CASE k \in 1..d
    <3>1. SlotOf(tail, k) \in Slot /\ SlotOf(tail, k) # head
      BY <2>2, <1>1, PushedSlot
    <3>2. buffer'[SlotOf(tail', k)] = buffer[SlotOf(tail, k)]
      BY <3>1, <1>1
    <3>3. QED
      BY <2>2, <3>2 DEF Ordered
  <2>3. QED
    BY <2>1, <2>2, <1>2
<1>4. ASSUME NEW k \in 1..Distance(head', tail')
      PROVE  buffer'[SlotOf(tail', k)].number = received' - Distance(head', tail') + k
  <2>1. buffer'[SlotOf(tail', k)].number = received - d + k
    BY <1>2, <1>3
  <2>2. received' - Distance(head', tail') = received - d
    BY <1>1, <1>2
  <2>3. QED
    BY <2>1, <2>2
<1>5. taken' + Distance(head', tail') =< received'
  BY <1>1, <1>2 DEF Ordered
<1>6. Gapless => taken' + Distance(head', tail') = received'
  BY <1>1, <1>2 DEF Gapless
<1>7. QED
  BY <1>4, <1>5, <1>6 DEF Ordered, Gapless, Distance, SlotOf

(* Reception of a byte that does not fit drops the oldest one.             *)
LEMMA OverflowIsOrdered ==
  ASSUME TypeOK, TypeOK', Ordered, NEW b, b.number = received + 1, Following(head) = tail,
         tail' = Following(tail), head' = Following(head), buffer' = [buffer EXCEPT ![head] = b],
         received' = received + 1, taken' = taken
  PROVE  Ordered'
<1>1. head \in Slot /\ tail \in Slot /\ buffer \in [Slot -> Byte]
      /\ received \in Nat /\ taken \in Nat
  BY BoundAssumption DEF TypeOK
<1>2. Distance(head, tail) = BufferSize - 1 /\ Distance(head', tail') = BufferSize - 1
  BY <1>1, OverflowSlot
<1>3. ASSUME NEW k \in 1..BufferSize - 1
      PROVE  buffer'[SlotOf(tail', k)].number = received' - (BufferSize - 1) + k
  <2>1. CASE k = BufferSize - 1
    <3>1. SlotOf(tail', k) = head
      BY <2>1, <1>1, OverflowSlot
    <3>2. buffer'[head].number = received + 1
      BY <1>1
    <3>3. QED
      BY <2>1, <3>1, <3>2, <1>1, BufferAssumption
  <2>2. CASE k \in 1..BufferSize - 2
    <3>1. SlotOf(tail', k) = SlotOf(tail, k + 1)
      BY <2>2, <1>1, OverflowSlot
    <3>2. SlotOf(tail, k + 1) \in Slot /\ SlotOf(tail, k + 1) # head
      BY <2>2, <1>1, OverflowSlot
    <3>3. k + 1 \in 1..Distance(head, tail)
      BY <2>2, <1>2, BufferAssumption
    <3>4. buffer[SlotOf(tail, k + 1)].number = received - (BufferSize - 1) + (k + 1)
      BY <3>3, <1>2 DEF Ordered
    <3>5. buffer'[SlotOf(tail, k + 1)] = buffer[SlotOf(tail, k + 1)]
      BY <3>2, <1>1
    <3>6. QED
      BY <3>1, <3>4, <3>5, <2>2, <1>1, BufferAssumption
  <2>3. QED
    BY <2>1, <2>2, BufferAssumption
<1>4. taken' + Distance(head', tail') =< received'
  BY <1>1, <1>2, BufferAssumption DEF Ordered
<1>5. \A k \in 1..Distance(head', tail') :
        buffer'[SlotOf(tail', k)].number = received' - Distance(head', tail') + k
  BY <1>2, <1>3
<1>6. QED
  BY <1>4, <1>5 DEF Ordered, Distance, SlotOf

(* Reception keeps the invariant: an overflow finds no reader at the ring  *)
(* buffer, or tears the read.                                              *)
LEMMA ReceiveIInv == IInv /\ Receive => IInv'
<1> SUFFICES ASSUME IInv, Receive PROVE IInv'
  OBVIOUS
<1>1. TypeInv'
  BY ReceiveTypeInv DEF IInv
<1>2. PICK kind \in Kind : Push([number |-> received + 1, kind |-> kind])
  BY DEF Receive
<1> DEFINE b == [number |-> received + 1, kind |-> kind]
<1>3. /\ TypeOK /\ TypeOK'
      /\ head \in Slot /\ tail \in Slot /\ buffer \in [Slot -> Byte]
      /\ overflowed \in BOOLEAN /\ torn \in BOOLEAN
  BY <1>1 DEF IInv, TypeInv, TypeOK
<1>4. /\ received' = received + 1 /\ taken' = taken
      /\ pc' = pc /\ seen' = seen /\ ch' = ch
  BY DEF Receive
<1>5. b.number = received + 1
  OBVIOUS
<1>6. head' = Following(head) /\ buffer' = [buffer EXCEPT ![head] = b]
  BY <1>2 DEF Push
<1>7. CASE Following(head) # tail
  <2>1. tail' = tail /\ overflowed' = overflowed /\ torn' = torn
    BY <1>2, <1>3, <1>7 DEF Push
  <2>2. Ordered => Ordered' /\ (Gapless => Gapless')
    BY <1>3, <1>4, <1>5, <1>6, <1>7, <2>1, AppendedIsOrdered
  <2>3. ASSUME NEW r \in Reader, Synchronised(r) PROVE Synchronised(r)'
    <3>1. head # tail => buffer'[tail'] = buffer[tail]
      BY <1>3, <1>6, <2>1
    <3>2. head' # tail'
      BY <1>6, <1>7, <2>1
    <3>3. QED
      BY <2>1, <2>3, <1>4, <3>1, <3>2 DEF Synchronised, Following, Reading
  <2>4. torn' => overflowed'
    BY <2>1 DEF IInv
  <2>5. QED
    BY <1>1, <2>1, <2>2, <2>3, <2>4 DEF IInv
<1>8. CASE Following(head) = tail
  <2>1. tail' = Following(tail) /\ overflowed' /\ torn' = (torn \/ AtBuffer)
    BY <1>2, <1>8 DEF Push
  <2>2. Ordered => Ordered'
    BY <1>3, <1>4, <1>5, <1>6, <1>8, <2>1, OverflowIsOrdered
  <2>3. ~torn' => ~torn /\ \A r \in Reader : Synchronised(r)'
    BY <2>1, <1>4 DEF AtBuffer, Synchronised, Reading
  <2>4. QED
    BY <1>1, <2>1, <2>2, <2>3 DEF IInv
<1>9. QED
  BY <1>7, <1>8

(* A reader's steps before the store touch nothing but what it has loaded. *)
LEMMA LocalStepIInv ==
  ASSUME IInv, NEW r \in Reader, OneReader, UNCHANGED <<buffer, head, tail, received, overflowed, torn, taken>>,
         TypeInv', ~torn => Synchronised(r)'
  PROVE  IInv'
<1>1. /\ torn' => overflowed'
      /\ ~torn' => Ordered'
      /\ ~overflowed' => Gapless'
  BY DEF IInv, Ordered, Gapless, Distance, SlotOf
<1>2. \A s \in Reader : s = r
  BY DEF OneReader
<1>3. ~torn' => \A s \in Reader : Synchronised(s)'
  BY <1>2
<1>4. QED
  BY <1>1, <1>3 DEF IInv

(* Such a step keeps the reader synchronised as long as nothing overflows. *)
LEMMA ReaderLocalIInv ==
  ASSUME IInv, NEW r \in Reader, OneReader,
         Configure(r) \/ ReadBegin(r) \/ ReadLoop(r) \/ ReadSize(r) \/ ReadDifference(r)
           \/ ReadTest(r) \/ ReadLoad(r) \/ ReadAdvance(r)
  PROVE  IInv'
<1> USE DEF At, GoTo
<1>1. TypeInv'
  BY ReaderTypeInv DEF IInv, ReadStep
<1>2. UNCHANGED <<buffer, head, tail, received, overflowed, torn, taken>>
  BY DEF Configure, ReadBegin, ReadLoop, ReadSize, ReadDifference, ReadTest, ReadLoad,
         ReadAdvance, ring
<1>3. /\ pc \in [Reader -> Place]
      /\ seen \in [Reader -> [head : Slot, tail : Slot]]
      /\ ch \in [Reader -> Byte]
  BY DEF IInv, TypeInv, TypeOK
<1>4. ASSUME ~torn PROVE Synchronised(r)'
  <2>1. Synchronised(r)
    BY <1>4 DEF IInv
  <2>2. CASE Configure(r)
    BY <2>1, <2>2, <1>2, <1>3 DEF Configure, Synchronised, Reading
  <2>3. CASE ReadBegin(r)
    BY <2>3, <1>3 DEF ReadBegin, Synchronised, Reading
  <2>4. CASE ReadLoop(r)
    BY <2>4, <1>2, <1>3 DEF ReadLoop, Synchronised, Reading
  <2>5. CASE ReadSize(r)
    <3>1. PICK h \in Heads(r), t \in Tails(r) :
            /\ seen' = [seen EXCEPT ![r] = [head |-> h, tail |-> t]]
            /\ pc' = [pc EXCEPT ![r] = IF h >= t THEN "ahead" ELSE "behind"]
      BY <2>5 DEF ReadSize
    <3>2. t = tail /\ (h # tail => head # tail)
      BY <2>1, <2>5 DEF ReadSize, Synchronised, Heads, Tails, Reading
    <3>3. h \in Nat /\ t \in Nat
      BY <1>3, <3>1, BufferAssumption DEF Heads, Tails, IInv, TypeInv, TypeOK, Slot
    <3>4. /\ seen'[r] = [head |-> h, tail |-> tail]
          /\ pc'[r] = "ahead" \/ (pc'[r] = "behind" /\ h # tail)
      BY <1>3, <3>1, <3>2, <3>3
    <3>5. QED
      BY <1>2, <3>2, <3>4 DEF Synchronised, Reading
  <2>10. CASE ReadDifference(r)
    <3>1. PICK h \in Heads(r), t \in Tails(r) :
            /\ seen' = [seen EXCEPT ![r] = [head |-> h, tail |-> t]]
            /\ \/ pc[r] = "behind" /\ pc'[r] \in {"panic", "read"}
               \/ pc[r] = "ahead" /\ pc'[r] = "panic"
               \/ pc[r] = "ahead" /\ pc'[r] = "read" /\ h # t
               \/ pc'[r] \in {"idle", "loop"}
      <4>1. PICK h \in Heads(r), t \in Tails(r) :
              /\ seen' = [seen EXCEPT ![r] = [head |-> h, tail |-> t]]
              /\ \/ /\ IF pc[r] = "ahead" THEN h < t ELSE t < h
                    /\ GoTo(r, "panic") \/ GoTo(r, "read")
                 \/ pc[r] = "ahead" /\ h = t /\ NoInput(r)
                 \/ pc[r] = "ahead" /\ h > t /\ GoTo(r, "read")
                 \/ pc[r] = "behind" /\ h =< t /\ GoTo(r, "read")
        BY <2>10 DEF ReadDifference
      <4>2. h \in Nat /\ t \in Nat
        BY <1>3, <4>1, BufferAssumption DEF Heads, Tails, IInv, TypeInv, TypeOK, Slot
      <4>3. pc[r] \in {"ahead", "behind"}
        BY <2>10 DEF ReadDifference
      <4>4. NoInput(r) => pc'[r] \in {"idle", "loop"}
        BY <1>3 DEF NoInput
      <4>5. \/ pc[r] = "behind" /\ pc'[r] \in {"panic", "read"}
            \/ pc[r] = "ahead" /\ pc'[r] = "panic"
            \/ pc[r] = "ahead" /\ pc'[r] = "read" /\ h # t
            \/ pc'[r] \in {"idle", "loop"}
        <5>1. pc'[r] \in {"panic", "read", "idle", "loop"}
          BY <1>3, <4>1, <4>4
        <5>2. pc'[r] = "read" /\ pc[r] = "ahead" => h # t
          BY <1>3, <4>1, <4>2, <4>4
        <5>3. QED
          BY <4>3, <5>1, <5>2
      <4>6. QED
        BY <4>1, <4>5
    <3>2. t = tail /\ (h # tail => head # tail)
          /\ (pc[r] = "behind" => h # tail /\ head # tail)
      BY <2>1, <2>10 DEF ReadDifference, Synchronised, Heads, Tails, Reading
    <3>3. seen'[r] = [head |-> h, tail |-> tail]
      BY <1>3, <3>1, <3>2
    <3>4. QED
      BY <1>2, <3>1, <3>2, <3>3 DEF Synchronised, Reading
  <2>6. CASE ReadTest(r)
    BY <2>1, <2>6, <1>2, <1>3 DEF ReadTest, Synchronised, Reading, Heads, Tails
  <2>7. CASE ReadLoad(r)
    BY <2>1, <2>7, <1>2, <1>3 DEF ReadLoad, Synchronised, Reading, Tails
  <2>8. CASE ReadAdvance(r)
    BY <2>1, <2>8, <1>2, <1>3 DEF ReadAdvance, Synchronised, Reading, Tails, Following
  <2>9. QED
    BY <2>2, <2>3, <2>4, <2>5, <2>6, <2>7, <2>8, <2>10
<1>5. QED
  BY <1>1, <1>2, <1>4, LocalStepIInv

(* Unless the read was torn, the byte it gives away is the oldest one.     *)
LEMMA StoreTakesOldest ==
  ASSUME IInv, NEW r \in Reader, ReadStore(r), ~torn
  PROVE  /\ head # tail /\ tail' = Following(tail)
         /\ taken' = received - Distance(head, tail) + 1
<1>1. Ordered /\ Synchronised(r) /\ pc[r] = "store"
  BY DEF IInv, ReadStore, At
<1>2. head # tail /\ tail' = Following(tail) /\ taken' = buffer[tail].number
  BY <1>1 DEF Synchronised, ReadStore
<1>3. head \in Slot /\ tail \in Slot
  BY DEF IInv, TypeInv, TypeOK
<1>4. Distance(head, tail) \in 1..BufferSize - 1 /\ SlotOf(tail, 1) = tail
  BY <1>2, <1>3, PoppedSlot
<1>5. 1 \in 1..Distance(head, tail)
  BY <1>4
<1>6. buffer[SlotOf(tail, 1)].number = received - Distance(head, tail) + 1
  BY <1>1, <1>5 DEF Ordered
<1>7. QED
  BY <1>2, <1>4, <1>6

(* The store takes the oldest byte out of the buffer.                      *)
LEMMA StoreIInv ==
  ASSUME IInv, NEW r \in Reader, OneReader, ReadStore(r)
  PROVE  IInv'
<1> USE DEF At, GoTo
<1>1. TypeInv'
  BY ReaderTypeInv DEF IInv, ReadStep
<1>2. /\ head \in Slot /\ tail \in Slot /\ buffer \in [Slot -> Byte]
      /\ received \in Nat /\ taken \in Nat
      /\ pc \in [Reader -> Place]
  BY BoundAssumption DEF IInv, TypeInv, TypeOK
<1>3. UNCHANGED <<buffer, head, received, overflowed, torn>>
  BY DEF ReadStore
<1>4. ASSUME ~torn PROVE Ordered' /\ (Gapless => Gapless')
  <2> DEFINE d == Distance(head, tail)
  <2>1. Ordered
    BY <1>4 DEF IInv
  <2>2. head # tail /\ tail' = Following(tail) /\ taken' = received - d + 1
    BY <1>4, StoreTakesOldest
  <2>3. d \in 1..BufferSize - 1 /\ Distance(head', tail') = d - 1
    BY <1>2, <1>3, <2>2, PoppedSlot
  <2>4. taken' + Distance(head', tail') = received'
    BY <1>2, <1>3, <2>2, <2>3
  <2>5. ASSUME NEW k \in 1..d - 1
        PROVE  buffer'[SlotOf(tail', k)].number = received' - (d - 1) + k
    <3>1. SlotOf(tail', k) = SlotOf(tail, k + 1)
      BY <1>2, <2>2, PoppedSlot
    <3>2. k + 1 \in 1..d
      BY <2>3
    <3>3. buffer[SlotOf(tail, k + 1)].number = received - d + (k + 1)
      BY <2>1, <3>2 DEF Ordered
    <3>4. QED
      BY <1>2, <1>3, <2>3, <3>1, <3>3
  <2>6. \A k \in 1..Distance(head', tail') :
          buffer'[SlotOf(tail', k)].number = received' - Distance(head', tail') + k
    BY <2>3, <2>5
  <2>7. taken' + Distance(head', tail') =< received'
    BY <2>4, <1>2, <1>3
  <2>8. QED
    BY <2>4, <2>6, <2>7 DEF Ordered, Gapless, Distance, SlotOf
<1>5. pc' = [pc EXCEPT ![r] = "loop"] \/ pc' = [pc EXCEPT ![r] = "idle"]
  BY Zenon DEF ReadStore, Edit
<1>6. \A s \in Reader : s = r
  BY DEF OneReader
<1>7. \A s \in Reader : pc'[s] \in {"loop", "idle"}
  BY <1>2, <1>5, <1>6
<1>8. \A s \in Reader : Synchronised(s)'
  BY <1>7 DEF Synchronised, Reading
<1>9. QED
  BY <1>1, <1>3, <1>4, <1>8 DEF IInv

(* Every step keeps the invariant.                                         *)
LEMMA NextIInv == ASSUME OneReader PROVE IInv /\ [Next]_vars => IInv'
<1> SUFFICES ASSUME IInv, [Next]_vars PROVE IInv'
  OBVIOUS
<1>1. CASE Receive
  BY <1>1, ReceiveIInv
<1>2. CASE \E r \in Reader : Configure(r) \/ ReadBegin(r) \/ ReadStep(r)
  BY <1>2, ReaderLocalIInv, StoreIInv DEF ReadStep
<1>3. CASE UNCHANGED vars
  BY <1>3 DEF vars, IInv, TypeInv, TypeOK, HasRoom, Ordered, Gapless, Distance, SlotOf,
             Synchronised, Following, Reading
<1>4. QED
  BY <1>1, <1>2, <1>3 DEF Next

(* A single reader: the invariant always holds.                            *)
LEMMA AlwaysIInv == ASSUME OneReader PROVE Spec => []IInv
<1>1. IInv /\ [Next]_vars => IInv'
  BY NextIInv
<1>2. QED
  BY InitIInv, <1>1, PTL DEF Spec

(* A single reader: whatever its size, the ring buffer holds exactly the   *)
(* bytes received and not yet given away, in order, until it overflows,    *)
(* although interrupt and reader share head and tail without a lock.       *)
THEOREM NothingIsLost == ASSUME OneReader PROVE Spec => []NothingLost
<1>1. IInv => NothingLost
  BY OrderedIsNothingLost DEF IInv, TypeInv
<1>2. QED
  BY AlwaysIInv, <1>1, PTL

-----------------------------------------------------------------------------
(* A step of a single reader leaves "store" only by ReadStore.             *)
LEMMA OnlyReadStoreStores ==
  ASSUME TypeOK, OneReader, Next, NEW r \in Reader, pc[r] = "store", pc'[r] # "store"
  PROVE  ReadStore(r)
<1> USE DEF At, GoTo
<1>1. ~Receive
  BY DEF Receive
<1>2. PICK s \in Reader : Configure(s) \/ ReadBegin(s) \/ ReadStep(s)
  BY <1>1 DEF Next
<1>3. s = r
  BY DEF OneReader
<1>4. QED
  BY <1>2, <1>3 DEF Configure, ReadBegin, ReadStep, ReadLoop, ReadSize, ReadDifference, ReadTest,
                    ReadLoad, ReadAdvance

(* A single reader is given every byte once and in the order of reception, *)
(* for any size of the buffer, also across overflows that did not come     *)
(* between its load of the tail and its store.                             *)
THEOREM BytesComeInOrder == ASSUME OneReader PROVE Spec => InOrder
<1>1. ASSUME IInv, [Next]_vars, NEW r \in Reader, pc[r] = "store", pc'[r] # "store", ~torn
      PROVE  taken' > taken
  <2>1. ReadStore(r)
    BY <1>1, OnlyReadStoreStores DEF IInv, TypeInv, vars
  <2>2. taken' = received - Distance(head, tail) + 1
    BY <1>1, <2>1, StoreTakesOldest
  <2>3. taken + Distance(head, tail) =< received
    BY <1>1 DEF IInv, Ordered
  <2>4. /\ taken \in Nat /\ received \in Nat
        /\ head \in 0..BufferSize - 1 /\ tail \in 0..BufferSize - 1
    BY <1>1, BoundAssumption DEF IInv, TypeInv, TypeOK, Slot
  <2>5. Distance(head, tail) \in Int
    BY <2>4, BufferAssumption DEF Distance
  <2>6. QED
    BY <2>2, <2>3, <2>4, <2>5
<1>2. IInv /\ [Next]_vars
      => [\A r \in Reader : pc[r] = "store" /\ pc'[r] # "store" /\ ~torn => taken' > taken]_vars
  BY <1>1
<1>3. QED
  BY AlwaysIInv, <1>2, PTL DEF Spec, InOrder

(* A read that waits for a line, by a single reader, does not return empty *)
(* unless the buffer overflows under its hands.                            *)
THEOREM LineReadsReturnInput == ASSUME OneReader PROVE Spec => LineReadReturnsInput
<1> USE DEF At, GoTo
<1>1. ASSUME IInv, Next, NEW r \in Reader, pc[r] # "idle", pc'[r] = "idle", want[r] > 0,
             WaitsForLine(settings[r]), ~torn
      PROVE  index'[r] > 0
  <2>1. Synchronised(r)
    BY <1>1 DEF IInv
  <2>2. /\ pc \in [Reader -> Place]
        /\ index \in [Reader -> 0..MaxRead] /\ settings[r].minimum \in Nat
        /\ want[r] \in 0..MaxRead
    BY <1>1, SettingsAssumption DEF IInv, TypeInv, TypeOK
  <2>3. ~Receive
    BY <1>1 DEF Receive
  <2>4. PICK s \in Reader : Configure(s) \/ ReadBegin(s) \/ ReadStep(s)
    BY <1>1, <2>3 DEF Next
  <2>5. s = r
    BY DEF OneReader
  <2>6. CASE Configure(r) \/ ReadBegin(r) \/ ReadLoad(r) \/ ReadAdvance(r)
    BY <1>1, <2>2, <2>6 DEF Configure, ReadBegin, ReadLoad, ReadAdvance
  <2>7. CASE ReadLoop(r)
    BY <1>1, <2>2, <2>7 DEF ReadLoop, WaitsForLine
  <2>8. CASE ReadSize(r)
    BY <1>1, <2>2, <2>8 DEF ReadSize
  <2>12. CASE ReadDifference(r)
    <3>1. pc'[r] = "idle" => NoInput(r)
      BY <2>2, <2>12 DEF ReadDifference
    <3>2. index'[r] = index[r]
      BY <2>12 DEF ReadDifference
    <3>3. QED
      BY <1>1, <2>2, <3>1, <3>2, BoundAssumption DEF NoInput, WaitsForLine
  <2>9. CASE ReadTest(r)
    <3>1. seen[r].tail = tail /\ seen[r].head # tail /\ head # tail
      BY <2>1, <2>9 DEF ReadTest, Synchronised, Reading
    <3>2. QED
      BY <1>1, <2>2, <2>9, <3>1 DEF ReadTest, Heads, Tails
  <2>10. CASE ReadStore(r)
    <3>1. ~(ch[r].kind = "erase" /\ settings[r].canonical)
      BY <1>1, <2>2, <2>10 DEF ReadStore, Edit
    <3>2. index' = [index EXCEPT ![r] = index[r] + 1]
      BY <2>10, <3>1, Zenon DEF ReadStore, Edit
    <3>3. QED
      BY <2>2, <3>2, BoundAssumption
  <2>11. QED
    BY <2>4, <2>5, <2>6, <2>7, <2>8, <2>9, <2>10, <2>12 DEF ReadStep
<1>2. IInv /\ [Next]_vars
      => [\A r \in Reader :
            pc[r] # "idle" /\ pc'[r] = "idle" /\ want[r] > 0 /\ WaitsForLine(settings[r])
            /\ ~torn
            => index'[r] > 0]_vars
  BY <1>1
<1>3. QED
  BY AlwaysIInv, <1>2, PTL DEF Spec, LineReadReturnsInput
=============================================================================
