----------------------------- MODULE UartReceive -----------------------------
(***************************************************************************)
(* The receiving side of the serial console: the interrupt handler of      *)
(* uart.zig pushes every byte into a ring buffer (ring_buffer.zig), from   *)
(* which processes take them in UartFile.read (uart_file.zig).             *)
(*                                                                         *)
(* The handler runs to its end whenever a byte comes, between any two      *)
(* accesses of a reader to the ring buffer.  Nothing orders the reader's   *)
(* accesses to head and tail: at every use the compiled code may load them *)
(* again or use what it loaded before (seen).                              *)
(***************************************************************************)
EXTENDS Naturals

CONSTANTS
  Reader,       \* processes that read the console
  BufferSize,   \* BufferSize, one more than what the ring buffer can hold
  Settings,     \* what TCSETS and F_SETFL may ask for
  MaxRead,      \* bound on the length of a read
  MaxBytes      \* bound on the bytes that are received

ASSUME BufferAssumption == BufferSize \in Nat \ {0, 1}
ASSUME BoundAssumption == MaxRead \in Nat /\ MaxBytes \in Nat

(* The settings UartFile.create gives; they last until a program changes   *)
(* them.                                                                   *)
Default == [canonical |-> TRUE, raw |-> FALSE, nonblock |-> FALSE,
            timed |-> FALSE, minimum |-> 1]

ASSUME SettingsAssumption ==
  /\ Default \in Settings
  /\ Settings \subseteq [canonical : BOOLEAN, raw : BOOLEAN, nonblock : BOOLEAN,
                         timed : BOOLEAN, minimum : Nat]

VARIABLES
  buffer, head, tail,   \* the ring buffer
  received,             \* the number of bytes received
  overflowed,           \* history: bytes were dropped because it was full
  torn,                 \* history: and that while a reader was at the ring buffer
  pc,                   \* where the code of each reader stands
  settings,             \* the fields of its UartFile
  want, index,          \* the length of its buffer, the bytes in it
  seen,                 \* the head and tail it loaded last
  ch,                   \* the byte it loaded last
  taken                 \* history: the last byte given to a reader

ring == <<buffer, head, tail>>
vars == <<buffer, head, tail, received, overflowed, torn, pc, settings, want, index,
          seen, ch, taken>>

Slot == 0..BufferSize - 1
Following(i) == (i + 1) % BufferSize

(* A byte is numbered in the order of reception; 0 is what is in the       *)
(* buffer at the start.  The line ends are one kind, backspace and delete  *)
(* another.                                                                *)
Kind == {"char", "newline", "erase"}
Byte == [number : 0..MaxBytes, kind : Kind]
NoByte == [number |-> 0, kind |-> "char"]

Place == {"idle", "loop", "size", "ahead", "behind", "read", "load", "advance",
          "store", "panic"}

(* The places between the loads of is_readable and the reader's own store  *)
(* to tail.                                                                *)
Reading == {"size", "ahead", "behind", "read", "load", "advance", "store"}

TypeOK ==
  /\ buffer \in [Slot -> Byte]
  /\ head \in Slot /\ tail \in Slot
  /\ received \in 0..MaxBytes
  /\ overflowed \in BOOLEAN /\ torn \in BOOLEAN
  /\ pc \in [Reader -> Place]
  /\ settings \in [Reader -> Settings]
  /\ want \in [Reader -> 0..MaxRead]
  /\ index \in [Reader -> 0..MaxRead]
  /\ \A r \in Reader : index[r] =< want[r]
  /\ seen \in [Reader -> [head : Slot, tail : Slot]]
  /\ ch \in [Reader -> Byte]
  /\ taken \in 0..MaxBytes

Init ==
  /\ buffer = [i \in Slot |-> NoByte]
  /\ head = 0 /\ tail = 0
  /\ received = 0 /\ overflowed = FALSE /\ torn = FALSE
  /\ pc = [r \in Reader |-> "idle"]
  /\ settings = [r \in Reader |-> Default]
  /\ want = [r \in Reader |-> 0]
  /\ index = [r \in Reader |-> 0]
  /\ seen = [r \in Reader |-> [head |-> 0, tail |-> 0]]
  /\ ch = [r \in Reader |-> NoByte]
  /\ taken = 0

-----------------------------------------------------------------------------
AtBuffer == \E r \in Reader : pc[r] \in Reading

(* Mutants: a full buffer is not noticed; the slot after the head is       *)
(* written.                                                                *)
PushUnchecked(b) ==
  /\ buffer' = [buffer EXCEPT ![head] = b]
  /\ head' = Following(head)
  /\ UNCHANGED <<tail, overflowed, torn>>

PushAfterHead(b) ==
  LET full == Following(head) = tail IN
  /\ tail' = IF full THEN Following(tail) ELSE tail
  /\ overflowed' = (overflowed \/ full)
  /\ torn' = (torn \/ (full /\ AtBuffer))
  /\ buffer' = [buffer EXCEPT ![Following(head)] = b]
  /\ head' = Following(head)

(* RingBuffer.push: when the buffer is full the oldest byte is popped.     *)
Push(b) ==
  LET full == Following(head) = tail IN
  /\ tail' = IF full THEN Following(tail) ELSE tail
  /\ overflowed' = (overflowed \/ full)
  /\ torn' = (torn \/ (full /\ AtBuffer))
  /\ buffer' = [buffer EXCEPT ![head] = b]
  /\ head' = Following(head)

(* on_uart_rx_irq, for one byte.                                           *)
Receive ==
  /\ received < MaxBytes
  /\ received' = received + 1
  /\ \E kind \in Kind : Push([number |-> received + 1, kind |-> kind])
  /\ UNCHANGED <<pc, settings, want, index, seen, ch, taken>>

-----------------------------------------------------------------------------
At(r, from) == pc[r] = from
GoTo(r, to) == pc' = [pc EXCEPT ![r] = to]

(* The values of head and tail the code of a reader may use.               *)
Heads(r) == {seen[r].head, head}
Tails(r) == {seen[r].tail, tail}

(* TCSETS and F_SETFL, by a process that is not reading.                   *)
Configure(r) ==
  /\ At(r, "idle")
  /\ \E s \in Settings : settings' = [settings EXCEPT ![r] = s]
  /\ UNCHANGED <<ring, received, overflowed, torn, pc, want, index, seen, ch, taken>>

(* A call of UartFile.read.                                                *)
ReadBegin(r) ==
  /\ At(r, "idle")
  /\ \E n \in 0..MaxRead : want' = [want EXCEPT ![r] = n]
  /\ index' = [index EXCEPT ![r] = 0]
  /\ GoTo(r, "loop")
  /\ UNCHANGED <<ring, received, overflowed, torn, settings, seen, ch, taken>>

(* Mutant: one byte more than the caller's buffer holds is read.           *)
ReadLoopLong(r) ==
  /\ At(r, "loop")
  /\ \/ /\ index[r] > want[r] \/ settings[r].timed
        /\ GoTo(r, "idle") /\ UNCHANGED seen
     \/ /\ index[r] =< want[r]
        /\ GoTo(r, "size")
        /\ seen' = [seen EXCEPT ![r] = [head |-> head, tail |-> tail]]
  /\ UNCHANGED <<ring, received, overflowed, torn, settings, want, index, ch, taken>>

(* The head of its loop: the caller's buffer may be full, the time may be  *)
(* over; otherwise is_readable loads head and tail.                        *)
ReadLoop(r) ==
  /\ At(r, "loop")
  /\ \/ /\ index[r] = want[r] \/ settings[r].timed
        /\ GoTo(r, "idle") /\ UNCHANGED seen
     \/ /\ index[r] < want[r]
        /\ GoTo(r, "size")
        /\ seen' = [seen EXCEPT ![r] = [head |-> head, tail |-> tail]]
  /\ UNCHANGED <<ring, received, overflowed, torn, settings, want, index, ch, taken>>

(* RingBuffer.size compares head and tail ...                              *)
ReadSize(r) ==
  /\ At(r, "size")
  /\ \E h \in Heads(r), t \in Tails(r) :
       /\ seen' = [seen EXCEPT ![r] = [head |-> h, tail |-> t]]
       /\ GoTo(r, IF h >= t THEN "ahead" ELSE "behind")
  /\ UNCHANGED <<ring, received, overflowed, torn, settings, want, index, ch, taken>>

(* Without input a nonblocking read returns, a raw one if it has enough;   *)
(* any other starts over.                                                  *)
NoInput(r) ==
  IF settings[r].nonblock \/ (settings[r].raw /\ index[r] >= settings[r].minimum)
  THEN GoTo(r, "idle")
  ELSE GoTo(r, "loop")

(* ... and subtracts the smaller from the larger, which may have been      *)
(* loaded again: when the interrupt has wrapped one of them around in      *)
(* between the difference is negative.  In a build that checks arithmetic  *)
(* the reader panics, which never returns; in any other the difference     *)
(* wraps to a number that is not zero.  With the tail ahead, the size is   *)
(* never zero.                                                             *)
ReadDifference(r) ==
  /\ pc[r] \in {"ahead", "behind"}
  /\ \E h \in Heads(r), t \in Tails(r) :
       /\ seen' = [seen EXCEPT ![r] = [head |-> h, tail |-> t]]
       /\ \/ /\ IF pc[r] = "ahead" THEN h < t ELSE t < h
             /\ GoTo(r, "panic") \/ GoTo(r, "read")
          \/ pc[r] = "ahead" /\ h = t /\ NoInput(r)
          \/ pc[r] = "ahead" /\ h > t /\ GoTo(r, "read")
          \/ pc[r] = "behind" /\ h =< t /\ GoTo(r, "read")
  /\ UNCHANGED <<ring, received, overflowed, torn, settings, want, index, ch, taken>>

(* RingBuffer.read of one byte: the condition of its loop.  When nothing   *)
(* is there after all, the call returns what it has.                       *)
ReadTest(r) ==
  /\ At(r, "read")
  /\ \E h \in Heads(r), t \in Tails(r) :
       /\ seen' = [seen EXCEPT ![r] = [head |-> h, tail |-> t]]
       /\ GoTo(r, IF h = t THEN "idle" ELSE "load")
  /\ UNCHANGED <<ring, received, overflowed, torn, settings, want, index, ch, taken>>

(* buffer[count] = self.buffer[self.tail]                                  *)
ReadLoad(r) ==
  /\ At(r, "load")
  /\ \E t \in Tails(r) :
       /\ ch' = [ch EXCEPT ![r] = buffer[t]]
       /\ seen' = [seen EXCEPT ![r].tail = t]
  /\ GoTo(r, "advance")
  /\ UNCHANGED <<ring, received, overflowed, torn, settings, want, index, taken>>

(* self.tail = (self.tail + 1) % self.buffer.len, up to the store.         *)
ReadAdvance(r) ==
  /\ At(r, "advance")
  /\ \E t \in Tails(r) : seen' = [seen EXCEPT ![r].tail = Following(t)]
  /\ GoTo(r, "store")
  /\ UNCHANGED <<ring, received, overflowed, torn, settings, want, index, ch, taken>>

(* Mutants: a line end does not end the read; an erased character at the   *)
(* start of the line ends it.                                              *)
EditKeepsReading(r) ==
  IF ch[r].kind = "erase" /\ settings[r].canonical
  THEN /\ index' = [index EXCEPT ![r] = IF @ > 0 THEN @ - 1 ELSE 0]
       /\ GoTo(r, "loop")
  ELSE /\ index' = [index EXCEPT ![r] = @ + 1]
       /\ GoTo(r, "loop")

EditReturnsOnErase(r) ==
  IF ch[r].kind = "erase" /\ settings[r].canonical
  THEN /\ index' = [index EXCEPT ![r] = IF @ > 0 THEN @ - 1 ELSE 0]
       /\ GoTo(r, IF index[r] = 0 THEN "idle" ELSE "loop")
  ELSE /\ index' = [index EXCEPT ![r] = @ + 1]
       /\ GoTo(r, IF settings[r].canonical /\ ch[r].kind = "newline" THEN "idle" ELSE "loop")

(* What UartFile.read does with a byte: a canonical read lets it erase the *)
(* one before and returns after a line end.                                *)
Edit(r) ==
  IF ch[r].kind = "erase" /\ settings[r].canonical
  THEN /\ index' = [index EXCEPT ![r] = IF @ > 0 THEN @ - 1 ELSE 0]
       /\ GoTo(r, "loop")
  ELSE /\ index' = [index EXCEPT ![r] = @ + 1]
       /\ GoTo(r, IF settings[r].canonical /\ ch[r].kind = "newline" THEN "idle" ELSE "loop")

(* The store to tail, then the byte is dealt with; nothing else of the     *)
(* ring buffer is touched.                                                 *)
ReadStore(r) ==
  /\ At(r, "store")
  /\ tail' = seen[r].tail
  /\ taken' = ch[r].number
  /\ Edit(r)
  /\ UNCHANGED <<buffer, head, received, overflowed, torn, settings, want, seen, ch>>

ReadStep(r) ==
  \/ ReadLoop(r) \/ ReadSize(r) \/ ReadDifference(r) \/ ReadTest(r)
  \/ ReadLoad(r) \/ ReadAdvance(r) \/ ReadStore(r)

Next ==
  \/ Receive
  \/ \E r \in Reader : Configure(r) \/ ReadBegin(r) \/ ReadStep(r)

Spec == Init /\ [][Next]_vars

(* A reader that has begun is given the processor again and again.         *)
FairSpec == Spec /\ \A r \in Reader : WF_vars(ReadStep(r))

-----------------------------------------------------------------------------
(* Properties.                                                             *)

(* The bytes between tail and head, oldest first.                          *)
Stored == (head + BufferSize - tail) % BufferSize
Content == [k \in 1..Stored |-> buffer[(tail + k - 1) % BufferSize]]

(* Every byte given to a reader was received later than the one before:    *)
(* none is given twice, and no byte overtakes another.  An overflow drops  *)
(* bytes but keeps the order, unless it moves the tail that a reader has   *)
(* loaded and not yet moved itself.                                        *)
InOrder ==
  [][\A r \in Reader :
       pc[r] = "store" /\ pc'[r] # "store" /\ ~torn => taken' > taken]_vars

(* As long as the buffer did not overflow it holds exactly the bytes that  *)
(* were received and not yet given away, in that order.                    *)
NothingLost ==
  ~overflowed =>
    /\ taken + Stored = received
    /\ \A k \in 1..Stored : Content[k].number = taken + k

(* On overflow the oldest bytes are dropped, never the newest: the byte    *)
(* received last is in the buffer until it is given away.                  *)
NewestIsKept ==
  received > taken => Stored > 0 /\ Content[Stored].number = received

(* The settings under which a read has nothing else to return for: TCSETS  *)
(* leaves a canonical read the timeout and the minimum of a raw one.       *)
WaitsForLine(s) ==
  s.canonical /\ ~s.nonblock /\ ~s.timed /\ (s.raw => s.minimum > 0)

(* A read that waits for a line does not return empty, which a program     *)
(* takes for the end of the input: what is_readable saw is still there.    *)
(* (When the buffer overflows between the loads of head and tail, an old   *)
(* tail may equal the new head and the full buffer look empty.)            *)
LineReadReturnsInput ==
  [][\A r \in Reader :
       pc[r] # "idle" /\ pc'[r] = "idle" /\ want[r] > 0 /\ WaitsForLine(settings[r])
       /\ ~torn
       => index'[r] > 0]_vars

(* A reader that waits for a line returns once its end has come, unless    *)
(* the buffer overflows or the subtraction of RingBuffer.size panics: this *)
(* takes no overflow, only a head that wraps around between its loads.     *)
LineEndEndsRead ==
  [](~overflowed) =>
    \A r \in Reader :
      (/\ pc[r] # "idle" /\ settings[r].canonical
       /\ \E k \in 1..Stored : Content[k].kind = "newline") ~> pc[r] \in {"idle", "panic"}
=============================================================================
