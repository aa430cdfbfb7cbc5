------------------------------- MODULE Buffer -------------------------------
(***************************************************************************)
(* Buffer.h, Buffer.cpp: the byte buffer between a connection and its      *)
(* user, one vector with the layout                                        *)
(*                                                                         *)
(*     prependable | readable | writable                                   *)
(*     0    readerIndex_    writeIndex_   buffer_.size()                   *)
(*                                                                         *)
(* A Buffer object is a record here and each method that changes it an     *)
(* operator from the object and the arguments to the object afterwards.    *)
(* The bytes that come in are numbered 1, 2, ... in the order of arrival   *)
(* (0 is the fill of a new vector), so what a reader finds tells which     *)
(* bytes were lost, doubled or swapped.                                    *)
(*                                                                         *)
(* Writing behind the end of the vector is undefined behaviour: overrun    *)
(* records it and the model stops there.                                   *)
(***************************************************************************)
EXTENDS Naturals, Sequences

CONSTANTS
  kCheapPrepend,     \* 8
  kInitialSize,      \* 1024
  ExtrabufSize,      \* sizeof extrabuf in readFd, 65536
  MaxBytes           \* bound: bytes that ever come in

ASSUME BufferAssumption ==
  /\ kCheapPrepend \in Nat
  /\ kInitialSize \in Nat
  /\ ExtrabufSize \in Nat
  /\ MaxBytes \in Nat

VARIABLES
  buf,               \* the Buffer
  overrun,           \* the vector's end has been written over
  put, got           \* history: how many bytes came in, were handed out

vars == <<buf, overrun, put, got>>

Sizes == 0..MaxBytes

TypeOK ==
  /\ buf \in [buffer_ : Seq(0..MaxBytes), readerIndex_ : Nat, writeIndex_ : Nat]
  /\ overrun \in BOOLEAN
  /\ put \in Sizes
  /\ got \in Sizes

\* Buffer::Buffer
NewBuffer == [buffer_ |-> [i \in 1..(kCheapPrepend + kInitialSize) |-> 0],
              readerIndex_ |-> kCheapPrepend,
              writeIndex_ |-> kCheapPrepend]

Init == buf = NewBuffer /\ overrun = FALSE /\ put = 0 /\ got = 0

-----------------------------------------------------------------------------
(* The methods *)

Size(b) == Len(b.buffer_)

ReadableBytes(b) == b.writeIndex_ - b.readerIndex_

\* buffer_.size() - readerIndex_: the unread bytes are counted as writable.
WritableBytes(b) == Size(b) - b.readerIndex_

PrependableBytes(b) == b.readerIndex_

RetrieveAll(b) == [b EXCEPT !.readerIndex_ = kCheapPrepend,
                            !.writeIndex_ = kCheapPrepend]

\* Faulty variant: the indices are not set back when everything has been read, and
\* nothing stops the reader at the writer.
Retrieve_NoReset(b, len) == [b EXCEPT !.readerIndex_ = @ + len]

Retrieve(b, len) ==
  IF len < ReadableBytes(b) THEN [b EXCEPT !.readerIndex_ = @ + len]
                            ELSE RetrieveAll(b)

\* Faulty variant: the unread bytes are moved to the very front.
Moved_NoPrepend(b) ==
  LET readable == ReadableBytes(b)
  IN [buffer_ |-> [i \in 1..Size(b) |->
                     IF i <= readable THEN b.buffer_[b.readerIndex_ + i]
                                      ELSE b.buffer_[i]],
      readerIndex_ |-> 0,
      writeIndex_ |-> readable]

\* The else branch of makeSpace: the unread bytes are moved to the front.
Moved(b) ==
  LET readable == ReadableBytes(b)
  IN [buffer_ |-> [i \in 1..Size(b) |->
                     IF i \in (kCheapPrepend + 1)..(kCheapPrepend + readable)
                     THEN b.buffer_[b.readerIndex_ + i - kCheapPrepend]
                     ELSE b.buffer_[i]],
      readerIndex_ |-> kCheapPrepend,
      writeIndex_ |-> kCheapPrepend + readable]

\* buffer_.resize(n)
Resized(b, n) ==
  [b EXCEPT !.buffer_ = [i \in 1..n |-> IF i <= Size(b) THEN b.buffer_[i] ELSE 0]]

\* Faulty variant: room is made for the new bytes alone.
MakeSpace_Short(b, len) ==
  IF WritableBytes(b) + PrependableBytes(b) < len + kCheapPrepend
  THEN Resized(b, len)
  ELSE Moved(b)

MakeSpace(b, len) ==
  IF WritableBytes(b) + PrependableBytes(b) < len + kCheapPrepend
  THEN Resized(b, b.writeIndex_ + len)
  ELSE Moved(b)

EnsureWriteableBytes(b, len) ==
  IF WritableBytes(b) < len THEN MakeSpace(b, len) ELSE b

\* Faulty variant: the copy starts one byte too late in the source.
Copied_SkipsByte(b, first, len) ==
  [b EXCEPT !.buffer_ =
     [i \in 1..Size(b) |-> IF i \in (b.writeIndex_ + 1)..(b.writeIndex_ + len)
                           THEN first + 1 + i - b.writeIndex_
                           ELSE b.buffer_[i]]]

\* The bytes first + 1, ..., first + len are copied to beginWrite(), as far as they
\* fall into the vector.
Copied(b, first, len) ==
  [b EXCEPT !.buffer_ =
     [i \in 1..Size(b) |-> IF i \in (b.writeIndex_ + 1)..(b.writeIndex_ + len)
                           THEN first + i - b.writeIndex_
                           ELSE b.buffer_[i]]]

Fits(b, len) == b.writeIndex_ + len <= Size(b)

\* append(), of the bytes first + 1, ..., first + len.
AppendTo(b, first, len) ==
  LET e == EnsureWriteableBytes(b, len)
  IN [Copied(e, first, len) EXCEPT !.writeIndex_ = @ + len]

AppendFits(b, len) == Fits(EnsureWriteableBytes(b, len), len)

\* What readv() puts into the vector when it delivers len bytes: it is told that
\* writableBytes() bytes fit, and puts the rest into extrabuf.
Direct(b, len) == IF len <= WritableBytes(b) THEN len ELSE WritableBytes(b)

\* The buffer with the vector declared full, when extrabuf was needed.
Full(b, first) == [Copied(b, first, WritableBytes(b)) EXCEPT !.writeIndex_ = Size(b)]

\* readFd(), when readv() delivers the bytes first + 1, ..., first + len.
ReadFdInto(b, first, len) ==
  IF len <= WritableBytes(b)
  THEN [Copied(b, first, len) EXCEPT !.writeIndex_ = @ + len]
  ELSE AppendTo(Full(b, first), first + WritableBytes(b), len - WritableBytes(b))

ReadFdFits(b, first, len) ==
  /\ Fits(b, Direct(b, len))
  /\ len > WritableBytes(b) => AppendFits(Full(b, first), len - WritableBytes(b))

\* The most that readv() can deliver: extrabuf is offered only next to a vector
\* with less room than it has itself.
Capacity(b) ==
  WritableBytes(b) + (IF WritableBytes(b) < ExtrabufSize THEN ExtrabufSize ELSE 0)

-----------------------------------------------------------------------------
(* The calls *)

\* append() by a user of the buffer.
AppendBytes(len) ==
  /\ ~overrun
  /\ put + len <= MaxBytes
  /\ put' = put + len
  /\ overrun' = ~AppendFits(buf, len)
  /\ buf' = IF AppendFits(buf, len) THEN AppendTo(buf, put, len) ELSE buf
  /\ UNCHANGED got

\* readFd(), when that many bytes can be delivered.
ReadBytes(len) ==
  /\ ~overrun
  /\ put + len <= MaxBytes
  /\ len <= Capacity(buf)
  /\ put' = put + len
  /\ overrun' = ~ReadFdFits(buf, put, len)
  /\ buf' = IF ReadFdFits(buf, put, len) THEN ReadFdInto(buf, put, len) ELSE buf
  /\ UNCHANGED got

\* retrieveAsString(), or writeFd() followed by retrieve() of what was written.
\* retrieve() by itself tolerates a len beyond what there is.
RetrieveBytes(len) ==
  /\ ~overrun
  /\ buf' = Retrieve(buf, len)
  /\ got' = IF len < ReadableBytes(buf) THEN got + len ELSE put
  /\ UNCHANGED <<overrun, put>>

Next == \E len \in Sizes : AppendBytes(len) \/ ReadBytes(len) \/ RetrieveBytes(len)

SafeSpec == Init /\ [][Next]_vars

-----------------------------------------------------------------------------
(* Properties *)

\* As long as no write went behind the vector's end, the indices keep their order
\* through any sequence of calls: the prepend area stays free, what is readable has
\* been written and lies inside the vector.
IndexOrder ==
  /\ kCheapPrepend <= buf.readerIndex_
  /\ buf.readerIndex_ <= buf.writeIndex_
  /\ buf.writeIndex_ <= Size(buf)

\* And, as long, a reader finds exactly the bytes not handed out so far, in the order in which
\* they came in, across growing, moving and the detour through extrabuf.
ReadableIsFifo ==
  ~overrun =>
    /\ ReadableBytes(buf) = put - got
    /\ \A i \in 1..(put - got) : buf.buffer_[buf.readerIndex_ + i] = got + i

\* A buffer that is emptied before anything is added is safe to append to, and to
\* read into what fits: writableBytes() is right when nothing is unread, and
\* makeSpace() then makes enough room.
DrainedBufferIsSafe ==
  [][\A len \in Sizes :
       (/\ ReadableBytes(buf) = 0
        /\ AppendBytes(len) \/ (ReadBytes(len) /\ Fits(buf, len))) => ~overrun']_vars

\* "Checks whether there is enough room to write the data, otherwise grows the
\* buffer": append() and readFd() never write behind the end of the vector.
NoOverrun == ~overrun

=============================================================================
