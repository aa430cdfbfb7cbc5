---------------------------- MODULE BufferProofs ----------------------------
(***************************************************************************)
(* The methods of Buffer, one lemma each, and from them the properties of  *)
(* every sequence of calls, for all sizes and numbers of bytes.            *)
(***************************************************************************)
EXTENDS Buffer, SequenceTheorems, TLAPS

\* The vector m with indices r and w is in order, and its readable part is the
\* bytes first + 1, ..., last.
Held(m, r, w, first, last) ==
  /\ m \in Seq(0..MaxBytes)
  /\ r \in Nat /\ w \in Nat
  /\ kCheapPrepend <= r
  /\ w = r + (last - first)
  /\ first <= last
  /\ w <= Len(m)
  /\ \A i \in 1..(last - first) : m[r + i] = first + i

Object(m, r, w) == [buffer_ |-> m, readerIndex_ |-> r, writeIndex_ |-> w]

Good(b, first, last) ==
  \E m, r, w : b = Object(m, r, w) /\ Held(m, r, w, first, last)

\* A sequence's length and elements.
LEMMA SeqElements ==
  ASSUME NEW S, NEW s \in Seq(S)
  PROVE  Len(s) \in Nat /\ \A i \in 1..Len(s) : s[i] \in S
OBVIOUS

-----------------------------------------------------------------------------
(* The vector *)

\* The unread bytes may be moved to the front.
LEMMA MovedHeld ==
  ASSUME NEW m, NEW r, NEW w, NEW first \in Nat, NEW last \in Nat,
         Held(m, r, w, first, last), NEW n,
         n = [i \in 1..Len(m) |->
                IF i \in (kCheapPrepend + 1)..(kCheapPrepend + (last - first))
                THEN m[r + i - kCheapPrepend]
                ELSE m[i]]
  PROVE  /\ Held(n, kCheapPrepend, kCheapPrepend + (last - first), first, last)
         /\ Len(n) = Len(m)
<1> USE BufferAssumption
<1>1. Len(m) \in Nat /\ \A i \in 1..Len(m) : m[i] \in 0..MaxBytes
  BY SeqElements DEF Held
<1>2. ASSUME NEW i \in 1..Len(m) PROVE n[i] \in 0..MaxBytes
  <2>1. CASE i \in (kCheapPrepend + 1)..(kCheapPrepend + (last - first))
    <3>1. r + i - kCheapPrepend \in 1..Len(m)
      BY <1>1, <2>1 DEF Held
    <3> QED
      BY <1>1, <2>1, <3>1
  <2>2. CASE i \notin (kCheapPrepend + 1)..(kCheapPrepend + (last - first))
    BY <1>1, <2>2
  <2> QED
    BY <2>1, <2>2
<1>3. n \in Seq(0..MaxBytes) /\ Len(n) = Len(m)
  BY <1>1, <1>2
<1>4. ASSUME NEW i \in 1..(last - first) PROVE n[kCheapPrepend + i] = first + i
  <2>1. /\ kCheapPrepend + i \in 1..Len(m)
        /\ kCheapPrepend + i \in (kCheapPrepend + 1)..(kCheapPrepend + (last - first))
        /\ r + (kCheapPrepend + i) - kCheapPrepend = r + i
    BY <1>1 DEF Held
  <2>2. n[kCheapPrepend + i] = m[r + i]
    BY <2>1
  <2> QED
    BY <2>2 DEF Held
<1>5. /\ kCheapPrepend + (last - first) \in Nat
      /\ kCheapPrepend + (last - first) <= Len(n)
      /\ kCheapPrepend <= kCheapPrepend
      /\ first <= last
  BY <1>1, <1>3 DEF Held
<1> QED
  BY <1>3, <1>4, <1>5, Zenon DEF Held

\* The vector may grow.
LEMMA ResizedHeld ==
  ASSUME NEW m, NEW r, NEW w, NEW first \in Nat, NEW last \in Nat,
         Held(m, r, w, first, last), NEW k \in Nat, w <= k, NEW n,
         n = [i \in 1..k |-> IF i <= Len(m) THEN m[i] ELSE 0]
  PROVE  Held(n, r, w, first, last) /\ Len(n) = k
<1> USE BufferAssumption
<1>1. Len(m) \in Nat /\ \A i \in 1..Len(m) : m[i] \in 0..MaxBytes
  BY SeqElements DEF Held
<1>2. \A i \in 1..k : n[i] \in 0..MaxBytes
  BY <1>1
<1>3. n \in Seq(0..MaxBytes) /\ Len(n) = k
  BY <1>2
<1>4. ASSUME NEW i \in 1..(last - first) PROVE n[r + i] = first + i
  <2>1. r + i \in 1..k /\ r + i <= Len(m)
    BY <1>1 DEF Held
  <2> QED
    BY <2>1 DEF Held
<1> QED
  BY <1>3, <1>4 DEF Held

\* New bytes go behind the unread ones.
LEMMA CopiedHeld ==
  ASSUME NEW m, NEW r, NEW w, NEW first \in Nat, NEW last \in Nat,
         Held(m, r, w, first, last), NEW len \in Nat, w + len <= Len(m),
         last + len <= MaxBytes, NEW n,
         n = [i \in 1..Len(m) |-> IF i \in (w + 1)..(w + len) THEN last + i - w
                                                              ELSE m[i]]
  PROVE  Held(n, r, w + len, first, last + len) /\ Len(n) = Len(m)
<1> USE BufferAssumption
<1>1. Len(m) \in Nat /\ \A i \in 1..Len(m) : m[i] \in 0..MaxBytes
  BY SeqElements DEF Held
<1>2. ASSUME NEW i \in 1..Len(m) PROVE n[i] \in 0..MaxBytes
  <2>1. CASE i \in (w + 1)..(w + len)
    <3>1. last + i - w \in 0..MaxBytes
      BY <2>1 DEF Held
    <3> QED
      BY <2>1, <3>1
  <2>2. CASE i \notin (w + 1)..(w + len)
    BY <1>1, <2>2
  <2> QED
    BY <2>1, <2>2
<1>3. n \in Seq(0..MaxBytes) /\ Len(n) = Len(m)
  BY <1>1, <1>2
<1> DEFINE v == w + len
           l == last + len
<1>4. ASSUME NEW i \in 1..(l - first) PROVE n[r + i] = first + i
  <2>1. r + i \in 1..Len(m)
    BY <1>1 DEF Held
  <2>2. CASE i <= last - first
    <3>1. r + i \notin (w + 1)..(w + len) /\ i \in 1..(last - first)
      BY <2>2 DEF Held
    <3> QED
      BY <2>1, <3>1 DEF Held
  <2>3. CASE i > last - first
    <3>1. r + i \in (w + 1)..(w + len) /\ last + (r + i) - w = first + i
      BY <2>3 DEF Held
    <3> QED
      BY <2>1, <3>1
  <2> QED
    BY <2>2, <2>3
<1>5. /\ v \in Nat
      /\ v = r + (l - first)
      /\ first <= l
      /\ r \in Nat /\ kCheapPrepend <= r
      /\ v <= Len(n)
  BY <1>3 DEF Held
<1> HIDE DEF v, l
<1>6. Held(n, r, v, first, l)
  BY <1>3, <1>4, <1>5, Zenon DEF Held
<1> QED
  BY <1>3, <1>6 DEF v, l

-----------------------------------------------------------------------------
(* The methods *)

\* The components and sizes of an object.
LEMMA ObjectSizes ==
  ASSUME NEW m, NEW r, NEW w, NEW first \in Nat, NEW last \in Nat,
         Held(m, r, w, first, last), NEW b, b = Object(m, r, w)
  PROVE  /\ b.buffer_ = m /\ b.readerIndex_ = r /\ b.writeIndex_ = w
         /\ Size(b) = Len(m) /\ Len(m) \in Nat
         /\ ReadableBytes(b) = last - first
         /\ WritableBytes(b) = Len(m) - r /\ WritableBytes(b) \in Nat
         /\ PrependableBytes(b) = r
<1>1. b.buffer_ = m /\ b.readerIndex_ = r /\ b.writeIndex_ = w
  BY DEF Object
<1>2. Len(m) \in Nat
  BY SeqElements DEF Held
<1>3. w - r = last - first /\ Len(m) - r \in Nat
  BY <1>2, BufferAssumption DEF Held
<1> QED
  BY <1>1, <1>2, <1>3 DEF Size, ReadableBytes, WritableBytes, PrependableBytes

\* retrieve() takes the oldest bytes away.
LEMMA RetrieveGood ==
  ASSUME NEW b, NEW first \in Nat, NEW last \in Nat, Good(b, first, last),
         NEW len \in Nat
  PROVE  Good(Retrieve(b, len),
              IF len < ReadableBytes(b) THEN first + len ELSE last, last)
<1> USE BufferAssumption
<1>1. PICK m, r, w : b = Object(m, r, w) /\ Held(m, r, w, first, last)
  BY DEF Good
<1>2. ReadableBytes(b) = last - first /\ Len(m) \in Nat
  BY <1>1, ObjectSizes
<1>3. CASE len < ReadableBytes(b)
  <2>1. Retrieve(b, len) = Object(m, r + len, w)
    BY <1>1, <1>3 DEF Retrieve, Object
  <2>2. ASSUME NEW i \in 1..(last - (first + len)) PROVE m[(r + len) + i] = (first + len) + i
    <3>1. len + i \in 1..(last - first) /\ r + (len + i) = (r + len) + i
      BY <1>1 DEF Held
    <3>2. m[r + (len + i)] = first + (len + i)
      BY <1>1, <3>1 DEF Held
    <3> QED
      BY <3>1, <3>2
  <2>3. /\ m \in Seq(0..MaxBytes)
        /\ r + len \in Nat /\ w \in Nat /\ kCheapPrepend <= r + len
        /\ w = (r + len) + (last - (first + len))
        /\ first + len <= last
        /\ w <= Len(m)
    BY <1>1, <1>2, <1>3 DEF Held
  <2>4. Held(m, r + len, w, first + len, last)
    BY <2>2, <2>3, Zenon DEF Held
  <2> QED
    BY <1>3, <2>1, <2>4 DEF Good
<1>4. CASE ~(len < ReadableBytes(b))
  <2>1. Retrieve(b, len) = Object(m, kCheapPrepend, kCheapPrepend)
    BY <1>1, <1>4 DEF Retrieve, RetrieveAll, Object
  <2>2. /\ m \in Seq(0..MaxBytes)
        /\ kCheapPrepend <= kCheapPrepend
        /\ kCheapPrepend = kCheapPrepend + (last - last)
        /\ last <= last
        /\ kCheapPrepend <= Len(m)
        /\ \A i \in 1..(last - last) : m[kCheapPrepend + i] = last + i
    BY <1>1, <1>2 DEF Held
  <2>3. Held(m, kCheapPrepend, kCheapPrepend, last, last)
    BY <2>2, Zenon DEF Held
  <2> QED
    BY <1>4, <2>1, <2>3 DEF Good
<1> QED
  BY <1>3, <1>4

\* ensureWriteableBytes() keeps the readable bytes.
LEMMA EnsureGood ==
  ASSUME NEW b, NEW first \in Nat, NEW last \in Nat, Good(b, first, last),
         NEW len \in Nat
  PROVE  Good(EnsureWriteableBytes(b, len), first, last)
<1> USE BufferAssumption
<1>1. PICK m, r, w : b = Object(m, r, w) /\ Held(m, r, w, first, last)
  BY DEF Good
<1>2. /\ b.buffer_ = m /\ b.readerIndex_ = r /\ b.writeIndex_ = w
      /\ ReadableBytes(b) = last - first /\ Size(b) = Len(m)
  BY <1>1, ObjectSizes
<1>3. Good(Moved(b), first, last)
  <2> DEFINE n == [i \in 1..Len(m) |->
                     IF i \in (kCheapPrepend + 1)..(kCheapPrepend + (last - first))
                     THEN m[r + i - kCheapPrepend]
                     ELSE m[i]]
  <2>1. Moved(b) = Object(n, kCheapPrepend, kCheapPrepend + (last - first))
    BY <1>2 DEF Moved, Object
  <2>2. Held(n, kCheapPrepend, kCheapPrepend + (last - first), first, last)
    BY <1>1, MovedHeld
  <2> HIDE DEF n
  <2> QED
    BY <2>1, <2>2 DEF Good
<1>4. Good(Resized(b, b.writeIndex_ + len), first, last)
  <2> DEFINE n == [i \in 1..(w + len) |-> IF i <= Len(m) THEN m[i] ELSE 0]
  <2>1. Resized(b, b.writeIndex_ + len) = Object(n, r, w)
    <3>1. Resized(b, b.writeIndex_ + len) = [b EXCEPT !.buffer_ = n]
      BY <1>2 DEF Resized
    <3> HIDE DEF n
    <3> QED
      BY <1>1, <3>1 DEF Object
  <2>2. w + len \in Nat /\ w <= w + len
    BY <1>1 DEF Held
  <2>3. Held(n, r, w, first, last)
    BY <1>1, <2>2, ResizedHeld
  <2> HIDE DEF n
  <2> QED
    BY <2>1, <2>3 DEF Good
<1> QED
  BY <1>3, <1>4 DEF EnsureWriteableBytes, MakeSpace

\* Writing what fits adds it.
LEMMA CopiedGood ==
  ASSUME NEW b, NEW first \in Nat, NEW last \in Nat, Good(b, first, last),
         NEW len \in Nat, Fits(b, len), last + len <= MaxBytes
  PROVE  Good([Copied(b, last, len) EXCEPT !.writeIndex_ = @ + len], first, last + len)
<1> USE BufferAssumption
<1>1. PICK m, r, w : b = Object(m, r, w) /\ Held(m, r, w, first, last)
  BY DEF Good
<1>2. b.buffer_ = m /\ b.writeIndex_ = w /\ Size(b) = Len(m)
  BY <1>1, ObjectSizes
<1> DEFINE n == [i \in 1..Len(m) |-> IF i \in (w + 1)..(w + len) THEN last + i - w
                                                                ELSE m[i]]
<1>3. [Copied(b, last, len) EXCEPT !.writeIndex_ = @ + len] = Object(n, r, w + len)
  <2>1. Copied(b, last, len) = [b EXCEPT !.buffer_ = n]
    BY <1>2 DEF Copied
  <2> HIDE DEF n
  <2> QED
    BY <1>1, <2>1 DEF Object
<1>4. Held(n, r, w + len, first, last + len)
  BY <1>1, <1>2, CopiedHeld DEF Fits
<1> HIDE DEF n
<1> QED
  BY <1>3, <1>4 DEF Good

\* append(), if it stays inside the vector, adds its bytes.
LEMMA AppendGood ==
  ASSUME NEW b, NEW first \in Nat, NEW last \in Nat, Good(b, first, last),
         NEW len \in Nat, AppendFits(b, len), last + len <= MaxBytes
  PROVE  Good(AppendTo(b, last, len), first, last + len)
<1>1. Good(EnsureWriteableBytes(b, len), first, last)
  BY EnsureGood
<1>2. Fits(EnsureWriteableBytes(b, len), len)
  BY DEF AppendFits
<1> QED
  BY <1>1, <1>2, CopiedGood DEF AppendTo

\* So does readFd(), with and without the detour through extrabuf.
LEMMA ReadFdGood ==
  ASSUME NEW b, NEW first \in Nat, NEW last \in Nat, Good(b, first, last),
         NEW len \in Nat, ReadFdFits(b, last, len), last + len <= MaxBytes
  PROVE  Good(ReadFdInto(b, last, len), first, last + len)
<1> USE BufferAssumption
<1>1. PICK m, r, w : b = Object(m, r, w) /\ Held(m, r, w, first, last)
  BY DEF Good
<1>2. /\ b.writeIndex_ = w /\ Size(b) = Len(m) /\ Len(m) \in Nat
      /\ WritableBytes(b) = Len(m) - r /\ WritableBytes(b) \in Nat
  BY <1>1, ObjectSizes
<1>3. CASE len <= WritableBytes(b)
  <2>1. Fits(b, len)
    BY <1>3 DEF ReadFdFits, Direct
  <2>2. Good([Copied(b, last, len) EXCEPT !.writeIndex_ = @ + len], first, last + len)
    BY <2>1, CopiedGood
  <2> QED
    BY <1>3, <2>2 DEF ReadFdInto
<1>4. CASE ~(len <= WritableBytes(b))
  <2> DEFINE room == WritableBytes(b)
             rest == len - WritableBytes(b)
  <2>1. rest \in Nat /\ len > room /\ last + room \in Nat
        /\ last + room <= MaxBytes /\ (last + room) + rest = last + len
    BY <1>2, <1>4
  <2>2. Fits(b, room) /\ AppendFits(Full(b, last), rest)
    BY <1>4, <2>1 DEF ReadFdFits, Direct
  <2>3. w + room = Size(b)
    <3>1. r \in Nat /\ w \in Nat /\ r <= w
      BY <1>1 DEF Held
    <3>2. w + room <= Size(b)
      BY <1>2, <2>2 DEF Fits
    <3> QED
      BY <1>2, <3>1, <3>2
  <2>4. Full(b, last) = [Copied(b, last, room) EXCEPT !.writeIndex_ = @ + room]
    <3>1. Copied(b, last, room).writeIndex_ = w
      BY <1>1 DEF Copied, Object
    <3> QED
      BY <2>3, <3>1 DEF Full
  <2>5. Good(Full(b, last), first, last + room)
    BY <1>2, <2>1, <2>2, <2>4, CopiedGood
  <2>6. Good(AppendTo(Full(b, last), last + room, rest), first, (last + room) + rest)
    BY <2>1, <2>2, <2>5, AppendGood
  <2>7. ReadFdInto(b, last, len) = AppendTo(Full(b, last), last + room, rest)
    BY <1>4 DEF ReadFdInto
  <2> QED
    BY <2>1, <2>6, <2>7
<1> QED
  BY <1>3, <1>4

-----------------------------------------------------------------------------
(* The calls *)

\* Inductive: the buffer holds what came in and was not handed out.  The bytes of
\* the call that writes behind the end are counted in put, and the model stops.
BufferInv ==
  /\ overrun \in BOOLEAN /\ put \in Sizes /\ got \in Sizes
  /\ \E last \in Sizes : Good(buf, got, last) /\ (~overrun => last = put)

\* The buffer starts empty, with nothing written and nothing handed out.
LEMMA BufferInvInit == Init => BufferInv
<1> SUFFICES ASSUME Init PROVE BufferInv
  OBVIOUS
<1> USE BufferAssumption
<1> DEFINE n == kCheapPrepend + kInitialSize
           m == [i \in 1..n |-> 0]
<1>1. m \in Seq(0..MaxBytes) /\ Len(m) = n
  OBVIOUS
<1>2. /\ kCheapPrepend <= kCheapPrepend
      /\ kCheapPrepend = kCheapPrepend + (0 - 0)
      /\ 0 <= 0
      /\ kCheapPrepend <= n
      /\ \A i \in 1..(0 - 0) : m[kCheapPrepend + i] = 0 + i
  OBVIOUS
<1>3. buf = Object(m, kCheapPrepend, kCheapPrepend)
  BY DEF Init, NewBuffer, Object
<1>4. 0 \in Sizes
  BY DEF Sizes
<1> HIDE DEF m, n
<1>5. Held(m, kCheapPrepend, kCheapPrepend, 0, 0)
  BY <1>1, <1>2, Zenon DEF Held
<1>6. Good(buf, 0, 0)
  BY <1>3, <1>5 DEF Good
<1> QED
  BY <1>4, <1>6 DEF Init, BufferInv

\* Every call of the buffer preserves the invariant.
LEMMA BufferInvStep == BufferInv /\ [Next]_vars => BufferInv'
<1> SUFFICES ASSUME BufferInv, [Next]_vars PROVE BufferInv'
  OBVIOUS
<1> USE BufferAssumption
<1>1. PICK last \in Sizes : Good(buf, got, last) /\ (~overrun => last = put)
  BY DEF BufferInv
<1>2. put \in Nat /\ got \in Nat /\ last \in Nat /\ overrun \in BOOLEAN
  BY DEF BufferInv, Sizes
<1>3. ASSUME NEW len \in Sizes, AppendBytes(len) PROVE BufferInv'
  <2>1. /\ last = put /\ put + len <= MaxBytes /\ put' = put + len /\ got' = got
        /\ len \in Nat
    BY <1>1, <1>3 DEF AppendBytes, Sizes
  <2>2. put' \in Sizes /\ got' \in Sizes
    BY <1>2, <2>1 DEF Sizes, BufferInv
  <2>3. CASE AppendFits(buf, len)
    <3>1. Good(AppendTo(buf, put, len), got, put + len)
      BY <1>1, <1>2, <2>1, <2>3, AppendGood
    <3>2. buf' = AppendTo(buf, put, len) /\ overrun' = FALSE
      BY <1>3, <2>3 DEF AppendBytes
    <3> QED
      BY <2>1, <2>2, <3>1, <3>2 DEF BufferInv
  <2>4. CASE ~AppendFits(buf, len)
    <3>1. buf' = buf /\ overrun' = TRUE
      BY <1>3, <2>4 DEF AppendBytes
    <3> QED
      BY <1>1, <2>1, <2>2, <3>1 DEF BufferInv
  <2> QED
    BY <2>3, <2>4
<1>4. ASSUME NEW len \in Sizes, ReadBytes(len) PROVE BufferInv'
  <2>1. /\ last = put /\ put + len <= MaxBytes /\ put' = put + len /\ got' = got
        /\ len \in Nat
    BY <1>1, <1>4 DEF ReadBytes, Sizes
  <2>2. put' \in Sizes /\ got' \in Sizes
    BY <1>2, <2>1 DEF Sizes, BufferInv
  <2>3. CASE ReadFdFits(buf, put, len)
    <3>1. Good(ReadFdInto(buf, put, len), got, put + len)
      BY <1>1, <1>2, <2>1, <2>3, ReadFdGood
    <3>2. buf' = ReadFdInto(buf, put, len) /\ overrun' = FALSE
      BY <1>4, <2>3 DEF ReadBytes
    <3> QED
      BY <2>1, <2>2, <3>1, <3>2 DEF BufferInv
  <2>4. CASE ~ReadFdFits(buf, put, len)
    <3>1. buf' = buf /\ overrun' = TRUE
      BY <1>4, <2>4 DEF ReadBytes
    <3> QED
      BY <1>1, <2>1, <2>2, <3>1 DEF BufferInv
  <2> QED
    BY <2>3, <2>4
<1>5. ASSUME NEW len \in Sizes, RetrieveBytes(len) PROVE BufferInv'
  <2>1. /\ ~overrun /\ last = put /\ len \in Nat /\ UNCHANGED <<overrun, put>>
        /\ buf' = Retrieve(buf, len)
        /\ got' = IF len < ReadableBytes(buf) THEN got + len ELSE put
    BY <1>1, <1>5 DEF RetrieveBytes, Sizes
  <2>2. Good(buf', got', put)
    BY <1>1, <1>2, <2>1, RetrieveGood
  <2>3. got' \in Sizes
    <3>1. PICK m, r, w : buf = Object(m, r, w) /\ Held(m, r, w, got, put)
      BY <1>1, <2>1 DEF Good
    <3>2. ReadableBytes(buf) = put - got
      BY <1>2, <3>1, ObjectSizes
    <3>3. put <= MaxBytes
      BY DEF BufferInv, Sizes
    <3> QED
      BY <1>2, <2>1, <3>2, <3>3 DEF Sizes
  <2> QED
    BY <2>1, <2>2, <2>3 DEF BufferInv
<1>6. CASE UNCHANGED vars
  BY <1>6 DEF vars, BufferInv
<1> QED
  BY <1>3, <1>4, <1>5, <1>6 DEF Next

\* The type invariant, IndexOrder and ReadableIsFifo follow from BufferInv.
LEMMA BufferInvMeans == BufferInv => TypeOK /\ IndexOrder /\ ReadableIsFifo
<1> SUFFICES ASSUME BufferInv PROVE TypeOK /\ IndexOrder /\ ReadableIsFifo
  OBVIOUS
<1> USE BufferAssumption
<1>1. PICK last \in Sizes : Good(buf, got, last) /\ (~overrun => last = put)
  BY DEF BufferInv
<1>2. got \in Nat /\ last \in Nat
  BY DEF BufferInv, Sizes
<1>3. PICK m, r, w : buf = Object(m, r, w) /\ Held(m, r, w, got, last)
  BY <1>1 DEF Good
<1>4. /\ buf.buffer_ = m /\ buf.readerIndex_ = r /\ buf.writeIndex_ = w
      /\ ReadableBytes(buf) = last - got /\ Size(buf) = Len(m)
  BY <1>2, <1>3, ObjectSizes
<1>5. TypeOK
  BY <1>3 DEF Held, Object, TypeOK, BufferInv
<1>6. IndexOrder
  <2>1. kCheapPrepend <= r /\ r <= w /\ w <= Len(m)
    BY <1>2, <1>3 DEF Held
  <2> QED
    BY <1>4, <2>1 DEF IndexOrder
<1>7. ReadableIsFifo
  BY <1>1, <1>3, <1>4 DEF Held, ReadableIsFifo
<1> QED
  BY <1>5, <1>6, <1>7

\* TypeOK is an invariant of Buffer.
THEOREM BufferTypeCorrect == SafeSpec => []TypeOK
BY BufferInvInit, BufferInvStep, BufferInvMeans, PTL DEF SafeSpec

\* IndexOrder is an invariant of Buffer: no sequence of calls lets the indices
\* cross or leave the vector, short of the call that overruns it.
THEOREM IndicesStayOrdered == SafeSpec => []IndexOrder
BY BufferInvInit, BufferInvStep, BufferInvMeans, PTL DEF SafeSpec

\* ReadableIsFifo is an invariant of Buffer: until then, no byte is lost, doubled
\* or swapped, however the vector is moved and grown.
THEOREM BytesInOrder == SafeSpec => []ReadableIsFifo
BY BufferInvInit, BufferInvStep, BufferInvMeans, PTL DEF SafeSpec

\* DrainedBufferIsSafe: with nothing unread, ensureWriteableBytes() makes room and
\* readFd() cannot leave the vector unless it needs extrabuf.
THEOREM DrainedIsSafe == SafeSpec => DrainedBufferIsSafe
<1> DEFINE Safe == \A len \in Sizes :
                     (/\ ReadableBytes(buf) = 0
                      /\ AppendBytes(len) \/ (ReadBytes(len) /\ Fits(buf, len)))
                     => ~overrun'
<1>1. BufferInv => Safe
  <2> SUFFICES ASSUME BufferInv, NEW len \in Sizes, ReadableBytes(buf) = 0,
                      AppendBytes(len) \/ (ReadBytes(len) /\ Fits(buf, len))
               PROVE  ~overrun'
    OBVIOUS
  <2> USE BufferAssumption
  <2>1. PICK last \in Sizes : Good(buf, got, last)
    BY DEF BufferInv
  <2>2. got \in Nat /\ last \in Nat /\ len \in Nat
    BY DEF BufferInv, Sizes
  <2>3. PICK m, r, w : buf = Object(m, r, w) /\ Held(m, r, w, got, last)
    BY <2>1 DEF Good
  <2>4. /\ buf.writeIndex_ = w /\ Size(buf) = Len(m) /\ Len(m) \in Nat
        /\ WritableBytes(buf) = Len(m) - r /\ PrependableBytes(buf) = r
        /\ ReadableBytes(buf) = last - got
    BY <2>2, <2>3, ObjectSizes
  <2>5. w = r /\ r \in Nat /\ last = got
    BY <2>2, <2>3, <2>4 DEF Held
  <2>6. AppendFits(buf, len)
    <3>1. CASE len <= Len(m) - r
      <4>1. EnsureWriteableBytes(buf, len) = buf
        BY <2>2, <2>4, <2>5, <3>1 DEF EnsureWriteableBytes
      <4>2. buf.writeIndex_ + len <= Size(buf)
        BY <2>2, <2>4, <2>5, <3>1
      <4> QED
        BY <4>1, <4>2 DEF AppendFits, Fits
    <3>2. CASE ~(len <= Len(m) - r) /\ Len(m) < len + kCheapPrepend
      <4>1. EnsureWriteableBytes(buf, len) = Resized(buf, w + len)
        BY <2>2, <2>3, <2>4, <2>5, <3>2 DEF EnsureWriteableBytes, MakeSpace
      <4>2. /\ Resized(buf, w + len).writeIndex_ = w
            /\ Size(Resized(buf, w + len)) = w + len
        BY <2>2, <2>3, <2>5 DEF Resized, Object, Size
      <4> QED
        BY <2>2, <2>5, <4>1, <4>2 DEF AppendFits, Fits
    <3>3. CASE ~(len <= Len(m) - r) /\ ~(Len(m) < len + kCheapPrepend)
      <4>1. EnsureWriteableBytes(buf, len) = Moved(buf)
        BY <2>2, <2>3, <2>4, <2>5, <3>3 DEF EnsureWriteableBytes, MakeSpace
      <4>2. Moved(buf).writeIndex_ = kCheapPrepend /\ Size(Moved(buf)) = Len(m)
        BY <2>4 DEF Moved, Size
      <4> QED
        BY <2>2, <2>4, <3>3, <4>1, <4>2 DEF AppendFits, Fits
    <3> QED
      BY <3>1, <3>2, <3>3
  <2>7. ASSUME ReadBytes(len), Fits(buf, len) PROVE ~overrun'
    <3>1. len <= WritableBytes(buf)
      BY <2>2, <2>4, <2>5, <2>7 DEF Fits
    <3>2. ReadFdFits(buf, put, len)
      BY <2>2, <2>4, <2>5, <2>7, <3>1 DEF ReadFdFits, Direct
    <3> QED
      BY <2>7, <3>2 DEF ReadBytes
  <2> QED
    BY <2>6, <2>7 DEF AppendBytes
<1> QED
  BY <1>1, BufferInvInit, BufferInvStep, PTL DEF SafeSpec, DrainedBufferIsSafe

=============================================================================
