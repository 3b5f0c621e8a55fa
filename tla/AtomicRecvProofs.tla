---------------------------- MODULE AtomicRecvProofs ----------------------------
(***************************************************************************)
(* Theorems about AtomicRecv, for every buffer size, every number of bytes *)
(* and every number of crashes.                                            *)
(***************************************************************************)
EXTENDS AtomicRecv, AtomicBufferProofs

(* What holds of the buffer even after a transformation ran over an        *)
(* unfinished transaction: a range may then be longer than the array.      *)
LooseRanges == [start : Index, len : Nat, shutdown : BOOLEAN]

LooseBuffers ==
  [state : TransactionStates, bit : 0 .. 1, msgLen : (0 .. BufSize) \cup {Sentinel},
   active : 0 .. 1, range : [0 .. 1 -> LooseRanges], buf : [Index -> Byte]]

(* Where the worker is agrees with the transaction's state and result.     *)
Swapping == {"restore", "extend", "flip", "finish"}

Control ==
  /\ rx \in LooseBuffers
  /\ consumed = [i \in 1 .. Len(consumed) |-> consumed[i]]
  /\ pc \in {"prepare", "begin"} => rx.state = "INIT"
  /\ pc = "begin" => NotYetCalled(rx)
  /\ pc = "syscall" => rx.state = "DO_SYSCALL"
  /\ pc = "store" => ResultPending
  /\ pc \in Swapping => SwapPending
  /\ SwapPending => ~NotYetCalled(rx)
  /\ pc = "idle" /\ crashes = 0 => ~SwapPending /\ ~ResultPending

OnlyCrashesClobber == clobbered => crashes > 0

(* A stored end of the stream is the end. *)
StoredEof == rx.state = "DO_SYSCALL" /\ rx.msgLen = 0 => fin /\ taken = arrived

(* As long as no unfinished transaction was run over: the ranges agree     *)
(* with the place of the worker, and a pending result fits behind the      *)
(* range that it belongs to.                                               *)
Coherent ==
  ~clobbered =>
    /\ consumed \in Seq(Byte)
    /\ pc \in {"extend", "flip"} => rx.active = 1 - rx.bit
    /\ pc = "flip" => InactiveRange(rx) = RecvResult(rx)
    /\ pc = "finish" => /\ rx.active = rx.bit
                       /\ ActiveRange(rx) = Extend(rx.range[1 - rx.bit], rx.msgLen)
    /\ Origin.len + Extra <= BufSize

-------------------------------------------------------------------------------
LEMMA LooseFields ==
  ASSUME NEW b \in LooseBuffers
  PROVE  /\ b.state \in TransactionStates /\ b.bit \in 0 .. 1
         /\ b.msgLen \in (0 .. BufSize) \cup {Sentinel}
         /\ b.active \in 0 .. 1 /\ 1 - b.active \in 0 .. 1 /\ 1 - b.bit \in 0 .. 1
         /\ ActiveRange(b) \in LooseRanges /\ InactiveRange(b) \in LooseRanges
         /\ b.buf \in [Index -> Byte]
<1>1. /\ b.bit \in 0 .. 1 /\ b.active \in 0 .. 1 /\ b.range \in [0 .. 1 -> LooseRanges]
  BY DEF LooseBuffers
<1>2. 1 - b.active \in 0 .. 1 /\ 1 - b.bit \in 0 .. 1
  BY <1>1, SMT
<1> QED BY <1>1, <1>2 DEF LooseBuffers, ActiveRange, InactiveRange

LEMMA TightIsLoose == AtomicBuffers(Byte) \subseteq LooseBuffers
<1>1. Ranges \subseteq LooseRanges
  BY BufSizeAssumption, SMT DEF Ranges, LooseRanges
<1>2. [0 .. 1 -> Ranges] \subseteq [0 .. 1 -> LooseRanges]
  BY <1>1
<1> QED BY <1>2 DEF AtomicBuffers, LooseBuffers

(* The stores of a transaction keep the loose type and touch nothing else. *)
LEMMA LooseStores ==
  ASSUME NEW b \in LooseBuffers
  PROVE  /\ Prepared(b) \in LooseBuffers /\ Prepared(b).state = b.state
         /\ Prepared(b).msgLen = Sentinel
         /\ Begun(b) \in LooseBuffers /\ Begun(b).state = "DO_SYSCALL"
         /\ Begun(b).msgLen = b.msgLen
         /\ RecvSwap(b) \in LooseBuffers /\ RecvSwap(b).state = "SWAP"
         /\ RecvSwap(b).msgLen = b.msgLen
         /\ RecvRestored(b) \in LooseBuffers /\ RecvRestored(b).state = b.state
         /\ RecvRestored(b).msgLen = b.msgLen
         /\ Flipped(b) \in LooseBuffers /\ Flipped(b).state = b.state
         /\ Flipped(b).msgLen = b.msgLen
         /\ Finished(b) \in LooseBuffers /\ Finished(b).state = "INIT"
<1>0. 0 \in 0 .. 1
  OBVIOUS
<1> USE <1>0, LooseFields DEF LooseBuffers
<1>1. /\ Prepared(b) \in LooseBuffers /\ Prepared(b).state = b.state
      /\ Prepared(b).msgLen = Sentinel
  BY DEF Prepared
<1>2. /\ Begun(b) \in LooseBuffers /\ Begun(b).state = "DO_SYSCALL"
      /\ Begun(b).msgLen = b.msgLen
  BY DEF Begun, TransactionStates
<1>3. /\ RecvSwap(b) \in LooseBuffers /\ RecvSwap(b).state = "SWAP"
      /\ RecvSwap(b).msgLen = b.msgLen
  BY DEF RecvSwap, TransactionStates
<1>4. /\ RecvRestored(b) \in LooseBuffers /\ RecvRestored(b).state = b.state
      /\ RecvRestored(b).msgLen = b.msgLen
  BY DEF RecvRestored
<1>5. /\ Flipped(b) \in LooseBuffers /\ Flipped(b).state = b.state
      /\ Flipped(b).msgLen = b.msgLen
  BY DEF Flipped
<1>6. Finished(b) \in LooseBuffers /\ Finished(b).state = "INIT"
  BY DEF Finished, TransactionStates
<1> QED BY <1>1, <1>2, <1>3, <1>4, <1>5, <1>6

LEMMA LooseRangeStores ==
  ASSUME NEW b \in LooseBuffers, NEW r \in LooseRanges
  PROVE  /\ WithInactive(b, r) \in LooseBuffers
         /\ WithInactive(b, r).state = b.state /\ WithInactive(b, r).msgLen = b.msgLen
         /\ WithInactive(b, r).active = b.active
         /\ WithActive(b, r) \in LooseBuffers
         /\ WithActive(b, r).state = b.state /\ WithActive(b, r).msgLen = b.msgLen
         /\ ActiveRange(WithActive(b, r)) = r
         /\ WithActive(b, r).buf = b.buf
<1>1. /\ b.active \in 0 .. 1 /\ 1 - b.active \in 0 .. 1 /\ b.range \in [0 .. 1 -> LooseRanges]
  BY LooseFields DEF LooseBuffers
<1>2. ASSUME NEW k \in 0 .. 1
      PROVE  /\ [b EXCEPT !.range[k] = r] \in LooseBuffers
             /\ [b EXCEPT !.range[k] = r].state = b.state
             /\ [b EXCEPT !.range[k] = r].msgLen = b.msgLen
             /\ [b EXCEPT !.range[k] = r].active = b.active
             /\ [b EXCEPT !.range[k] = r].buf = b.buf
             /\ [b EXCEPT !.range[k] = r].range[k] = r
  <2> DEFINE ran == [b.range EXCEPT ![k] = r]
  <2>1. ran \in [0 .. 1 -> LooseRanges] /\ ran[k] = r
    BY <1>1
  <2> HIDE DEF ran
  <2>2. /\ [b EXCEPT !.range = ran] \in LooseBuffers
        /\ [b EXCEPT !.range = ran].state = b.state
        /\ [b EXCEPT !.range = ran].msgLen = b.msgLen
        /\ [b EXCEPT !.range = ran].active = b.active
        /\ [b EXCEPT !.range = ran].buf = b.buf
        /\ [b EXCEPT !.range = ran].range = ran
    BY <2>1 DEF LooseBuffers
  <2> QED BY <2>1, <2>2 DEF ran
<1> QED BY <1>1, <1>2 DEF WithInactive, WithActive, ActiveRange

LEMMA LooseRangeTypes ==
  ASSUME NEW r \in LooseRanges, NEW n \in Nat
  PROVE  /\ Rewound(r) \in LooseRanges
         /\ Ltrim(r, n) \in LooseRanges
         /\ Extend(r, n) \in LooseRanges
<1>1. 0 \in Index /\ 0 \in Nat
  BY BufSizeAssumption, SMT DEF Index
<1>2. Rewound(r) \in LooseRanges
  BY <1>1 DEF Rewound, LooseRanges
<1>3. Extend(r, n) \in LooseRanges
  <2>1. r.len + n \in Nat
    BY SMT DEF LooseRanges
  <2> QED BY <2>1 DEF Extend, LooseRanges
<1>4. Ltrim(r, n) \in LooseRanges
  <2>1. CASE n >= r.len
    BY <1>1, <2>1 DEF Ltrim, LooseRanges
  <2>2. CASE ~(n >= r.len)
    <3>1. r.len - n \in Nat /\ (r.start + n) % BufSize \in Index
      BY <2>2, BufSizeAssumption, SMT DEF LooseRanges, Index
    <3> QED BY <2>2, <3>1 DEF Ltrim, LooseRanges
  <2> QED BY <2>1, <2>2
<1> QED BY <1>2, <1>3, <1>4

LEMMA LooseOffsets ==
  ASSUME NEW r \in LooseRanges, NEW p \in Index
  PROVE  Offset(IovecUnused(r), p) \in Nat
<1> DEFINE q == Rewound(r)
<1>1. q \in LooseRanges
  BY LooseRangeTypes
<1> HIDE DEF q
<1>2. IovecUnused(r) = IF q.start = 0 THEN << Segment(q.len, BufSize - q.len) >>
                       ELSE IF End(q) >= BufSize
                       THEN << Segment(End(q) - BufSize, q.start - (End(q) - BufSize)) >>
                       ELSE << Segment(End(q), BufSize - End(q)), Segment(0, q.start) >>
  BY DEF IovecUnused, q
<1> QED BY <1>1, <1>2, BufSizeAssumption, SMT
        DEF Offset, Within, Segment, End, LooseRanges, Index

LEMMA NumberedType ==
  ASSUME NEW k \in Nat, NEW n \in Nat, k + n <= MaxBytes
  PROVE  /\ Numbered(k, n) \in Seq(Byte)
         /\ Len(Numbered(k, n)) = n
         /\ \A i \in 1 .. n : Numbered(k, n)[i] = k + i
<1>1. \A i \in 1 .. n : k + i \in Byte
  BY BoundsAssumption, SMT DEF Byte
<1>2. Numbered(k, n) \in [1 .. n -> Byte]
  BY <1>1 DEF Numbered
<1> QED BY <1>2, SMT DEF Numbered

(* recvmmsg's result keeps the loose type of the buffer. *)
LEMMA LooseReceived ==
  ASSUME NEW b \in LooseBuffers, NEW data \in Seq(Byte), Len(data) <= BufSize
  PROVE  /\ RecvPrepared(b) \in LooseBuffers
         /\ RecvPrepared(b).state = b.state /\ RecvPrepared(b).msgLen = b.msgLen
         /\ RecvDone(RecvPrepared(b), data) \in LooseBuffers
         /\ RecvDone(RecvPrepared(b), data).state = b.state
         /\ RecvDone(RecvPrepared(b), data).msgLen = Len(data)
<1> DEFINE c == RecvPrepared(b)
<1>1. /\ c \in LooseBuffers /\ c.state = b.state /\ c.msgLen = b.msgLen
  <2>1. Rewound(ActiveRange(b)) \in LooseRanges
    BY LooseFields, LooseRangeTypes
  <2> QED BY <2>1, LooseRangeStores DEF RecvPrepared
<1> HIDE DEF c
<1>2. Scatter(c.buf, RecvTarget(c), data) \in [Index -> Byte]
  <2>1. ActiveRange(c) \in LooseRanges /\ c.buf \in [Index -> Byte]
    BY <1>1, LooseFields
  <2>2. \A p \in Index : Offset(RecvTarget(c), p) \in Nat
    BY <2>1, LooseOffsets DEF RecvTarget
  <2> QED BY <2>1, <2>2, ScatterType
<1>3. Len(data) \in (0 .. BufSize) \cup {Sentinel}
  BY LenProperties, BufSizeAssumption, SMT
<1> DEFINE f == Scatter(c.buf, RecvTarget(c), data)
<1> DEFINE n == Len(data)
           e == [c EXCEPT !.msgLen = n, !.buf = f]
<1>4. RecvDone(c, data) = e
  BY DEF RecvDone
<1>5. f \in [Index -> Byte] /\ n \in (0 .. BufSize) \cup {Sentinel}
  BY <1>2, <1>3
<1> HIDE DEF f, n
<1>6. e \in LooseBuffers /\ e.state = c.state /\ e.msgLen = n
  BY <1>1, <1>5 DEF LooseBuffers
<1> HIDE DEF e
<1> QED BY <1>1, <1>4, <1>6 DEF c, n

-------------------------------------------------------------------------------
LEMMA ControlInit == Init => Control /\ OnlyCrashesClobber /\ StoredEof
<1> SUFFICES ASSUME Init PROVE Control /\ OnlyCrashesClobber /\ StoredEof
  OBVIOUS
<1>1. 0 \in Byte
  BY BoundsAssumption, SMT DEF Byte
<1>2. rx \in LooseBuffers
  BY <1>1, NewBufferType, TightIsLoose DEF Init
<1>3. consumed = [i \in 1 .. Len(consumed) |-> consumed[i]]
  BY SMT DEF Init
<1>4. rx.state = "INIT" /\ pc = "idle" /\ ~clobbered
  BY DEF Init, NewBuffer
<1> QED BY <1>2, <1>3, <1>4
        DEF Control, OnlyCrashesClobber, StoredEof, SwapPending, ResultPending, Swapping

(* What the transformation takes lengthens what it has taken. *)
LEMMA Lengthened ==
  ASSUME NEW s, NEW t, NEW n \in Nat, Len(s) \in Nat,
         s = [i \in 1 .. Len(s) |-> s[i]], t = [i \in 1 .. n |-> t[i]]
  PROVE  /\ s \o t = [i \in 1 .. Len(s \o t) |-> (s \o t)[i]]
         /\ Len(s \o t) = Len(s) + n
<1> DEFINE S == {s[i] : i \in 1 .. Len(s)} \cup {t[i] : i \in 1 .. n}
           m == Len(s)
<1>1. s \in [1 .. m -> S] /\ t \in [1 .. n -> S]
  OBVIOUS
<1> HIDE DEF S, m
<1>2. m \in Nat
  BY DEF m
<1>3. s \in Seq(S) /\ t \in Seq(S) /\ Len(t) = n
  BY <1>1, <1>2, SMT
<1>4. s \o t \in Seq(S) /\ Len(s \o t) = Len(s) + n
  BY <1>3, ConcatProperties
<1> QED BY <1>4, SeqDef, LenProperties

LEMMA GatherLoose ==
  ASSUME NEW buf, NEW iov, NEW n \in 1 .. BufSize
  PROVE  LET g == Gather(buf, iov, n) IN g = [i \in 1 .. n |-> g[i]]
BY BufSizeAssumption, SMT DEF Gather

(* Every step keeps the types that do not depend on the ranges, and the    *)
(* agreement of the worker's place with the transaction's state.           *)
LEMMA ControlStep ==
  TypeOK /\ Control /\ OnlyCrashesClobber /\ [Next]_vars => Control' /\ OnlyCrashesClobber'
<1> SUFFICES ASSUME TypeOK, Control, OnlyCrashesClobber, [Next]_vars
             PROVE  Control' /\ OnlyCrashesClobber'
  OBVIOUS
<1> USE DEF Control, OnlyCrashesClobber, SwapPending, ResultPending, Swapping, NotYetCalled,
            Goto, Kernel, Rest
<1>0. /\ rx \in LooseBuffers
      /\ rx.state \in TransactionStates /\ rx.bit \in 0 .. 1
      /\ rx.msgLen \in (0 .. BufSize) \cup {Sentinel}
      /\ rx.active \in 0 .. 1 /\ 1 - rx.active \in 0 .. 1 /\ 1 - rx.bit \in 0 .. 1
      /\ ActiveRange(rx) \in LooseRanges /\ InactiveRange(rx) \in LooseRanges
      /\ pc \in PC /\ crashes \in Nat /\ 0 \in 0 .. 1
  BY LooseFields, BoundsAssumption DEF TypeOK
<1>1. CASE Call
  BY <1>1, <1>0 DEF Call, Entry, TransactionStates
<1>2. CASE Prepare
  <2>1. rx' \in LooseBuffers /\ rx'.state = rx.state /\ rx'.msgLen = Sentinel
    BY <1>2, <1>0, LooseStores DEF Prepare
  <2> QED BY <1>2, <2>1 DEF Prepare
<1>3. CASE Begin
  <2>1. rx' \in LooseBuffers /\ rx'.state = "DO_SYSCALL" /\ rx'.msgLen = rx.msgLen
    BY <1>3, <1>0, LooseStores DEF Begin
  <2> QED BY <1>3, <2>1 DEF Begin
<1>4. CASE StoreSwap
  <2>1. rx' \in LooseBuffers /\ rx'.state = "SWAP" /\ rx'.msgLen = rx.msgLen
    BY <1>4, <1>0, LooseStores DEF StoreSwap
  <2> QED BY <1>4, <2>1 DEF StoreSwap
<1>5. CASE Restore
  <2>1. rx' \in LooseBuffers /\ rx'.state = rx.state /\ rx'.msgLen = rx.msgLen
    BY <1>5, <1>0, LooseStores DEF Restore
  <2> QED BY <1>5, <2>1 DEF Restore
<1>6. CASE CopyExtended
  <2>1. rx.msgLen \in Nat
    BY <1>6, <1>0, BufSizeAssumption, SMT DEF CopyExtended
  <2>2. RecvResult(rx) \in LooseRanges
    BY <1>0, <2>1, LooseRangeTypes DEF RecvResult
  <2>3. rx' \in LooseBuffers /\ rx'.state = rx.state /\ rx'.msgLen = rx.msgLen
    BY <1>6, <1>0, <2>2, LooseRangeStores DEF CopyExtended
  <2> QED BY <1>6, <2>3 DEF CopyExtended
<1>7. CASE Tear
  <2>1. rx.msgLen \in Nat
    BY <1>7, <1>0, BufSizeAssumption, SMT DEF Tear
  <2>2. RecvResult(rx) \in LooseRanges
    BY <1>0, <2>1, LooseRangeTypes DEF RecvResult
  <2>3. PICK s \in {ActiveRange(rx).start, InactiveRange(rx).start},
             l \in {RecvResult(rx).len, InactiveRange(rx).len} :
               rx' = WithInactive(rx, [ActiveRange(rx) EXCEPT !.start = s, !.len = l])
    BY <1>7 DEF Tear
  <2>4. [ActiveRange(rx) EXCEPT !.start = s, !.len = l] \in LooseRanges
    BY <1>0, <2>2 DEF LooseRanges
  <2>5. rx' \in LooseBuffers /\ rx'.state = rx.state /\ rx'.msgLen = rx.msgLen
    BY <1>0, <2>3, <2>4, LooseRangeStores
  <2> QED BY <1>7, <2>5 DEF Tear
<1>8. CASE Flip
  <2>1. rx' \in LooseBuffers /\ rx'.state = rx.state /\ rx'.msgLen = rx.msgLen
    BY <1>8, <1>0, LooseStores DEF Flip
  <2> QED BY <1>8, <2>1 DEF Flip
<1>9. CASE Finish \/ ReturnEof
  <2>1. rx' \in LooseBuffers /\ rx'.state = "INIT"
    BY <1>9, <1>0, LooseStores DEF Finish, ReturnEof
  <2> QED BY <1>9, <2>1 DEF Finish, ReturnEof
<1>10. ASSUME NEW n \in 1 .. BufSize, Recvmmsg(n)
       PROVE  Control' /\ OnlyCrashesClobber'
  <2>1. /\ n \in Nat /\ taken \in Nat /\ taken + n <= MaxBytes /\ n <= BufSize
    BY <1>10, BoundsAssumption, BufSizeAssumption, SMT DEF Recvmmsg, TypeOK
  <2>2. Numbered(taken, n) \in Seq(Byte) /\ Len(Numbered(taken, n)) = n
    BY <2>1, NumberedType
  <2>3. rx' \in LooseBuffers /\ rx'.state = rx.state /\ rx'.msgLen = n
    BY <1>10, <1>0, <2>1, <2>2, LooseReceived DEF Recvmmsg
  <2>4. n # Sentinel
    BY <2>1, SMT DEF Sentinel
  <2> QED BY <1>10, <2>3, <2>4 DEF Recvmmsg
<1>11. CASE RecvmmsgEof
  <2>1. <<>> \in Seq(Byte) /\ Len(<<>>) = 0 /\ Len(<<>>) <= BufSize /\ 0 # Sentinel
    BY BufSizeAssumption, EmptySeq, SMT DEF Sentinel
  <2>2. rx' \in LooseBuffers /\ rx'.state = rx.state /\ rx'.msgLen = 0
    BY <1>11, <1>0, <2>1, LooseReceived DEF RecvmmsgEof
  <2> QED BY <1>11, <2>1, <2>2 DEF RecvmmsgEof
<1>12. CASE RecvmmsgFails
  <2>1. Rewound(ActiveRange(rx)) \in LooseRanges
    BY <1>0, LooseRangeTypes
  <2>2. rx' \in LooseBuffers /\ rx'.state = rx.state /\ rx'.msgLen = rx.msgLen
    BY <1>12, <1>0, <2>1, LooseRangeStores DEF RecvmmsgFails, RecvPrepared
  <2> QED BY <1>12, <2>2 DEF RecvmmsgFails
<1>13. CASE SkipSyscall
  BY <1>13 DEF SkipSyscall
<1>14. ASSUME NEW n \in 1 .. BufSize, Consume(n)
       PROVE  Control' /\ OnlyCrashesClobber'
  <2> DEFINE g == Gather(rx.buf, IovecUsed(ActiveRange(rx)), n)
             w == WithInactive(rx, Ltrim(ActiveRange(rx), n))
  <2>1. n \in Nat /\ Len(consumed) \in Nat
    BY BufSizeAssumption, SMT DEF TypeOK
  <2>2. w \in LooseBuffers /\ w.state = rx.state /\ w.msgLen = rx.msgLen
    BY <1>0, <2>1, LooseRangeTypes, LooseRangeStores
  <2>3. g = [i \in 1 .. n |-> g[i]]
    BY GatherLoose
  <2>4. consumed' = consumed \o g /\ rx' = Flipped(w)
    BY <1>14 DEF Consume, Consumed
  <2> HIDE DEF g, w
  <2>5. consumed' = [i \in 1 .. Len(consumed') |-> consumed'[i]]
    BY <2>1, <2>3, <2>4, Lengthened
  <2>6. rx' \in LooseBuffers /\ rx'.state = rx.state /\ rx'.msgLen = rx.msgLen
    BY <2>2, <2>4, LooseStores
  <2>7. clobbered' => clobbered \/ SwapPending \/ ResultPending
    BY <1>14 DEF Consume
  <2>8. pc = "idle" /\ pc' = pc /\ crashes' = crashes
    BY <1>14 DEF Consume
  <2>9. crashes # 0 => crashes > 0
    BY <1>0, SMT
  <2> QED BY <2>5, <2>6, <2>7, <2>8, <2>9
<1>15. CASE PeerSends \/ PeerShutsDown
  BY <1>15 DEF PeerSends, PeerShutsDown
<1>16. CASE Crash
  <2>1. crashes' > 0 /\ crashes' # 0
    BY <1>16, <1>0, SMT DEF Crash
  <2> QED BY <1>16, <2>1 DEF Crash
<1>17. CASE UNCHANGED vars
  BY <1>17 DEF vars
<1> QED BY <1>1, <1>2, <1>3, <1>4, <1>5, <1>6, <1>7, <1>8, <1>9, <1>10, <1>11, <1>12,
           <1>13, <1>14, <1>15, <1>16, <1>17 DEF Next, Step, Receives

(* The end of the stream is only reported, and only stored, when it has    *)
(* been reached; no byte arrives after it.                                 *)
LEMMA EofStep ==
  TypeOK /\ Control /\ StoredEof /\ EofIsLast /\ [Next]_vars => StoredEof' /\ EofIsLast'
<1> SUFFICES ASSUME TypeOK, Control, StoredEof, EofIsLast, [Next]_vars
             PROVE  StoredEof' /\ EofIsLast'
  OBVIOUS
<1> USE DEF StoredEof, EofIsLast, Goto, Kernel, Rest, NotYetCalled
<1>0. rx \in LooseBuffers /\ Sentinel # 0 /\ arrived \in Nat /\ taken \in Nat
  BY BoundsAssumption, SMT DEF Control, TypeOK, Sentinel
<1>1. CASE Prepare
  BY <1>1, <1>0, LooseStores DEF Prepare
<1>2. CASE Begin
  BY <1>2, <1>0, LooseStores DEF Begin, Control
<1>3. CASE StoreSwap
  BY <1>3, <1>0, LooseStores DEF StoreSwap
<1>4. CASE Restore
  BY <1>4, <1>0, LooseStores DEF Restore
<1>5. CASE Flip
  BY <1>5, <1>0, LooseStores DEF Flip
<1>6. CASE Finish
  BY <1>6, <1>0, LooseStores DEF Finish
<1>7. CASE ReturnEof
  BY <1>7, <1>0, LooseStores DEF ReturnEof, Control, ResultPending
<1>8. CASE Tear \/ CopyExtended
  <2>1. rx.state = "SWAP"
    BY <1>8 DEF Tear, CopyExtended, Control, Swapping, SwapPending
  <2>2. rx'.state = rx.state /\ rx'.msgLen = rx.msgLen
    BY <1>8, <1>0 DEF Tear, CopyExtended, WithInactive, LooseBuffers
  <2> QED BY <1>8, <2>1, <2>2 DEF Tear, CopyExtended
<1>9. ASSUME NEW n \in 1 .. BufSize, Recvmmsg(n)
      PROVE  StoredEof' /\ EofIsLast'
  <2>1. /\ n \in Nat \ {0} /\ n <= BufSize /\ taken + n <= MaxBytes /\ taken # arrived
    BY <1>9, <1>0, BoundsAssumption, BufSizeAssumption, SMT DEF Recvmmsg, TypeOK
  <2>2. Numbered(taken, n) \in Seq(Byte) /\ Len(Numbered(taken, n)) = n
    BY <1>0, <2>1, NumberedType
  <2>3. rx'.msgLen = n
    BY <1>9, <1>0, <2>1, <2>2, LooseReceived DEF Recvmmsg
  <2> QED BY <1>9, <2>1, <2>3 DEF Recvmmsg
<1>10. CASE RecvmmsgEof
  BY <1>10 DEF RecvmmsgEof
<1>11. CASE RecvmmsgFails
  <2>1. rx'.state = rx.state /\ rx'.msgLen = rx.msgLen
    BY <1>11, <1>0 DEF RecvmmsgFails, RecvPrepared, WithActive, LooseBuffers
  <2> QED BY <1>11, <2>1 DEF RecvmmsgFails
<1>12. ASSUME NEW n \in 1 .. BufSize, Consume(n)
       PROVE  StoredEof' /\ EofIsLast'
  <2>1. rx'.state = rx.state /\ rx'.msgLen = rx.msgLen
    <3>1. rx' = Flipped(WithInactive(rx, Ltrim(ActiveRange(rx), n)))
      BY <1>12 DEF Consume, Consumed
    <3>2. Ltrim(ActiveRange(rx), n) \in LooseRanges
      <4>1. ActiveRange(rx) \in LooseRanges /\ n \in Nat
        BY <1>0, LooseFields, BufSizeAssumption
      <4> QED BY <4>1, LooseRangeTypes
    <3> QED BY <1>0, <3>1, <3>2, LooseRangeStores, LooseStores
  <2> QED BY <1>12, <2>1 DEF Consume
<1>13. CASE Call \/ SkipSyscall \/ PeerSends \/ PeerShutsDown \/ Crash \/ UNCHANGED vars
  BY <1>13 DEF Call, SkipSyscall, PeerSends, PeerShutsDown, Crash, vars
<1> QED BY <1>1, <1>2, <1>3, <1>4, <1>5, <1>6, <1>7, <1>8, <1>9, <1>10, <1>11, <1>12, <1>13
        DEF Next, Step, Receives

(* The counters stay within their bounds, whatever became of the buffer.   *)
Counters ==
  /\ pc \in PC
  /\ arrived \in 0 .. MaxBytes /\ taken \in 0 .. arrived
  /\ Len(consumed) \in 0 .. MaxBytes
  /\ crashes \in 0 .. MaxCrashes

LEMMA CountersStep == TypeOK /\ Control /\ [Next]_vars => Counters'
<1> SUFFICES ASSUME TypeOK, Control, [Next]_vars
             PROVE  Counters'
  OBVIOUS
<1> USE DEF Counters, TypeOK, PC, Goto, Kernel, Rest
<1>1. CASE Call
  <2>1. rx.state \in TransactionStates
    BY LooseFields DEF Control
  <2> QED BY <1>1, <2>1 DEF Call, Entry, TransactionStates
<1>2. CASE Prepare \/ Begin \/ SkipSyscall \/ ReturnEof \/ StoreSwap \/ Restore
             \/ CopyExtended \/ Tear \/ Flip \/ Finish \/ RecvmmsgEof \/ RecvmmsgFails
  BY <1>2 DEF Prepare, Begin, SkipSyscall, ReturnEof, StoreSwap, Restore, CopyExtended, Tear,
              Flip, Finish, RecvmmsgEof, RecvmmsgFails
<1>3. ASSUME NEW n \in 1 .. BufSize, Recvmmsg(n)
      PROVE  Counters'
  <2>1. taken + n \in 0 .. arrived
    BY <1>3, BoundsAssumption, BufSizeAssumption, SMT DEF Recvmmsg
  <2> QED BY <1>3, <2>1 DEF Recvmmsg
<1>4. ASSUME NEW n \in 1 .. BufSize, Consume(n)
      PROVE  Counters'
  <2> DEFINE g == Gather(rx.buf, IovecUsed(ActiveRange(rx)), n)
  <2>1. n \in Nat /\ Len(consumed) \in Nat
    BY BufSizeAssumption, SMT
  <2>2. g = [i \in 1 .. n |-> g[i]]
    BY GatherLoose
  <2>3. consumed' = consumed \o g /\ Len(consumed) + n <= MaxBytes
    BY <1>4 DEF Consume
  <2> HIDE DEF g
  <2>4. Len(consumed') = Len(consumed) + n
    BY <2>1, <2>2, <2>3, Lengthened DEF Control
  <2>5. Len(consumed') \in 0 .. MaxBytes
    BY <2>1, <2>3, <2>4, BoundsAssumption, SMT
  <2> QED BY <1>4, <2>5 DEF Consume
<1>5. CASE PeerSends
  <2>1. arrived + 1 \in 0 .. MaxBytes /\ taken \in 0 .. arrived + 1
    BY <1>5, BoundsAssumption, SMT DEF PeerSends
  <2> QED BY <1>5, <2>1 DEF PeerSends
<1>6. CASE PeerShutsDown
  BY <1>6 DEF PeerShutsDown
<1>7. CASE Crash
  <2>1. crashes + 1 \in 0 .. MaxCrashes
    BY <1>7, BoundsAssumption, SMT DEF Crash
  <2> QED BY <1>7, <2>1 DEF Crash
<1>8. CASE UNCHANGED vars
  BY <1>8 DEF vars
<1> QED BY <1>1, <1>2, <1>3, <1>4, <1>5, <1>6, <1>7, <1>8 DEF Next, Step, Receives

-------------------------------------------------------------------------------
(* As long as no unfinished transaction was run over.                      *)
Tight == rx \in AtomicBuffers(Byte)

-------------------------------------------------------------------------------
(* The unread bytes are a sequence, and they depend on nothing but the     *)
(* bytes, the range to trust and the length of the pending result.         *)
LEMMA UnreadType ==
  ASSUME Tight, Control, Coherent, ~clobbered
  PROVE  /\ Origin \in Ranges /\ Extra \in Nat /\ Origin.len + Extra <= BufSize
         /\ Extend(Origin, Extra) \in Ranges
         /\ Extend(Origin, Extra).len = Origin.len + Extra
         /\ rx.buf \in [Index -> Byte]
         /\ Unread \in Seq(Byte)
         /\ Len(Unread) = Origin.len + Extra
<1>1. /\ Origin \in Ranges /\ rx.buf \in [Index -> Byte] /\ rx.bit \in 0 .. 1
      /\ rx.msgLen \in (0 .. BufSize) \cup {Sentinel}
  <2>1. /\ rx.bit \in 0 .. 1 /\ rx.range \in [0 .. 1 -> Ranges] /\ ActiveRange(rx) \in Ranges
        /\ rx.buf \in [Index -> Byte] /\ rx.msgLen \in (0 .. BufSize) \cup {Sentinel}
    BY BufferFields DEF Tight
  <2>2. 1 - rx.bit \in 0 .. 1
    BY <2>1, SMT
  <2> QED BY <2>1, <2>2 DEF Origin
<1>2. Extra \in Nat
  BY <1>1, BufSizeAssumption, SMT DEF Extra, Control, SwapPending, ResultPending, NotYetCalled
<1>3. Origin.len + Extra <= BufSize
  BY DEF Coherent
<1>4. Extend(Origin, Extra) \in Ranges /\ Extend(Origin, Extra).len = Origin.len + Extra
  BY <1>1, <1>2, <1>3, ExtendType
<1>5. Unread \in Seq(Byte) /\ Len(Unread) = Origin.len + Extra
  BY <1>1, <1>4, ContentsType DEF Unread
<1> QED BY <1>1, <1>2, <1>3, <1>4, <1>5

LEMMA CoherentInit == Init => Tight /\ Coherent
<1> SUFFICES ASSUME Init PROVE Tight /\ Coherent
  OBVIOUS
<1>1. 0 \in Byte
  BY BoundsAssumption, SMT DEF Byte
<1>2. Tight
  BY <1>1, NewBufferType DEF Init, Tight
<1>3. rx.state = "INIT" /\ Origin = EmptyRange /\ Extra = 0 /\ pc = "idle"
  BY DEF Init, NewBuffer, Origin, Extra, ActiveRange, SwapPending, ResultPending
<1>4. Origin.len + Extra <= BufSize
  BY <1>3, BufSizeAssumption, SMT DEF EmptyRange
<1>5. consumed \in Seq(Byte)
  BY EmptySeq DEF Init
<1> QED BY <1>2, <1>3, <1>4, <1>5 DEF Coherent

(* What the transformation takes are the first of the unread bytes, and    *)
(* what it leaves are the others.                                          *)
LEMMA ConsumedBuffer ==
  ASSUME Tight, Control, Coherent, NEW n \in 1 .. BufSize, Consume(n), ~clobbered'
  PROVE  /\ rx' \in AtomicBuffers(Byte)
         /\ rx'.state = rx.state /\ rx'.msgLen = rx.msgLen /\ ~clobbered
         /\ n \in 1 .. Len(Unread)
         /\ Origin'.len + Extra' <= BufSize
         /\ consumed' = consumed \o SubSeq(Unread, 1, n)
         /\ Unread' = SubSeq(Unread, n + 1, Len(Unread))
<1> DEFINE a == ActiveRange(rx)
           t == Ltrim(a, n)
           w == WithInactive(rx, t)
           full == Extend(a, Extra)
<1>1. ~clobbered /\ ~SwapPending /\ (ResultPending => n # a.len) /\ n <= a.len
  BY DEF Consume
<1>2. /\ a \in Ranges /\ Extra \in Nat /\ a.len + Extra <= BufSize
      /\ full \in Ranges /\ full.len = a.len + Extra /\ full.start = a.start
      /\ rx.buf \in [Index -> Byte] /\ Unread = Contents(rx.buf, full)
      /\ Unread \in Seq(Byte) /\ Len(Unread) = a.len + Extra
  <2>1. Origin = a
    BY <1>1 DEF Origin
  <2> QED BY <1>1, <2>1, UnreadType, ExtendType DEF Unread
<1>3. n \in Nat /\ a.len \in Nat /\ n \in 0 .. a.len /\ n \in 1 .. Len(Unread)
  <2>1. n \in Nat \ {0} /\ a.len \in Nat
    BY <1>2, BufSizeAssumption, SMT DEF Ranges
  <2> HIDE DEF a
  <2> QED BY <1>1, <1>2, <2>1, SMT
<1>4. t \in Ranges /\ t.len = a.len - n
  <2>1. t \in Ranges /\ t.len = IF n >= a.len THEN 0 ELSE a.len - n
    BY <1>2, <1>3, LtrimType
  <2> HIDE DEF t, a
  <2> QED BY <1>1, <1>3, <2>1, SMT
<1>5. /\ rx' \in AtomicBuffers(Byte)
      /\ rx'.state = rx.state /\ rx'.msgLen = rx.msgLen /\ rx'.buf = rx.buf
      /\ ActiveRange(rx') = t
  <2>1. /\ w \in AtomicBuffers(Byte) /\ w.state = rx.state /\ w.msgLen = rx.msgLen
        /\ w.buf = rx.buf /\ InactiveRange(w) = t
    BY <1>4, InactiveStore DEF Tight
  <2>2. rx' = Flipped(w)
    BY DEF Consume, Consumed
  <2> HIDE DEF w, t
  <2> QED BY <2>1, <2>2, FlipStore
<1>6. Origin' = t /\ Extra' = Extra
  BY <1>1, <1>5 DEF Origin, Extra, SwapPending, ResultPending, NotYetCalled
<1>7. Origin'.len + Extra' <= BufSize
  <2>1. t.len + Extra <= BufSize
    <3> HIDE DEF a, t
    <3> QED BY <1>2, <1>3, <1>4, BufSizeAssumption, SMT
  <2> QED BY <1>6, <2>1
<1>8. Extend(t, Extra) = Ltrim(full, n)
  <2>1. CASE n < a.len
    <3>1. ~(n >= a.len) /\ ~(n >= full.len) /\ a.len - n + Extra = full.len - n
      <4> HIDE DEF a, full
      <4> QED BY <1>2, <1>3, <2>1, SMT
    <3>2. a = [start |-> a.start, len |-> a.len, shutdown |-> a.shutdown]
      <4> HIDE DEF a
      <4> QED BY <1>2 DEF Ranges
    <3> HIDE DEF a
    <3> QED BY <3>1, <3>2 DEF Ltrim, Extend
  <2>2. CASE ~(n < a.len)
    <3>1. n = a.len
      <4> HIDE DEF a
      <4> QED BY <1>1, <1>3, <2>2, SMT
    <3>2. Extra = 0
      BY <1>1, <3>1 DEF Extra
    <3>3. full = a
      BY <1>2, <3>2, ExtendType
    <3>4. Extend(t, 0) = t
      <4>1. t.len + 0 <= BufSize
        <5> HIDE DEF t
        <5> QED BY <1>4, BufSizeAssumption, SMT DEF Ranges
      <4> QED BY <1>4, <4>1, ExtendType
    <3> QED BY <3>2, <3>3, <3>4
  <2> QED BY <2>1, <2>2
<1>9. Unread' = SubSeq(Unread, n + 1, Len(Unread))
  <2>1. n \in 0 .. full.len
    BY <1>2, <1>3
  <2>2. Unread' = Contents(rx.buf, Ltrim(full, n))
    BY <1>5, <1>6, <1>8 DEF Unread
  <2> QED BY <1>2, <2>1, <2>2, LtrimContents
<1>10. Gather(rx.buf, IovecUsed(a), n) = SubSeq(Unread, 1, n)
  <2> DEFINE c == Contents(rx.buf, a)
  <2>1. /\ c \in Seq(Byte) /\ Len(c) = a.len
        /\ \A i \in 1 .. a.len : c[i] = rx.buf[Wrap(a.start + i - 1)]
    BY <1>2, ContentsType
  <2>2. \A i \in 1 .. full.len : Unread[i] = rx.buf[Wrap(a.start + i - 1)]
    BY <1>2, ContentsType
  <2>3. \A i \in 1 .. n : i \in 1 .. a.len /\ i \in 1 .. full.len
    <3> HIDE DEF a, full
    <3> QED BY <1>2, <1>3, SMT
  <2>4. Gather(rx.buf, IovecUsed(a), n) = SubSeq(c, 1, n)
    BY <1>2, <1>3, GatherContents
  <2>5. SubSeq(c, 1, n) = SubSeq(Unread, 1, n)
    <3>1. \A i \in 1 .. n : c[i] = Unread[i]
      BY <2>1, <2>2, <2>3
    <3> HIDE DEF c
    <3> QED BY <1>2, <1>3, <2>1, <3>1, SMT
  <2> QED BY <2>4, <2>5
<1>11. consumed' = consumed \o SubSeq(Unread, 1, n)
  BY <1>10 DEF Consume
<1> QED BY <1>1, <1>3, <1>5, <1>7, <1>9, <1>11

(* Every step keeps the ranges in agreement with the worker's place, until *)
(* a transformation runs over an unfinished transaction.                   *)
LEMMA CoherentStep ==
  TypeOK /\ Control /\ Coherent /\ [Next]_vars => (~clobbered' => Tight') /\ Coherent'
<1> SUFFICES ASSUME TypeOK, Control, Coherent, [Next]_vars, ~clobbered'
             PROVE  Tight' /\ Coherent'
  BY DEF Coherent
<1> USE DEF Coherent, Goto, Kernel, Rest
<1>a. ~clobbered
  BY DEF Next, Step, Receives, Call, Prepare, Begin, Recvmmsg, RecvmmsgEof, RecvmmsgFails,
         SkipSyscall, ReturnEof, StoreSwap, Restore, Tear, CopyExtended, Flip, Finish,
         Consume, PeerSends, PeerShutsDown, Crash, vars, SwapPending, ResultPending, TypeOK
<1>b. rx \in AtomicBuffers(Byte) /\ Tight
  BY <1>a DEF TypeOK, Tight
<1>c. /\ rx.msgLen \in (0 .. BufSize) \cup {Sentinel}
      /\ rx.active \in 0 .. 1 /\ rx.bit \in 0 .. 1
      /\ 1 - rx.active \in 0 .. 1 /\ 1 - (1 - rx.active) = rx.active
      /\ 1 - (1 - rx.bit) = rx.bit
      /\ ActiveRange(rx) \in Ranges /\ InactiveRange(rx) \in Ranges
      /\ Origin \in Ranges /\ Extra \in Nat
      /\ consumed \in Seq(Byte) /\ Origin.len + Extra <= BufSize
  <2>1. rx.bit \in 0 .. 1
    BY <1>b, BufferFields
  <2>2. 1 - (1 - rx.bit) = rx.bit
    BY <2>1, SMT
  <2> QED BY <1>a, <1>b, <2>2, BufferFields, UnreadType
<1> USE DEF SwapPending, ResultPending, NotYetCalled
<1>1. CASE Prepare
  <2>1. rx.state = "INIT"
    BY <1>1 DEF Prepare, Control
  <2>2. rx' \in AtomicBuffers(Byte) /\ Origin' = Origin /\ Extra' = Extra
    BY <1>1, <1>b, <2>1, TightStores DEF Prepare, Origin, Extra, ActiveRange
  <2> QED BY <1>1, <1>c, <2>2 DEF Prepare, Tight
<1>2. CASE Begin
  <2>1. rx.state = "INIT" /\ NotYetCalled(rx)
    BY <1>2 DEF Begin, Control
  <2>2. rx' \in AtomicBuffers(Byte) /\ Origin' = Origin /\ Extra' = Extra
    BY <1>2, <1>b, <2>1, TightStores DEF Begin, Origin, Extra, ActiveRange
  <2> QED BY <1>2, <1>c, <2>2 DEF Begin, Tight
<1>3. CASE StoreSwap
  <2>1. ResultPending
    BY <1>3 DEF StoreSwap, Control
  <2>2. rx' \in AtomicBuffers(Byte) /\ Origin' = Origin /\ Extra' = Extra
    BY <1>3, <1>b, <1>c, <2>1, TightStores DEF StoreSwap, Origin, Extra, ActiveRange
  <2> QED BY <1>3, <1>c, <2>2 DEF StoreSwap, Tight
<1>4. CASE Restore
  <2>1. rx.state = "SWAP"
    BY <1>4 DEF Restore, Control, Swapping
  <2>2. /\ rx' \in AtomicBuffers(Byte) /\ Origin' = Origin /\ Extra' = Extra
        /\ rx'.active = 1 - rx'.bit
    BY <1>4, <1>b, <2>1, TightStores DEF Restore, Origin, Extra
  <2> QED BY <1>4, <1>c, <2>2 DEF Restore, Tight
<1>5. ASSUME pc = "extend"
      PROVE  /\ rx.state = "SWAP" /\ rx.msgLen = Extra /\ rx.active = 1 - rx.bit
             /\ ActiveRange(rx) = Origin /\ RecvResult(rx) \in Ranges
  <2>1. rx.state = "SWAP" /\ rx.msgLen = Extra /\ rx.active = 1 - rx.bit
    BY <1>5, <1>a DEF Control, Swapping, Extra
  <2>2. ActiveRange(rx) = Origin
    BY <2>1 DEF Origin, ActiveRange
  <2> QED BY <1>c, <2>1, <2>2, ExtendType DEF RecvResult
<1>6. CASE CopyExtended
  <2>1. pc = "extend" /\ pc' = "flip" /\ rx' = WithInactive(rx, RecvResult(rx))
    BY <1>6 DEF CopyExtended
  <2>2. /\ rx' \in AtomicBuffers(Byte)
        /\ rx'.state = rx.state /\ rx'.bit = rx.bit /\ rx'.msgLen = rx.msgLen
        /\ rx'.active = rx.active /\ rx'.range[rx.active] = rx.range[rx.active]
        /\ ActiveRange(rx') = ActiveRange(rx) /\ InactiveRange(rx') = RecvResult(rx)
    BY <1>5, <1>b, <2>1, InactiveStore
  <2>3. Origin' = Origin /\ Extra' = Extra /\ RecvResult(rx') = RecvResult(rx)
    BY <1>5, <2>1, <2>2 DEF Origin, Extra, RecvResult
  <2> QED BY <1>5, <1>6, <1>c, <2>1, <2>2, <2>3 DEF CopyExtended, Tight
<1>7. CASE Tear
  <2>1. PICK s \in {ActiveRange(rx).start, InactiveRange(rx).start},
             l \in {RecvResult(rx).len, InactiveRange(rx).len} :
               rx' = WithInactive(rx, [ActiveRange(rx) EXCEPT !.start = s, !.len = l])
    BY <1>7 DEF Tear
  <2>2. pc = "extend" /\ pc' = pc
    BY <1>7 DEF Tear
  <2>3. [ActiveRange(rx) EXCEPT !.start = s, !.len = l] \in Ranges
    BY <1>5, <1>c, <2>2 DEF Ranges
  <2>4. /\ rx' \in AtomicBuffers(Byte)
        /\ rx'.state = rx.state /\ rx'.bit = rx.bit /\ rx'.msgLen = rx.msgLen
        /\ rx'.active = rx.active /\ rx'.range[rx.active] = rx.range[rx.active]
    BY <1>b, <2>1, <2>3, InactiveStore
  <2>5. Origin' = Origin /\ Extra' = Extra
    BY <1>5, <2>2, <2>4 DEF Origin, Extra
  <2> QED BY <1>5, <1>7, <1>c, <2>2, <2>4, <2>5 DEF Tear, Tight
<1>8. CASE Flip
  <2>1. /\ rx.state = "SWAP" /\ rx.active = 1 - rx.bit
        /\ InactiveRange(rx) = RecvResult(rx)
    BY <1>8, <1>a DEF Flip, Control, Swapping
  <2>2. /\ rx' \in AtomicBuffers(Byte)
        /\ rx'.state = rx.state /\ rx'.bit = rx.bit /\ rx'.msgLen = rx.msgLen
        /\ rx'.active = 1 - rx.active /\ rx'.range = rx.range
        /\ ActiveRange(rx') = InactiveRange(rx)
    BY <1>8, <1>b, FlipStore DEF Flip
  <2>3. Origin' = Origin /\ Extra' = Extra
    BY <2>1, <2>2 DEF Origin, Extra
  <2>4. /\ rx'.active = rx'.bit
        /\ ActiveRange(rx') = Extend(rx'.range[1 - rx'.bit], rx'.msgLen)
    BY <1>c, <2>1, <2>2 DEF RecvResult, ActiveRange
  <2> QED BY <1>8, <1>c, <2>2, <2>3, <2>4 DEF Flip, Tight
<1>9. CASE Finish \/ ReturnEof
  <2>1. /\ rx' \in AtomicBuffers(Byte) /\ rx'.state = "INIT"
        /\ ActiveRange(rx') = ActiveRange(rx)
    BY <1>9, <1>b, TightStores DEF Finish, ReturnEof, ActiveRange
  <2>2. Origin' = ActiveRange(rx) /\ Extra' = 0
    BY <2>1 DEF Origin, Extra
  <2>3. Origin'.len + Extra' <= BufSize
    <3>1. ActiveRange(rx).len + 0 <= BufSize
      BY <1>c, BufSizeAssumption, SMT DEF Ranges
    <3> QED BY <2>2, <3>1
  <2> QED BY <1>9, <1>c, <2>1, <2>3 DEF Finish, ReturnEof, Tight
<1>10. ASSUME NEW data \in Seq(Byte), pc = "syscall", pc' = "store", consumed' = consumed,
              Len(data) <= Capacity(RecvTarget(RecvPrepared(rx))),
              rx' = RecvDone(RecvPrepared(rx), data)
       PROVE  Tight' /\ Coherent'
  <2>1. rx.state = "DO_SYSCALL"
    BY <1>10 DEF Control
  <2>2. /\ rx' \in AtomicBuffers(Byte) /\ rx'.state = rx.state /\ rx'.msgLen = Len(data)
        /\ ActiveRange(rx').len = ActiveRange(rx).len
        /\ ActiveRange(rx).len + Len(data) <= BufSize
    BY <1>10, <1>b, ReceivedBuffer
  <2>3. Len(data) # Sentinel
    <3>1. Len(data) \in Nat
      BY LenProperties
    <3> QED BY <3>1, SMT DEF Sentinel
  <2>4. Origin' = ActiveRange(rx') /\ Extra' = Len(data)
    BY <2>1, <2>2, <2>3 DEF Origin, Extra
  <2> QED BY <1>10, <1>c, <2>2, <2>4 DEF Tight
<1>11. ASSUME NEW n \in 1 .. BufSize, Recvmmsg(n)
       PROVE  Tight' /\ Coherent'
  <2>1. n \in Nat /\ taken \in Nat /\ taken + n <= MaxBytes
    BY <1>11, BoundsAssumption, BufSizeAssumption, SMT DEF Recvmmsg, TypeOK
  <2>2. Numbered(taken, n) \in Seq(Byte) /\ Len(Numbered(taken, n)) = n
    BY <2>1, NumberedType
  <2> QED BY <1>10, <1>11, <2>2 DEF Recvmmsg
<1>12. CASE RecvmmsgEof
  <2>1. <<>> \in Seq(Byte) /\ Len(<<>>) = 0
    BY EmptySeq, SMT
  <2>2. Len(<<>>) <= Capacity(RecvTarget(RecvPrepared(rx)))
    <3>1. Rewound(ActiveRange(rx)) \in Ranges
      BY <1>c, RewoundType
    <3>2. ActiveRange(RecvPrepared(rx)) \in Ranges
      BY <1>b, <3>1, ActiveStore DEF RecvPrepared
    <3>3. 0 <= BufSize - ActiveRange(RecvPrepared(rx)).len
      BY <3>2, BufSizeAssumption, SMT DEF Ranges
    <3> QED BY <2>1, <3>2, <3>3, UnusedCapacity DEF RecvTarget
  <2> QED BY <1>10, <1>12, <2>1, <2>2 DEF RecvmmsgEof
<1>13. CASE RecvmmsgFails
  <2>1. rx.state = "DO_SYSCALL" /\ NotYetCalled(rx)
    BY <1>13 DEF RecvmmsgFails, Control
  <2>2. Rewound(ActiveRange(rx)) \in Ranges /\ Rewound(ActiveRange(rx)).len = ActiveRange(rx).len
    BY <1>c, RewoundType
  <2>3. /\ rx' \in AtomicBuffers(Byte) /\ rx'.state = rx.state /\ rx'.msgLen = rx.msgLen
        /\ ActiveRange(rx') = Rewound(ActiveRange(rx))
    BY <1>13, <1>b, <2>2, ActiveStore DEF RecvmmsgFails, RecvPrepared
  <2>4. Origin'.len = Origin.len /\ Extra' = Extra
    BY <2>1, <2>2, <2>3 DEF Origin, Extra
  <2> QED BY <1>13, <1>c, <2>3, <2>4 DEF RecvmmsgFails, Tight
<1>14. ASSUME NEW n \in 1 .. BufSize, Consume(n)
       PROVE  Tight' /\ Coherent'
  <2>1. /\ rx' \in AtomicBuffers(Byte) /\ Origin'.len + Extra' <= BufSize
        /\ n \in 1 .. Len(Unread) /\ consumed' = consumed \o SubSeq(Unread, 1, n)
    BY <1>14, <1>b, ConsumedBuffer
  <2>2. Unread \in Seq(Byte)
    BY <1>a, <1>b, UnreadType
  <2>3. SubSeq(Unread, 1, n) \in Seq(Byte)
    BY <2>1, <2>2, PrefixType
  <2>4. consumed' \in Seq(Byte)
    BY <1>c, <2>1, <2>3, ConcatProperties
  <2>5. pc' = "idle"
    BY <1>14 DEF Consume
  <2> QED BY <2>1, <2>4, <2>5 DEF Tight
<1>15. CASE Call
  <2>1. pc' \notin {"extend", "flip", "finish"}
    BY <1>15, <1>b DEF Call, Entry, AtomicBuffers, TransactionStates
  <2> QED BY <1>15, <1>a, <1>b, <2>1 DEF Call, Tight, Origin, Extra
<1>16. CASE SkipSyscall \/ PeerSends \/ PeerShutsDown \/ Crash \/ UNCHANGED vars
  BY <1>16, <1>a, <1>b
     DEF SkipSyscall, PeerSends, PeerShutsDown, Crash, vars, Tight, Origin, Extra
<1> QED BY <1>1, <1>2, <1>3, <1>4, <1>6, <1>7, <1>8, <1>9, <1>11, <1>12, <1>13, <1>14, <1>15,
           <1>16 DEF Next, Step, Receives

-------------------------------------------------------------------------------
(* What a step does to the unread bytes and to those consumed, as long as  *)
(* no unfinished transaction was run over: nothing, or the transformation  *)
(* takes some off the front, or recvmmsg adds the next ones.               *)
Quiet == Unread' = Unread /\ consumed' = consumed /\ taken' = taken

Consumes == \E n \in 1 .. Len(Unread) :
              /\ consumed' = consumed \o SubSeq(Unread, 1, n)
              /\ Unread' = SubSeq(Unread, n + 1, Len(Unread))
              /\ taken' = taken

Fills == \E n \in 1 .. BufSize :
           /\ Unread' = Unread \o Numbered(taken, n)
           /\ consumed' = consumed
           /\ taken' = taken + n
           /\ taken + n <= MaxBytes

LEMMA StreamStep ==
  ASSUME TypeOK, Control, Coherent, [Next]_vars, ~clobbered'
  PROVE  ~clobbered /\ (Quiet \/ Consumes \/ Fills)
<1> USE DEF Goto, Kernel, Rest
<1>a. ~clobbered
  BY DEF Next, Step, Receives, Call, Prepare, Begin, Recvmmsg, RecvmmsgEof, RecvmmsgFails,
         SkipSyscall, ReturnEof, StoreSwap, Restore, Tear, CopyExtended, Flip, Finish,
         Consume, PeerSends, PeerShutsDown, Crash, vars, SwapPending, ResultPending, TypeOK
<1> SUFFICES Quiet \/ Consumes \/ Fills
  BY <1>a
<1>b. rx \in AtomicBuffers(Byte) /\ Tight
  BY <1>a DEF TypeOK, Tight
<1>c. /\ rx.active \in 0 .. 1 /\ rx.bit \in 0 .. 1
      /\ 1 - (1 - rx.active) = rx.active
      /\ ActiveRange(rx) \in Ranges /\ InactiveRange(rx) \in Ranges
      /\ rx.buf \in [Index -> Byte] /\ Unread \in Seq(Byte) /\ Extra \in Nat
      /\ Extend(Origin, Extra) \in Ranges
  BY <1>a, <1>b, BufferFields, UnreadType
<1>d. ASSUME rx'.buf = rx.buf, Extend(Origin, Extra)' = Extend(Origin, Extra)
      PROVE  Unread' = Unread
  BY <1>d DEF Unread
<1>e. ASSUME rx'.buf = rx.buf, Origin' = Origin, Extra' = Extra
      PROVE  Unread' = Unread
  BY <1>e DEF Unread
<1> USE DEF SwapPending, ResultPending, NotYetCalled
<1>1. CASE rx' = rx /\ consumed' = consumed /\ taken' = taken
  BY <1>1 DEF Quiet, Unread, Origin, Extra
<1>2. CASE Prepare
  <2>1. rx.state = "INIT"
    BY <1>2 DEF Prepare, Control
  <2>2. rx'.buf = rx.buf /\ Origin' = Origin /\ Extra' = Extra
    BY <1>2, <1>b, <2>1, TightStores DEF Prepare, Origin, Extra, ActiveRange
  <2> QED BY <1>2, <1>e, <2>2 DEF Prepare, Quiet
<1>3. CASE Begin
  <2>1. rx.state = "INIT" /\ NotYetCalled(rx)
    BY <1>3 DEF Begin, Control
  <2>2. rx'.buf = rx.buf /\ Origin' = Origin /\ Extra' = Extra
    BY <1>3, <1>b, <2>1, TightStores DEF Begin, Origin, Extra, ActiveRange
  <2> QED BY <1>3, <1>e, <2>2 DEF Begin, Quiet
<1>4. CASE StoreSwap
  <2>1. ResultPending
    BY <1>4 DEF StoreSwap, Control
  <2>2. /\ rx'.state = "SWAP" /\ rx'.bit = 1 - rx.active /\ rx'.msgLen = rx.msgLen
        /\ rx'.range = rx.range /\ rx'.buf = rx.buf
    BY <1>4, <1>b, TightStores DEF StoreSwap
  <2>3. Origin' = Origin /\ Extra' = Extra
    BY <1>c, <2>1, <2>2 DEF Origin, Extra, ActiveRange
  <2> QED BY <1>4, <1>e, <2>2, <2>3 DEF StoreSwap, Quiet
<1>5. CASE Restore
  <2>1. rx.state = "SWAP"
    BY <1>5 DEF Restore, Control, Swapping
  <2>2. rx'.buf = rx.buf /\ Origin' = Origin /\ Extra' = Extra
    BY <1>5, <1>b, <2>1, TightStores DEF Restore, Origin, Extra
  <2> QED BY <1>5, <1>e, <2>2 DEF Restore, Quiet
<1>6. ASSUME NEW r \in Ranges, pc = "extend", rx' = WithInactive(rx, r)
      PROVE  Unread' = Unread
  <2>1. rx.state = "SWAP" /\ rx.active = 1 - rx.bit
    BY <1>6, <1>a DEF Control, Coherent, Swapping
  <2>2. /\ rx'.state = rx.state /\ rx'.bit = rx.bit /\ rx'.msgLen = rx.msgLen
        /\ rx'.range[rx.active] = rx.range[rx.active] /\ rx'.buf = rx.buf
    BY <1>6, <1>b, InactiveStore
  <2> QED BY <1>e, <2>1, <2>2 DEF Origin, Extra
<1>7. ASSUME pc = "extend" PROVE RecvResult(rx) \in Ranges
  <2>1. RecvResult(rx) = Extend(Origin, Extra)
    BY <1>7, <1>a DEF Control, Coherent, Swapping, Extra, Origin, RecvResult, ActiveRange
  <2> QED BY <1>c, <2>1
<1>8. CASE CopyExtended
  BY <1>6, <1>7, <1>8 DEF CopyExtended, Quiet
<1>9. CASE Tear
  <2>1. PICK s \in {ActiveRange(rx).start, InactiveRange(rx).start},
             l \in {RecvResult(rx).len, InactiveRange(rx).len} :
               rx' = WithInactive(rx, [ActiveRange(rx) EXCEPT !.start = s, !.len = l])
    BY <1>9 DEF Tear
  <2>2. [ActiveRange(rx) EXCEPT !.start = s, !.len = l] \in Ranges
    BY <1>7, <1>9, <1>c DEF Ranges, Tear
  <2> QED BY <1>6, <1>9, <2>1, <2>2 DEF Tear, Quiet
<1>10. CASE Flip
  <2>1. rx.state = "SWAP"
    BY <1>10 DEF Flip, Control, Swapping
  <2>2. /\ rx'.state = rx.state /\ rx'.bit = rx.bit /\ rx'.msgLen = rx.msgLen
        /\ rx'.range = rx.range /\ rx'.buf = rx.buf
    BY <1>10, <1>b, FlipStore DEF Flip
  <2> QED BY <1>10, <1>e, <2>1, <2>2 DEF Flip, Quiet, Origin, Extra
<1>11. CASE Finish \/ ReturnEof
  <2>1. /\ rx'.state = "INIT" /\ ActiveRange(rx') = ActiveRange(rx) /\ rx'.buf = rx.buf
    BY <1>11, <1>b, TightStores DEF Finish, ReturnEof, ActiveRange
  <2>2. Origin' = ActiveRange(rx) /\ Extra' = 0
    BY <2>1 DEF Origin, Extra
  <2>3. ActiveRange(rx) = Extend(Origin, Extra)
    <3>1. CASE Finish
      BY <3>1, <1>a DEF Finish, Control, Coherent, Swapping, Origin, Extra
    <3>2. CASE ReturnEof
      <4>1. Origin = ActiveRange(rx) /\ Extra = 0
        BY <3>2 DEF ReturnEof, Control, Origin, Extra
      <4>2. ActiveRange(rx).len + 0 <= BufSize
        BY <1>c, BufSizeAssumption, SMT DEF Ranges
      <4> QED BY <1>c, <4>1, <4>2, ExtendType
    <3> QED BY <1>11, <3>1, <3>2
  <2>4. Extend(ActiveRange(rx), 0) = ActiveRange(rx)
    <3>1. ActiveRange(rx).len + 0 <= BufSize
      BY <1>c, BufSizeAssumption, SMT DEF Ranges
    <3> QED BY <1>c, <3>1, ExtendType
  <2>5. Unread' = Contents(rx.buf, Extend(ActiveRange(rx), 0))
    BY <2>1, <2>2 DEF Unread
  <2> QED BY <1>11, <2>3, <2>4, <2>5 DEF Finish, ReturnEof, Quiet, Unread
<1>12. ASSUME pc = "syscall", NotYetCalled(rx)
       PROVE  /\ rx.state = "DO_SYSCALL" /\ Origin = ActiveRange(rx) /\ Extra = 0
              /\ Unread = Contents(rx.buf, ActiveRange(rx))
  <2>1. rx.state = "DO_SYSCALL" /\ Origin = ActiveRange(rx) /\ Extra = 0
    BY <1>12 DEF Control, Origin, Extra
  <2>2. Extend(ActiveRange(rx), 0) = ActiveRange(rx)
    <3>1. ActiveRange(rx).len + 0 <= BufSize
      BY <1>c, BufSizeAssumption, SMT DEF Ranges
    <3> QED BY <1>c, <3>1, ExtendType
  <2> QED BY <2>1, <2>2 DEF Unread
<1>13. ASSUME NEW data \in Seq(Byte), pc = "syscall", NotYetCalled(rx),
              Len(data) <= Capacity(RecvTarget(RecvPrepared(rx))),
              rx' = RecvDone(RecvPrepared(rx), data)
       PROVE  Unread' = Unread \o data
  <2>1. /\ rx'.state = rx.state /\ rx'.msgLen = Len(data)
        /\ Contents(rx'.buf, Extend(ActiveRange(rx'), Len(data)))
             = Contents(rx.buf, ActiveRange(rx)) \o data
    BY <1>13, <1>b, ReceivedBuffer
  <2>2. Len(data) # Sentinel
    <3>1. Len(data) \in Nat
      BY LenProperties
    <3> QED BY <3>1, SMT DEF Sentinel
  <2>3. Origin' = ActiveRange(rx') /\ Extra' = Len(data)
    BY <1>12, <1>13, <2>1, <2>2 DEF Origin, Extra
  <2> QED BY <1>12, <1>13, <2>1, <2>3 DEF Unread
<1>14. ASSUME NEW n \in 1 .. BufSize, Recvmmsg(n)
       PROVE  Fills
  <2>1. n \in Nat /\ taken \in Nat /\ taken + n <= MaxBytes
    BY <1>14, BoundsAssumption, BufSizeAssumption, SMT DEF Recvmmsg, TypeOK
  <2>2. Numbered(taken, n) \in Seq(Byte) /\ Len(Numbered(taken, n)) = n
    BY <2>1, NumberedType
  <2>3. NotYetCalled(rx)
    BY <1>14, <1>b, <1>c, RewoundType, ActiveStore DEF Recvmmsg, RecvPrepared
  <2>4. Unread' = Unread \o Numbered(taken, n)
    BY <1>13, <1>14, <2>2, <2>3 DEF Recvmmsg
  <2> QED BY <1>14, <2>1, <2>4 DEF Recvmmsg, Fills
<1>15. CASE RecvmmsgEof
  <2>1. <<>> \in Seq(Byte) /\ Len(<<>>) = 0
    BY EmptySeq, SMT
  <2>2. Len(<<>>) <= Capacity(RecvTarget(RecvPrepared(rx)))
    <3>1. Rewound(ActiveRange(rx)) \in Ranges
      BY <1>c, RewoundType
    <3>2. ActiveRange(RecvPrepared(rx)) \in Ranges
      BY <1>b, <3>1, ActiveStore DEF RecvPrepared
    <3>3. 0 <= BufSize - ActiveRange(RecvPrepared(rx)).len
      BY <3>2, BufSizeAssumption, SMT DEF Ranges
    <3> QED BY <2>1, <3>2, <3>3, UnusedCapacity DEF RecvTarget
  <2>3. Unread' = Unread \o <<>>
    BY <1>13, <1>15, <2>1, <2>2 DEF RecvmmsgEof
  <2> QED BY <1>15, <1>c, <2>3, ConcatEmptySeq DEF RecvmmsgEof, Quiet
<1>16. CASE RecvmmsgFails
  <2>1. Rewound(ActiveRange(rx)) \in Ranges
    BY <1>c, RewoundType
  <2>2. /\ rx'.state = rx.state /\ rx'.msgLen = rx.msgLen
        /\ ActiveRange(rx') = Rewound(ActiveRange(rx)) /\ rx'.buf = rx.buf
    BY <1>16, <1>b, <2>1, ActiveStore DEF RecvmmsgFails, RecvPrepared
  <2>3. rx.state = "DO_SYSCALL" /\ Unread = Contents(rx.buf, ActiveRange(rx))
    BY <1>12, <1>16 DEF RecvmmsgFails
  <2>4. Origin' = Rewound(ActiveRange(rx)) /\ Extra' = 0
    BY <1>16, <2>2, <2>3 DEF Origin, Extra, RecvmmsgFails
  <2>5. Extend(Rewound(ActiveRange(rx)), 0) = Rewound(ActiveRange(rx))
    <3>1. Rewound(ActiveRange(rx)).len + 0 <= BufSize
      BY <2>1, BufSizeAssumption, SMT DEF Ranges
    <3> QED BY <2>1, <3>1, ExtendType
  <2>6. Unread' = Contents(rx.buf, Rewound(ActiveRange(rx)))
    BY <2>2, <2>4, <2>5 DEF Unread
  <2> QED BY <1>16, <1>c, <2>3, <2>6, RewoundContents DEF RecvmmsgFails, Quiet
<1>17. ASSUME NEW n \in 1 .. BufSize, Consume(n)
       PROVE  Consumes
  BY <1>17, <1>b, ConsumedBuffer DEF Consume, Consumes
<1> QED
  <2>1. Call \/ SkipSyscall \/ PeerSends \/ PeerShutsDown \/ Crash \/ UNCHANGED vars
          => rx' = rx /\ consumed' = consumed /\ taken' = taken
    BY DEF Call, SkipSyscall, PeerSends, PeerShutsDown, Crash, vars
  <2> QED BY <2>1, <1>a, <1>1, <1>2, <1>3, <1>4, <1>5, <1>8, <1>9, <1>10, <1>11, <1>14, <1>15,
             <1>16, <1>17 DEF Next, Step, Receives

-------------------------------------------------------------------------------
(* Nothing is forgotten: the bytes consumed and the bytes unread are       *)
(* together the bytes that recvmmsg handed out, in order.                  *)
Taken(n) == [i \in 1 .. n |-> i]

LEMMA TakenType ==
  ASSUME NEW n \in 0 .. MaxBytes
  PROVE  /\ Taken(n) \in Seq(Byte) /\ Len(Taken(n)) = n
         /\ \A i \in 1 .. n : Taken(n)[i] = i
<1>1. n \in Nat /\ \A i \in 1 .. n : i \in Byte
  BY BoundsAssumption, SMT DEF Byte
<1>2. Taken(n) \in [1 .. n -> Byte]
  BY <1>1 DEF Taken
<1> QED BY <1>1, <1>2, SMT DEF Taken

LEMMA TakenMore ==
  ASSUME NEW k \in Nat, NEW n \in Nat, k + n <= MaxBytes
  PROVE  Taken(k) \o Numbered(k, n) = Taken(k + n)
<1>1. k \in 0 .. MaxBytes /\ k + n \in 0 .. MaxBytes
  BY BoundsAssumption, SMT
<1>2. /\ Numbered(k, n) \in Seq(Byte) /\ Len(Numbered(k, n)) = n
      /\ \A i \in 1 .. n : Numbered(k, n)[i] = k + i
  BY NumberedType
<1>3. /\ Taken(k) \in Seq(Byte) /\ Len(Taken(k)) = k
      /\ \A i \in 1 .. k : Taken(k)[i] = i
      /\ Taken(k + n) \in Seq(Byte) /\ Len(Taken(k + n)) = k + n
      /\ \A i \in 1 .. k + n : Taken(k + n)[i] = i
  BY <1>1, TakenType
<1>4. /\ Taken(k) \o Numbered(k, n) \in Seq(Byte)
      /\ Len(Taken(k) \o Numbered(k, n)) = k + n
      /\ \A i \in 1 .. k + n : (Taken(k) \o Numbered(k, n))[i]
           = IF i <= k THEN Taken(k)[i] ELSE Numbered(k, n)[i - k]
  <2> DEFINE s == Taken(k)
             t == Numbered(k, n)
  <2>1. s \in Seq(Byte) /\ t \in Seq(Byte) /\ Len(s) = k /\ Len(t) = n
    BY <1>2, <1>3
  <2> HIDE DEF s, t
  <2>2. /\ s \o t \in Seq(Byte) /\ Len(s \o t) = k + n
        /\ \A i \in 1 .. k + n : (s \o t)[i] = IF i <= k THEN s[i] ELSE t[i - k]
    BY <2>1, ConcatProperties
  <2> QED BY <2>2 DEF s, t
<1>5. ASSUME NEW i \in 1 .. k + n
      PROVE  (Taken(k) \o Numbered(k, n))[i] = Taken(k + n)[i]
  <2>1. CASE i <= k
    <3>1. i \in 1 .. k
      BY <2>1, SMT
    <3> QED BY <1>3, <1>4, <2>1, <3>1
  <2>2. CASE ~(i <= k)
    <3>1. i - k \in 1 .. n /\ k + (i - k) = i
      BY <2>2, SMT
    <3> QED BY <1>2, <1>3, <1>4, <2>2, <3>1
  <2> QED BY <2>1, <2>2
<1> QED BY <1>3, <1>4, <1>5, SeqEqual

LEMMA ForgottenInit == Init => NothingForgotten
<1> SUFFICES ASSUME Init PROVE consumed \o Unread = Taken(taken)
  BY DEF NothingForgotten, Taken
<1>1. /\ Origin = EmptyRange /\ Extra = 0 /\ consumed = <<>> /\ taken = 0
  BY DEF Init, NewBuffer, Origin, Extra, ActiveRange, SwapPending, ResultPending
<1>2. Tight /\ Coherent /\ Control /\ ~clobbered
  BY CoherentInit, ControlInit DEF Init
<1>3. Unread \in Seq(Byte) /\ Len(Unread) = 0
  <2>1. Unread \in Seq(Byte) /\ Len(Unread) = EmptyRange.len + 0
    BY <1>1, <1>2, UnreadType
  <2> QED BY <2>1, SMT DEF EmptyRange
<1>4. Unread = <<>> /\ Taken(0) = <<>>
  BY <1>3, EmptySeq DEF Taken
<1> QED BY <1>1, <1>3, <1>4, ConcatEmptySeq

LEMMA ForgottenStep ==
  TypeOK /\ Control /\ Coherent /\ NothingForgotten /\ [Next]_vars => NothingForgotten'
<1> SUFFICES ASSUME TypeOK, Control, Coherent, NothingForgotten, [Next]_vars, ~clobbered'
             PROVE  consumed' \o Unread' = Taken(taken')
  BY DEF NothingForgotten, Taken
<1>a. ~clobbered
  BY StreamStep
<1>b. consumed \o Unread = Taken(taken)
  BY <1>a DEF NothingForgotten, Taken
<1>c. consumed \in Seq(Byte) /\ Unread \in Seq(Byte) /\ taken \in Nat
  BY <1>a, UnreadType DEF TypeOK, Tight, Coherent
<1>1. CASE Quiet
  BY <1>1, <1>b DEF Quiet
<1>2. CASE Consumes
  <2>1. PICK n \in 1 .. Len(Unread) :
          /\ consumed' = consumed \o SubSeq(Unread, 1, n)
          /\ Unread' = SubSeq(Unread, n + 1, Len(Unread))
          /\ taken' = taken
    BY <1>2 DEF Consumes
  <2>2. /\ Len(Unread) \in Nat /\ n \in 0 .. Len(Unread) /\ n \in 1 - 1 .. Len(Unread)
        /\ 1 \in 1 .. Len(Unread) + 1 /\ Len(Unread) \in n .. Len(Unread)
    BY <1>c, LenProperties, SMT
  <2> DEFINE p == SubSeq(Unread, 1, n)
             q == SubSeq(Unread, n + 1, Len(Unread))
  <2>3. p \in Seq(Byte) /\ q \in Seq(Byte)
    BY <1>c, <2>2, PrefixType, Suffix
  <2>4. p \o q = Unread
    <3>1. p \o q = SubSeq(Unread, 1, Len(Unread))
      BY <1>c, <2>2, ConcatAdjacentSubSeq
    <3> QED BY <1>c, <3>1, SubSeqFull
  <2> HIDE DEF p, q
  <2>5. (consumed \o p) \o q = consumed \o (p \o q)
    <3>1. \A s, t, u \in Seq(Byte) : (s \o t) \o u = s \o (t \o u)
      BY ConcatAssociative
    <3> QED BY <1>c, <2>3, <3>1
  <2> QED BY <1>b, <2>1, <2>4, <2>5 DEF p, q
<1>3. CASE Fills
  <2>1. PICK n \in 1 .. BufSize :
          /\ Unread' = Unread \o Numbered(taken, n) /\ consumed' = consumed
          /\ taken' = taken + n /\ taken + n <= MaxBytes
    BY <1>3 DEF Fills
  <2>2. n \in Nat
    BY BufSizeAssumption, SMT
  <2>3. Numbered(taken, n) \in Seq(Byte)
    BY <1>c, <2>1, <2>2, NumberedType
  <2>4. (consumed \o Unread) \o Numbered(taken, n) = consumed \o (Unread \o Numbered(taken, n))
    BY <1>c, <2>3, ConcatAssociative
  <2> QED BY <1>b, <1>c, <2>1, <2>2, <2>4, TakenMore
<1> QED BY <1>1, <1>2, <1>3, StreamStep

-------------------------------------------------------------------------------
(* The inductive invariant.                                                *)
IInv == /\ TypeOK /\ Control /\ Coherent /\ OnlyCrashesClobber
        /\ StoredEof /\ EofIsLast /\ NothingForgotten

LEMMA Invariant == Spec => []IInv
<1>1. Init => IInv
  <2> SUFFICES ASSUME Init PROVE IInv
    OBVIOUS
  <2>1. TypeOK
    <3>1. 0 \in 0 .. MaxBytes /\ 0 \in 0 .. 0 /\ 0 \in 0 .. MaxCrashes /\ Len(<<>>) = 0
      BY BoundsAssumption, SMT
    <3> QED BY <3>1, CoherentInit DEF Init, TypeOK, PC, Tight
  <2>2. EofIsLast
    BY DEF Init, EofIsLast
  <2> QED BY <2>1, <2>2, ControlInit, CoherentInit, ForgottenInit DEF IInv
<1>2. IInv /\ [Next]_vars => IInv'
  <2> SUFFICES ASSUME IInv, [Next]_vars PROVE IInv'
    OBVIOUS
  <2>1. /\ Control' /\ OnlyCrashesClobber' /\ StoredEof' /\ EofIsLast' /\ Counters'
        /\ (~clobbered' => Tight') /\ Coherent' /\ NothingForgotten'
    BY ControlStep, EofStep, CountersStep, CoherentStep, ForgottenStep DEF IInv
  <2>2. TypeOK'
    BY <2>1 DEF TypeOK, Counters, Tight
  <2> QED BY <2>1, <2>2 DEF IInv
<1> QED BY <1>1, <1>2, PTL DEF Spec

(* Type correctness. *)
THEOREM TypeCorrect == Spec => []TypeOK
BY Invariant, PTL DEF IInv

(* At every moment the bytes consumed and the bytes that the next call of  *)
(* atomic_recv will find in the buffer, a result pending there included,   *)
(* make up the bytes that recvmmsg handed out.                             *)
THEOREM Conservation == Spec => []NothingForgotten
BY Invariant, PTL DEF IInv

(* atomic_recv reports the end of the stream when it has been reached,     *)
(* also by a result that a dead worker left.                               *)
THEOREM EndOfStream == Spec => []EofIsLast
BY Invariant, PTL DEF IInv

(* The transformation sees the received bytes exactly once and in order,   *)
(* for every buffer size and every number of crashes, unless it runs over  *)
(* an unfinished transaction; and without a crash it never does.           *)
THEOREM ReceivedExactlyOnce == Spec => []ExactlyOnce
<1>1. IInv => ExactlyOnce
  <2> SUFFICES ASSUME IInv, ~clobbered, NEW i \in DOMAIN consumed
               PROVE  consumed[i] = i
    BY DEF IInv, OnlyCrashesClobber, ExactlyOnce, InOrder
  <2>1. consumed \in Seq(Byte) /\ Unread \in Seq(Byte) /\ taken \in 0 .. MaxBytes
    <3>1. taken \in 0 .. MaxBytes
      BY BoundsAssumption, SMT DEF IInv, TypeOK
    <3> QED BY <3>1, UnreadType DEF IInv, TypeOK, Tight, Coherent
  <2>2. consumed \o Unread = Taken(taken)
    BY DEF IInv, NothingForgotten, Taken
  <2>3. /\ Len(consumed) \in Nat /\ Len(Unread) \in Nat /\ i \in 1 .. Len(consumed)
        /\ Len(consumed \o Unread) = Len(consumed) + Len(Unread)
        /\ \A j \in 1 .. Len(consumed) + Len(Unread) :
             (consumed \o Unread)[j]
               = IF j <= Len(consumed) THEN consumed[j] ELSE Unread[j - Len(consumed)]
    BY <2>1, LenProperties, ConcatProperties
  <2>4. i \in 1 .. Len(consumed) + Len(Unread) /\ i <= Len(consumed)
    BY <2>3, SMT
  <2>5. Taken(taken)[i] = i
    BY <2>1, <2>2, <2>3, <2>4, TakenType
  <2> QED BY <2>2, <2>3, <2>4, <2>5
<1> QED BY <1>1, Invariant, PTL

(* Adding to the end of a queue is a write of the byte stream. *)
LEMMA AppendIsWrite ==
  ASSUME NEW S, NEW s \in Seq(S), NEW t \in Seq(S), Len(t) > 0
  PROVE  Len(s \o t) > Len(s) /\ SubSeq(s \o t, 1, Len(s)) = s
<1>1. /\ Len(s) \in Nat /\ Len(t) \in Nat
      /\ s \o t \in Seq(S) /\ Len(s \o t) = Len(s) + Len(t)
      /\ \A i \in 1 .. Len(s) + Len(t) :
           (s \o t)[i] = IF i <= Len(s) THEN s[i] ELSE t[i - Len(s)]
  BY LenProperties, ConcatProperties
<1>2. \A i \in 1 .. Len(s) : (s \o t)[i] = s[i] /\ (s \o t)[i] \in S
  <2> TAKE i \in 1 .. Len(s)
  <2>1. i \in 1 .. Len(s) + Len(t) /\ i <= Len(s)
    BY <1>1, SMT
  <2> QED BY <1>1, <2>1, ElementOfSeq
<1>3. Len(s \o t) > Len(s)
  BY <1>1, SMT
<1> DEFINE u == s \o t
<1>4. u \in Seq(S) /\ Len(u) \in Nat /\ Len(s) <= Len(u)
  BY <1>1, LenProperties, SMT
<1>5. \A i \in 1 .. Len(s) : u[i] = s[i]
  BY <1>2
<1> HIDE DEF u
<1>6. SubSeq(u, 1, Len(s)) = s
  <2>1. CASE Len(s) = 0
    BY <1>1, <2>1, SubSeqEmpty, EmptySeq, SMT
  <2>2. CASE Len(s) # 0
    <3>1. Len(s) \in 1 .. Len(u)
      BY <1>1, <1>4, <2>2, SMT
    <3>2. SubSeq(u, 1, Len(s)) \in Seq(S)
      BY <1>4, <3>1, PrefixType
    <3> QED BY <1>1, <1>4, <1>5, <3>1, <3>2, SMT
  <2> QED BY <2>1, <2>2
<1> QED BY <1>3, <1>6 DEF u

(* Every step of atomic_recv is a step of the reliable byte stream, or     *)
(* none: recvmmsg is the instant at which the whole transaction happens.   *)
THEOREM Refinement == Spec => ImplementsStream
<1>1. Init => Stream!Init
  <2> SUFFICES ASSUME Init PROVE Unread = <<>> /\ consumed = <<>>
    BY DEF Stream!Init
  <2>1. /\ Origin = EmptyRange /\ Extra = 0
    BY DEF Init, NewBuffer, Origin, Extra, ActiveRange, SwapPending, ResultPending
  <2>2. Tight /\ Coherent /\ Control /\ ~clobbered
    BY CoherentInit, ControlInit DEF Init
  <2>3. Unread \in Seq(Byte) /\ Len(Unread) = EmptyRange.len + 0
    BY <2>1, <2>2, UnreadType
  <2>4. Len(Unread) = 0
    BY <2>3, SMT DEF EmptyRange
  <2> QED BY <2>3, <2>4, EmptySeq DEF Init
<1>2. IInv /\ [Next]_vars => [~clobbered' => Stream!Next]_<<Unread, consumed>>
  <2> SUFFICES ASSUME IInv, [Next]_vars, ~clobbered'
               PROVE  Stream!Next \/ UNCHANGED <<Unread, consumed>>
    OBVIOUS
  <2>a. ~clobbered /\ (Quiet \/ Consumes \/ Fills)
    BY StreamStep DEF IInv
  <2>1. CASE Quiet
    BY <2>1 DEF Quiet
  <2>2. CASE Consumes
    BY <2>2 DEF Consumes, Stream!Next, Stream!Deliver
  <2>3. CASE Fills
    <3>1. PICK n \in 1 .. BufSize :
            /\ Unread' = Unread \o Numbered(taken, n) /\ consumed' = consumed
            /\ taken + n <= MaxBytes
      BY <2>3 DEF Fills
    <3>2. n \in Nat /\ n > 0 /\ taken \in Nat
      BY BufSizeAssumption, SMT DEF IInv, TypeOK
    <3>3. /\ Unread \in Seq(Byte)
          /\ Numbered(taken, n) \in Seq(Byte) /\ Len(Numbered(taken, n)) = n
      BY <2>a, <3>1, <3>2, UnreadType, NumberedType DEF IInv, TypeOK, Tight
    <3>4. Len(Unread') > Len(Unread) /\ SubSeq(Unread', 1, Len(Unread)) = Unread
      BY <3>1, <3>2, <3>3, AppendIsWrite
    <3> QED BY <3>1, <3>4 DEF Stream!Next, Stream!Write
  <2> QED BY <2>a, <2>1, <2>2, <2>3
<1>3. Spec => [][~clobbered' => Stream!Next]_<<Unread, consumed>>
  BY <1>2, Invariant, PTL DEF Spec
<1> QED BY <1>1, <1>3, PTL DEF Spec, ImplementsStream
===============================================================================
