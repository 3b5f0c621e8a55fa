--------------------------- MODULE AtomicSendProofs ---------------------------
(***************************************************************************)
(* Theorems about AtomicSend, for every buffer size, every number of bytes *)
(* and every number of crashes.                                            *)
(***************************************************************************)
EXTENDS AtomicSend, AtomicBufferProofs

LEMMA SendResultType ==
  ASSUME TypeOK, tx.msgLen # Sentinel
  PROVE  SendResult(tx) \in Ranges /\ tx.msgLen \in 0 .. BufSize
<1>1. tx.msgLen \in 0 .. BufSize /\ ActiveRange(tx) \in Ranges
  BY BufferFields DEF TypeOK
<1> QED BY <1>1, LtrimType, BufSizeAssumption DEF SendResult

(* The bytes that a transformation appends are bytes. *)
LEMMA NumberedType ==
  ASSUME produced \in 0 .. MaxBytes, NEW n \in Nat, produced + n <= MaxBytes
  PROVE  /\ Numbered(n) \in Seq(Byte)
         /\ Len(Numbered(n)) = n
         /\ \A i \in 1 .. n : Numbered(n)[i] = produced + i
<1>1. \A i \in 1 .. n : produced + i \in Byte
  BY BoundsAssumption, SMT DEF Byte
<1>2. Numbered(n) \in [1 .. n -> Byte]
  BY <1>1 DEF Numbered
<1> QED BY <1>2, SMT DEF Numbered

LEMMA GatherType ==
  ASSUME TypeOK, NEW n \in 1 .. BufSize, n <= ActiveRange(tx).len
  PROVE  /\ Gather(tx.buf, IovecUsed(ActiveRange(tx)), n) \in Seq(Byte)
         /\ Gather(tx.buf, IovecUsed(ActiveRange(tx)), n)
              = SubSeq(Contents(tx.buf, ActiveRange(tx)), 1, n)
<1> DEFINE r == ActiveRange(tx)
           c == Contents(tx.buf, r)
<1>1. r \in Ranges /\ tx.buf \in [Index -> Byte]
  BY BufferFields DEF TypeOK
<1>2. r.len \in Nat /\ n \in 0 .. r.len
  BY <1>1, BufSizeAssumption, SMT DEF Ranges
<1>3. c \in Seq(Byte) /\ Len(c) = r.len
  BY <1>1, ContentsType
<1>4. SubSeq(c, 1, n) \in Seq(Byte)
  <2>1. \A i \in 1 .. n : c[i] \in Byte
    <3> HIDE DEF c, r
    <3> QED BY <1>2, <1>3, ElementOfSeq, SMT
  <2>2. 1 \in Int /\ n \in Int
    OBVIOUS
  <2> HIDE DEF c
  <2> QED BY <2>1, <2>2, SubSeqProperties
<1>5. Gather(tx.buf, IovecUsed(r), n) = SubSeq(c, 1, n)
  BY <1>1, <1>2, GatherContents
<1> QED BY <1>4, <1>5

-------------------------------------------------------------------------------
LEMMA TypeInit == Init => TypeOK
<1>1. 0 \in Byte /\ 0 \in 0 .. MaxBytes /\ 0 \in 0 .. MaxCrashes
  BY BoundsAssumption, SMT DEF Byte
<1>2. NewBuffer(0) \in AtomicBuffers(Byte)
  BY <1>1, NewBufferType
<1> QED BY <1>1, <1>2, EmptySeq DEF Init, TypeOK, PC

LEMMA TypeStep == TypeOK /\ Coherent /\ [Next]_vars => TypeOK'
<1> SUFFICES ASSUME TypeOK, Coherent, [Next]_vars
             PROVE  TypeOK'
  OBVIOUS
<1> USE DEF TypeOK, PC, Goto, Local
<1>0. /\ tx.state \in TransactionStates
      /\ tx.msgLen \in (0 .. BufSize) \cup {Sentinel}
      /\ tx.active \in 0 .. 1 /\ 1 - tx.active \in 0 .. 1 /\ tx.bit \in 0 .. 1
      /\ ActiveRange(tx) \in Ranges /\ InactiveRange(tx) \in Ranges
      /\ tx.buf \in [Index -> Byte]
  BY BufferFields
<1>1. CASE Call
  <2>1. Entry(tx.state) \in PC
    BY <1>0 DEF Entry, TransactionStates
  <2> QED BY <1>1, <2>1 DEF Call
<1>2. CASE Prepare
  BY <1>2, MsgLenStore DEF Prepare, Prepared
<1>3. CASE Begin
  BY <1>3, <1>0, StateStore DEF Begin, Begun, TransactionStates
<1>4. CASE StoreSwap
  BY <1>4, <1>0, StateStore DEF StoreSwap, SendSwap, TransactionStates
<1>5. CASE Restore
  BY <1>5, <1>0, StateStore DEF Restore, SendRestored, TransactionStates
<1>6. CASE CopyTrimmed
  <2>1. tx.msgLen # Sentinel
    BY <1>6 DEF CopyTrimmed, Coherent, Swapping, NotYetCalled
  <2>2. SendResult(tx) \in Ranges
    BY <2>1, SendResultType
  <2> QED BY <1>6, <2>2, InactiveStore DEF CopyTrimmed
<1>7. CASE Flip
  BY <1>7, FlipStore DEF Flip
<1>8. CASE Finish
  BY <1>8, <1>0, StateStore DEF Finish, Finished, TransactionStates
<1>9. CASE Tear
  <2>1. tx.msgLen # Sentinel
    BY <1>9 DEF Tear, Coherent, Swapping, NotYetCalled
  <2>2. SendResult(tx) \in Ranges
    BY <2>1, SendResultType
  <2>3. PICK s \in {ActiveRange(tx).start, InactiveRange(tx).start, SendResult(tx).start},
             l \in {ActiveRange(tx).len, InactiveRange(tx).len, SendResult(tx).len} :
               tx' = WithInactive(tx, [ActiveRange(tx) EXCEPT !.start = s, !.len = l])
    BY <1>9 DEF Tear
  <2>4. tx' \in AtomicBuffers(Byte)
    <3>1. s \in Index /\ l \in 0 .. BufSize
      BY <1>0, <2>2 DEF Ranges
    <3>2. [ActiveRange(tx) EXCEPT !.start = s, !.len = l] \in Ranges
      BY <1>0, <3>1 DEF Ranges
    <3> QED BY <2>3, <3>2, InactiveStore
  <2> QED BY <1>9, <2>4 DEF Tear
<1>10. ASSUME NEW n \in 1 .. BufSize, Sendmmsg(n)
       PROVE  TypeOK'
  <2>1. sent' \in Seq(Byte)
    BY <1>10, GatherType, ConcatProperties DEF Sendmmsg
  <2>2. tx' \in AtomicBuffers(Byte)
    <3>1. n \in 0 .. BufSize
      BY BufSizeAssumption, SMT
    <3> QED BY <1>10, <3>1, MsgLenStore DEF Sendmmsg, SendDone
  <2> QED BY <1>10, <2>1, <2>2 DEF Sendmmsg
<1>11. ASSUME NEW n \in 1 .. BufSize, AppendBytes(n)
       PROVE  TypeOK'
  <2>1. n \in Nat /\ produced + n <= MaxBytes
    BY <1>11, BufSizeAssumption, SMT DEF AppendBytes
  <2>2. produced' \in 0 .. MaxBytes
    BY <1>11, <2>1, BoundsAssumption, SMT DEF AppendBytes
  <2>3. tx' \in AtomicBuffers(Byte)
    BY <1>11, <2>1, NumberedType, AppendedBuffer DEF AppendBytes
  <2> QED BY <1>11, <2>2, <2>3 DEF AppendBytes
<1>12. CASE SendmmsgFails
  BY <1>12 DEF SendmmsgFails
<1>13. CASE Crash
  <2>1. crashes' \in 0 .. MaxCrashes
    BY <1>13, BoundsAssumption, SMT DEF Crash
  <2> QED BY <1>13, <2>1 DEF Crash
<1>14. CASE UNCHANGED vars
  BY <1>14 DEF vars
<1> QED BY <1>1, <1>2, <1>3, <1>4, <1>5, <1>6, <1>7, <1>8, <1>9, <1>10, <1>11, <1>12,
           <1>13, <1>14 DEF Next, Step

-------------------------------------------------------------------------------
LEMMA CoherentInit == Init => Coherent
<1> SUFFICES ASSUME Init PROVE Coherent
  OBVIOUS
<1>1. /\ tx.state = "INIT" /\ Origin = EmptyRange /\ pc = "idle"
  BY DEF Init, NewBuffer, Origin, ActiveRange
<1>2. Gone = 0 /\ Origin.len = 0
  BY <1>1 DEF Gone, EmptyRange
<1> QED BY <1>1, <1>2 DEF Coherent, Swapping

(* Every step keeps the worker and the buffer in agreement. *)
LEMMA CoherentStep == TypeOK /\ Coherent /\ [Next]_vars => Coherent'
<1> SUFFICES ASSUME TypeOK, Coherent, [Next]_vars
             PROVE  Coherent'
  OBVIOUS
<1> USE DEF Coherent, Swapping, Goto, Local, NotYetCalled
<1>0. /\ tx \in AtomicBuffers(Byte)
      /\ tx.state \in TransactionStates
      /\ tx.msgLen \in (0 .. BufSize) \cup {Sentinel}
      /\ tx.active \in 0 .. 1 /\ 1 - tx.active \in 0 .. 1 /\ tx.bit \in 0 .. 1
      /\ tx.active # 1 - tx.active
      /\ ActiveRange(tx) \in Ranges /\ InactiveRange(tx) \in Ranges
      /\ ActiveRange(tx).len \in 0 .. BufSize
      /\ pc \in PC /\ crashes \in Nat
  BY BufferFields, BoundsAssumption DEF TypeOK, Ranges
<1>1. CASE Call
  BY <1>1, <1>0 DEF Call, Entry, TransactionStates, Origin, Gone
<1>2. CASE Prepare
  <2>1. /\ tx'.state = tx.state /\ tx'.msgLen = Sentinel
        /\ tx'.active = tx.active /\ tx'.range = tx.range
    BY <1>2, <1>0 DEF Prepare, Prepared, AtomicBuffers
  <2>2. Gone' = 0 /\ Origin' = ActiveRange(tx)
    BY <1>2, <2>1 DEF Gone, Origin, Prepare, ActiveRange
  <2> QED BY <1>2, <1>0, <2>1, <2>2 DEF Prepare
<1>3. CASE Begin
  <2>1. /\ tx'.state = "DO_SYSCALL" /\ tx'.msgLen = Sentinel
        /\ tx'.active = tx.active /\ tx'.range = tx.range
    BY <1>3, <1>0 DEF Begin, Begun, AtomicBuffers
  <2>2. Gone' = 0 /\ Origin' = ActiveRange(tx)
    BY <1>3, <2>1 DEF Gone, Origin, Begin, ActiveRange
  <2> QED BY <1>3, <1>0, <2>1, <2>2 DEF Begin
<1>4. CASE StoreSwap
  <2>1. /\ tx'.state = "SWAP" /\ tx'.bit = tx.active /\ tx'.msgLen = tx.msgLen
        /\ tx'.active = tx.active /\ tx'.range = tx.range
    BY <1>4, <1>0 DEF StoreSwap, SendSwap, AtomicBuffers
  <2>2. Gone' = Gone /\ Origin' = Origin
    BY <1>4, <2>1 DEF Gone, Origin, StoreSwap, ActiveRange
  <2> QED BY <1>4, <1>0, <2>1, <2>2 DEF StoreSwap
<1>5. CASE Restore
  <2>1. /\ tx'.state = tx.state /\ tx'.bit = tx.bit /\ tx'.msgLen = tx.msgLen
        /\ tx'.active = tx.bit /\ tx'.range = tx.range
    BY <1>5, <1>0 DEF Restore, SendRestored, AtomicBuffers
  <2>2. Gone' = Gone /\ Origin' = Origin
    BY <1>5, <2>1 DEF Gone, Origin, Restore, ActiveRange
  <2> QED BY <1>5, <1>0, <2>1, <2>2 DEF Restore
<1>6. CASE CopyTrimmed
  <2>0. tx.msgLen # Sentinel /\ tx.state = "SWAP" /\ tx.active = tx.bit
    BY <1>6 DEF CopyTrimmed
  <2>1. SendResult(tx) \in Ranges
    BY <2>0, SendResultType
  <2>2. /\ tx'.state = tx.state /\ tx'.bit = tx.bit /\ tx'.msgLen = tx.msgLen
        /\ tx'.active = tx.active /\ tx'.range[tx.active] = tx.range[tx.active]
        /\ ActiveRange(tx') = ActiveRange(tx) /\ InactiveRange(tx') = SendResult(tx)
    BY <1>6, <1>0, <2>1, InactiveStore DEF CopyTrimmed
  <2>3. SendResult(tx') = SendResult(tx)
    BY <2>2 DEF SendResult
  <2>4. Gone' = Gone /\ Origin' = Origin
    BY <2>0, <2>2 DEF Gone, Origin
  <2> QED BY <1>6, <1>0, <2>0, <2>2, <2>3, <2>4 DEF CopyTrimmed
<1>7. CASE Flip
  <2>1. /\ tx'.state = tx.state /\ tx'.bit = tx.bit /\ tx'.msgLen = tx.msgLen
        /\ tx'.active = 1 - tx.active /\ tx'.range = tx.range
        /\ ActiveRange(tx') = InactiveRange(tx)
    BY <1>7, <1>0, FlipStore DEF Flip
  <2>2. tx.state = "SWAP" /\ tx.active = tx.bit /\ InactiveRange(tx) = SendResult(tx)
    BY <1>7 DEF Flip
  <2>3. ActiveRange(tx') = Ltrim(tx'.range[tx'.bit], tx'.msgLen)
    BY <2>1, <2>2 DEF SendResult, ActiveRange
  <2>4. Gone' = Gone /\ Origin' = Origin
    BY <2>1, <2>2 DEF Gone, Origin
  <2> QED BY <1>7, <1>0, <2>1, <2>2, <2>3, <2>4 DEF Flip
<1>8. CASE Finish
  <2>1. tx'.state = "INIT" /\ tx'.active = tx.active /\ tx'.range = tx.range
    BY <1>8, <1>0 DEF Finish, Finished, AtomicBuffers
  <2>2. Gone' = 0 /\ Origin' = ActiveRange(tx)
    BY <2>1 DEF Gone, Origin, ActiveRange
  <2> QED BY <1>8, <1>0, <2>1, <2>2 DEF Finish
<1>9. CASE Tear
  <2>0. tx.msgLen # Sentinel /\ tx.state = "SWAP" /\ tx.active = tx.bit
    BY <1>9 DEF Tear
  <2>1. SendResult(tx) \in Ranges
    BY <2>0, SendResultType
  <2>2. PICK r \in Ranges : tx' = WithInactive(tx, r)
    <3>1. PICK s \in {ActiveRange(tx).start, InactiveRange(tx).start, SendResult(tx).start},
               l \in {ActiveRange(tx).len, InactiveRange(tx).len, SendResult(tx).len} :
                 tx' = WithInactive(tx, [ActiveRange(tx) EXCEPT !.start = s, !.len = l])
      BY <1>9 DEF Tear
    <3>2. s \in Index /\ l \in 0 .. BufSize
      BY <1>0, <2>1 DEF Ranges
    <3>3. [ActiveRange(tx) EXCEPT !.start = s, !.len = l] \in Ranges
      BY <1>0, <3>2 DEF Ranges
    <3> QED BY <3>1, <3>3
  <2>3. /\ tx'.state = tx.state /\ tx'.bit = tx.bit /\ tx'.msgLen = tx.msgLen
        /\ tx'.active = tx.active /\ tx'.range[tx.active] = tx.range[tx.active]
    BY <1>0, <2>2, InactiveStore
  <2>4. Gone' = Gone /\ Origin' = Origin
    BY <2>0, <2>3 DEF Gone, Origin
  <2> QED BY <1>9, <1>0, <2>0, <2>3, <2>4 DEF Tear
<1>10. ASSUME NEW n \in 1 .. BufSize, Sendmmsg(n)
       PROVE  Coherent'
  <2>1. /\ tx'.state = "DO_SYSCALL" /\ tx'.msgLen = n
        /\ tx'.active = tx.active /\ tx'.range = tx.range
    BY <1>10, <1>0 DEF Sendmmsg, SendDone, AtomicBuffers
  <2>2. n # Sentinel /\ n <= ActiveRange(tx).len
    BY <1>10, BufSizeAssumption, SMT DEF Sendmmsg, Sentinel
  <2>3. Gone' = n /\ Origin' = ActiveRange(tx)
    BY <2>1, <2>2 DEF Gone, Origin, ActiveRange
  <2> QED BY <1>10, <1>0, <2>1, <2>2, <2>3 DEF Sendmmsg
<1>11. ASSUME NEW n \in 1 .. BufSize, AppendBytes(n)
       PROVE  Coherent'
  <2>0. n \in Nat /\ produced + n <= MaxBytes
    BY <1>11, BufSizeAssumption, SMT DEF AppendBytes
  <2>1. /\ tx'.state = tx.state /\ tx'.bit = tx.bit /\ tx'.msgLen = tx.msgLen
        /\ ActiveRange(tx').len = ActiveRange(tx).len + n
    <3>1. Numbered(n) \in Seq(Byte) /\ Len(Numbered(n)) = n
      BY <2>0, NumberedType DEF TypeOK
    <3>2. /\ Len(Numbered(n)) <= Capacity(IovecUnused(ActiveRange(tx)))
          /\ tx' = Appended(tx, Numbered(n))
      BY <1>11, <3>1 DEF AppendBytes
    <3> HIDE DEF AppendBytes
    <3> QED BY <1>0, <3>1, <3>2, AppendedBuffer
  <2>2. ASSUME ~clobbered' PROVE (Gone <= Origin.len)'
    <3>1. ~clobbered /\ tx.state # "SWAP"
      BY <1>11, <2>2 DEF AppendBytes, TypeOK
    <3>2. Gone <= ActiveRange(tx).len /\ Gone' = Gone /\ Origin' = ActiveRange(tx')
      BY <2>1, <3>1 DEF Gone, Origin
    <3>3. Gone \in Nat
      BY <1>0, BufSizeAssumption, SMT DEF Gone
    <3> QED BY <1>0, <2>0, <2>1, <3>2, <3>3, SMT
  <2> QED BY <1>11, <1>0, <2>1, <2>2 DEF AppendBytes
<1>12. CASE SendmmsgFails
  BY <1>12 DEF SendmmsgFails, Gone, Origin
<1>13. CASE Crash
  <2>1. crashes' # 0
    BY <1>13, <1>0, SMT DEF Crash
  <2> QED BY <1>13, <2>1 DEF Crash, Gone, Origin
<1>14. CASE UNCHANGED vars
  BY <1>14 DEF vars, Gone, Origin
<1> QED BY <1>1, <1>2, <1>3, <1>4, <1>5, <1>6, <1>7, <1>8, <1>9, <1>10, <1>11, <1>12,
           <1>13, <1>14 DEF Next, Step

-------------------------------------------------------------------------------
(* The unsent bytes are a sequence, and they depend on nothing but the     *)
(* bytes, the range to trust and what is gone from it.                     *)
LEMMA UnsentType ==
  ASSUME TypeOK, Coherent, ~clobbered
  PROVE  /\ Origin \in Ranges /\ Gone \in 0 .. Origin.len
         /\ Contents(tx.buf, Origin) \in Seq(Byte)
         /\ Len(Contents(tx.buf, Origin)) = Origin.len
         /\ Unsent \in Seq(Byte)
         /\ Len(Unsent) = Origin.len - Gone
<1>1. Origin \in Ranges /\ tx.buf \in [Index -> Byte]
  BY BufferFields DEF TypeOK, Origin
<1>2. Gone \in Nat /\ Gone <= Origin.len
  BY BufferFields, BufSizeAssumption, SMT DEF TypeOK, Coherent, Gone, NotYetCalled
<1>3. Gone \in 0 .. Origin.len
  BY <1>1, <1>2, BufSizeAssumption, SMT DEF Ranges
<1>4. Contents(tx.buf, Origin) \in Seq(Byte) /\ Len(Contents(tx.buf, Origin)) = Origin.len
  BY <1>1, ContentsType
<1> QED BY <1>1, <1>3, <1>4, Suffix DEF Unsent

(* What a step does to the unsent bytes and to the bytes sent, while no    *)
(* unfinished swap has been written over: nothing, or it sends some off    *)
(* the front, or it appends the next ones.                                 *)
Quiet == Unsent' = Unsent /\ sent' = sent /\ produced' = produced

Sends == \E n \in 1 .. Len(Unsent) :
           /\ sent' = sent \o SubSeq(Unsent, 1, n)
           /\ Unsent' = SubSeq(Unsent, n + 1, Len(Unsent))
           /\ produced' = produced

Appends == \E n \in 1 .. BufSize :
             /\ Unsent' = Unsent \o Numbered(n)
             /\ sent' = sent
             /\ produced' = produced + n
             /\ produced + n <= MaxBytes

LEMMA StreamStep ==
  ASSUME TypeOK, Coherent, [Next]_vars, ~clobbered'
  PROVE  Quiet \/ Sends \/ Appends
<1> USE DEF Goto, Local
<1>a. ~clobbered
  BY DEF Next, Step, Call, Prepare, Begin, Sendmmsg, SendmmsgFails, StoreSwap, Restore,
         Tear, CopyTrimmed, Flip, Finish, AppendBytes, Crash, vars, TypeOK
<1>b. /\ tx \in AtomicBuffers(Byte)
      /\ tx.state \in TransactionStates
      /\ tx.active \in 0 .. 1 /\ 1 - tx.active \in 0 .. 1 /\ tx.bit \in 0 .. 1
      /\ ActiveRange(tx) \in Ranges /\ InactiveRange(tx) \in Ranges
      /\ tx.buf \in [Index -> Byte]
  BY BufferFields DEF TypeOK
<1>c. ASSUME tx'.buf = tx.buf, Origin' = Origin, Gone' = Gone
      PROVE  Unsent' = Unsent
  BY <1>c DEF Unsent
<1>1. CASE tx' = tx /\ sent' = sent /\ produced' = produced
  BY <1>1 DEF Quiet, Unsent, Origin, Gone
<1>2. CASE Prepare
  <2>1. /\ tx'.state = tx.state /\ tx'.active = tx.active /\ tx'.range = tx.range
        /\ tx'.buf = tx.buf
    BY <1>2, <1>b DEF Prepare, Prepared, AtomicBuffers
  <2>2. tx.state = "INIT"
    BY <1>2 DEF Prepare, Coherent
  <2> QED BY <1>2, <1>c, <2>1, <2>2 DEF Prepare, Quiet, Origin, Gone, ActiveRange
<1>3. CASE Begin
  <2>1. /\ tx'.state = "DO_SYSCALL" /\ tx'.active = tx.active /\ tx'.range = tx.range
        /\ tx'.buf = tx.buf /\ tx'.msgLen = tx.msgLen
    BY <1>3, <1>b DEF Begin, Begun, AtomicBuffers
  <2>2. tx.state = "INIT" /\ NotYetCalled(tx)
    BY <1>3 DEF Begin, Coherent
  <2> QED BY <1>3, <1>c, <2>1, <2>2
          DEF Begin, Quiet, Origin, Gone, ActiveRange, NotYetCalled
<1>4. CASE StoreSwap
  <2>1. /\ tx'.state = "SWAP" /\ tx'.bit = tx.active /\ tx'.msgLen = tx.msgLen
        /\ tx'.active = tx.active /\ tx'.range = tx.range /\ tx'.buf = tx.buf
    BY <1>4, <1>b DEF StoreSwap, SendSwap, AtomicBuffers
  <2>2. tx.state = "DO_SYSCALL" /\ ~NotYetCalled(tx)
    BY <1>4 DEF StoreSwap, Coherent
  <2> QED BY <1>4, <1>c, <2>1, <2>2
          DEF StoreSwap, Quiet, Origin, Gone, ActiveRange, NotYetCalled
<1>5. CASE Restore
  <2>1. /\ tx'.state = tx.state /\ tx'.bit = tx.bit /\ tx'.msgLen = tx.msgLen
        /\ tx'.range = tx.range /\ tx'.buf = tx.buf
    BY <1>5, <1>b DEF Restore, SendRestored, AtomicBuffers
  <2>2. tx.state = "SWAP"
    BY <1>5 DEF Restore, Coherent, Swapping
  <2> QED BY <1>5, <1>c, <2>1, <2>2 DEF Restore, Quiet, Origin, Gone, NotYetCalled
<1>6. ASSUME NEW r \in Ranges, tx.state = "SWAP", tx.active = tx.bit,
             tx' = WithInactive(tx, r), sent' = sent, produced' = produced
      PROVE  Quiet
  <2>1. /\ tx'.state = tx.state /\ tx'.bit = tx.bit /\ tx'.msgLen = tx.msgLen
        /\ tx'.range[tx.active] = tx.range[tx.active] /\ tx'.buf = tx.buf
    BY <1>6, <1>b, InactiveStore
  <2> QED BY <1>6, <1>c, <2>1 DEF Quiet, Origin, Gone, NotYetCalled
<1>7. CASE CopyTrimmed
  <2>1. tx.msgLen # Sentinel /\ tx.state = "SWAP" /\ tx.active = tx.bit
    BY <1>7 DEF CopyTrimmed, Coherent, Swapping, NotYetCalled
  <2>2. SendResult(tx) \in Ranges
    BY <2>1, SendResultType
  <2> QED BY <1>6, <1>7, <2>1, <2>2 DEF CopyTrimmed
<1>8. CASE Tear
  <2>1. tx.msgLen # Sentinel /\ tx.state = "SWAP" /\ tx.active = tx.bit
    BY <1>8 DEF Tear, Coherent, Swapping, NotYetCalled
  <2>2. SendResult(tx) \in Ranges
    BY <2>1, SendResultType
  <2>3. PICK s \in {ActiveRange(tx).start, InactiveRange(tx).start, SendResult(tx).start},
             l \in {ActiveRange(tx).len, InactiveRange(tx).len, SendResult(tx).len} :
               tx' = WithInactive(tx, [ActiveRange(tx) EXCEPT !.start = s, !.len = l])
    BY <1>8 DEF Tear
  <2>4. s \in Index /\ l \in 0 .. BufSize
    BY <1>b, <2>2 DEF Ranges
  <2>5. [ActiveRange(tx) EXCEPT !.start = s, !.len = l] \in Ranges
    BY <1>b, <2>4 DEF Ranges
  <2> QED BY <1>6, <1>8, <2>1, <2>3, <2>5 DEF Tear
<1>9. CASE Flip
  <2>1. /\ tx'.state = tx.state /\ tx'.bit = tx.bit /\ tx'.msgLen = tx.msgLen
        /\ tx'.range = tx.range /\ tx'.buf = tx.buf
    BY <1>9, <1>b, FlipStore DEF Flip
  <2>2. tx.state = "SWAP"
    BY <1>9 DEF Flip, Coherent, Swapping
  <2> QED BY <1>9, <1>c, <2>1, <2>2 DEF Flip, Quiet, Origin, Gone, NotYetCalled
<1>10. CASE Finish
  <2> DEFINE c == Contents(tx.buf, Origin)
  <2>1. /\ tx'.state = "INIT" /\ tx'.active = tx.active /\ tx'.range = tx.range
        /\ tx'.buf = tx.buf
    BY <1>10, <1>b DEF Finish, Finished, AtomicBuffers
  <2>2. /\ Origin = tx.range[tx.bit] /\ Gone = tx.msgLen
        /\ ActiveRange(tx) = Ltrim(Origin, Gone)
    BY <1>10 DEF Finish, Coherent, Swapping, Origin, Gone, NotYetCalled
  <2>3. Origin' = ActiveRange(tx) /\ Gone' = 0
    BY <2>1 DEF Origin, Gone, ActiveRange
  <2>4. /\ Origin \in Ranges /\ Gone \in 0 .. Origin.len
        /\ Contents(tx.buf, ActiveRange(tx)) \in Seq(Byte)
        /\ Len(Contents(tx.buf, ActiveRange(tx))) = ActiveRange(tx).len
    BY <1>a, <1>b, UnsentType, ContentsType
  <2>5. Contents(tx.buf, ActiveRange(tx)) = SubSeq(c, Gone + 1, Origin.len)
    BY <1>b, <2>2, <2>4, LtrimContents
  <2>6. Unsent' = Contents(tx.buf, ActiveRange(tx))
    <3>1. Unsent' = SubSeq(Contents(tx.buf, ActiveRange(tx)), 0 + 1, ActiveRange(tx).len)
      BY <2>1, <2>3 DEF Unsent
    <3> QED BY <3>1, <2>4, SubSeqFull
  <2> QED BY <1>10, <2>5, <2>6 DEF Finish, Quiet, Unsent
<1>11. ASSUME NEW n \in 1 .. BufSize, Sendmmsg(n)
       PROVE  Sends
  <2> DEFINE c == Contents(tx.buf, ActiveRange(tx))
  <2>1. /\ tx'.state = "DO_SYSCALL" /\ tx'.msgLen = n
        /\ tx'.active = tx.active /\ tx'.range = tx.range /\ tx'.buf = tx.buf
    BY <1>11, <1>b DEF Sendmmsg, SendDone, AtomicBuffers, Coherent
  <2>2. n # Sentinel /\ n <= ActiveRange(tx).len
    BY <1>11, BufSizeAssumption, SMT DEF Sendmmsg, Sentinel
  <2>3. Gone = 0 /\ Gone' = n /\ Origin = ActiveRange(tx) /\ Origin' = ActiveRange(tx)
    BY <1>11, <2>1, <2>2 DEF Sendmmsg, Coherent, Gone, Origin, ActiveRange, NotYetCalled
  <2>4. c \in Seq(Byte) /\ Len(c) = ActiveRange(tx).len
    BY <1>b, ContentsType
  <2>5. Unsent = c
    <3>1. Unsent = SubSeq(c, 0 + 1, ActiveRange(tx).len)
      BY <2>3 DEF Unsent
    <3> QED BY <3>1, <2>4, SubSeqFull
  <2>6. Unsent' = SubSeq(c, n + 1, ActiveRange(tx).len)
    BY <2>1, <2>3 DEF Unsent
  <2>7. sent' = sent \o SubSeq(c, 1, n)
    BY <1>11, <2>2, GatherType DEF Sendmmsg
  <2>8. n \in 1 .. Len(Unsent)
    <3> HIDE DEF c
    <3> QED BY <1>b, <2>2, <2>4, <2>5, BufSizeAssumption, SMT DEF Ranges
  <2> QED BY <1>11, <2>4, <2>5, <2>6, <2>7, <2>8 DEF Sendmmsg, Sends
<1>12. ASSUME NEW n \in 1 .. BufSize, AppendBytes(n)
       PROVE  Appends
  <2> DEFINE c == Contents(tx.buf, Origin)
  <2>1. n \in Nat /\ produced + n <= MaxBytes
    BY <1>12, BufSizeAssumption, SMT DEF AppendBytes
  <2>2. Numbered(n) \in Seq(Byte) /\ Len(Numbered(n)) = n
    BY <2>1, NumberedType DEF TypeOK
  <2>3. /\ Len(Numbered(n)) <= Capacity(IovecUnused(ActiveRange(tx)))
        /\ tx' = Appended(tx, Numbered(n))
    BY <1>12, <2>2 DEF AppendBytes
  <2>4. /\ tx'.state = tx.state /\ tx'.msgLen = tx.msgLen
        /\ ActiveRange(tx').len = ActiveRange(tx).len + n
        /\ Contents(tx'.buf, ActiveRange(tx'))
             = Contents(tx.buf, ActiveRange(tx)) \o Numbered(n)
    BY <1>b, <2>2, <2>3, AppendedBuffer
  <2>5. tx.state # "SWAP"
    BY <1>12 DEF AppendBytes, TypeOK
  <2>6. Origin = ActiveRange(tx) /\ Origin' = ActiveRange(tx') /\ Gone' = Gone
    BY <2>4, <2>5 DEF Origin, Gone, NotYetCalled
  <2>7. c \in Seq(Byte) /\ Len(c) = Origin.len /\ Gone \in 0 .. Origin.len
    BY <1>a, UnsentType
  <2>8. Unsent' = SubSeq(c \o Numbered(n), Gone + 1, Len(c) + Len(Numbered(n)))
    BY <2>2, <2>4, <2>6, <2>7 DEF Unsent
  <2>9. Unsent' = SubSeq(c, Gone + 1, Len(c)) \o Numbered(n)
    <3> HIDE DEF c
    <3> QED BY <2>2, <2>7, <2>8, SuffixOfConcat
  <2> QED BY <1>12, <2>1, <2>7, <2>9 DEF AppendBytes, Appends, Unsent
<1> QED
  <2>1. Call \/ SendmmsgFails \/ Crash \/ UNCHANGED vars => tx' = tx /\ sent' = sent /\ produced' = produced
    BY DEF Call, SendmmsgFails, Crash, vars
  <2> QED BY <2>1, <1>1, <1>2, <1>3, <1>4, <1>5, <1>7, <1>8, <1>9, <1>10, <1>11, <1>12
          DEF Next, Step

-------------------------------------------------------------------------------
(* Nothing is forgotten: the bytes sent and the bytes unsent are together  *)
(* the bytes produced, in order.                                           *)
Produced == [i \in 1 .. produced |-> i]

LEMMA ProducedType ==
  ASSUME produced \in 0 .. MaxBytes
  PROVE  /\ Produced \in Seq(Byte) /\ Len(Produced) = produced
         /\ \A i \in 1 .. produced : Produced[i] = i
<1>1. produced \in Nat /\ \A i \in 1 .. produced : i \in Byte
  BY BoundsAssumption, SMT DEF Byte
<1>2. Produced \in [1 .. produced -> Byte]
  BY <1>1 DEF Produced
<1> QED BY <1>1, <1>2, SMT DEF Produced

LEMMA ForgottenInit == Init => NothingForgotten
<1> SUFFICES ASSUME Init PROVE sent \o Unsent = Produced
  BY DEF NothingForgotten, Produced
<1>1. /\ Origin = EmptyRange /\ Gone = 0 /\ sent = <<>> /\ produced = 0
  BY DEF Init, NewBuffer, Origin, Gone, ActiveRange
<1>2. Unsent = <<>>
  BY <1>1, SubSeqEmpty, SMT DEF Unsent, EmptyRange
<1>3. Produced = <<>>
  BY <1>1 DEF Produced
<1>4. sent \o Unsent = <<>>
  BY <1>1, <1>2, ConcatEmptySeq, EmptySeq
<1> QED BY <1>3, <1>4

LEMMA ForgottenStep ==
  TypeOK /\ Coherent /\ NothingForgotten /\ [Next]_vars => NothingForgotten'
<1> SUFFICES ASSUME TypeOK, Coherent, NothingForgotten, [Next]_vars, ~clobbered'
             PROVE  sent' \o Unsent' = Produced'
  BY DEF NothingForgotten, Produced
<1>a. ~clobbered
  BY DEF Next, Step, Call, Prepare, Begin, Sendmmsg, SendmmsgFails, StoreSwap, Restore,
         Tear, CopyTrimmed, Flip, Finish, AppendBytes, Crash, vars, TypeOK, Goto, Local
<1>b. sent \o Unsent = Produced
  BY <1>a DEF NothingForgotten, Produced
<1>c. sent \in Seq(Byte) /\ Unsent \in Seq(Byte) /\ produced \in 0 .. MaxBytes
  BY <1>a, UnsentType DEF TypeOK
<1>1. CASE Quiet
  BY <1>1, <1>b DEF Quiet, Produced
<1>2. CASE Sends
  <2>1. PICK n \in 1 .. Len(Unsent) :
          /\ sent' = sent \o SubSeq(Unsent, 1, n)
          /\ Unsent' = SubSeq(Unsent, n + 1, Len(Unsent))
          /\ produced' = produced
    BY <1>2 DEF Sends
  <2>2. /\ Len(Unsent) \in Nat /\ n \in 0 .. Len(Unsent) /\ n \in 1 - 1 .. Len(Unsent)
        /\ 1 \in 1 .. Len(Unsent) + 1 /\ Len(Unsent) \in n .. Len(Unsent)
        /\ n \in Int
    BY <1>c, LenProperties, SMT
  <2>3. SubSeq(Unsent, 1, n) \in Seq(Byte)
    <3>1. \A i \in 1 .. n : Unsent[i] \in Byte
      <4> TAKE i \in 1 .. n
      <4>1. i \in 1 .. Len(Unsent)
        BY <2>2, SMT
      <4> QED BY <1>c, <4>1, ElementOfSeq
    <3> QED BY <2>2, <3>1, SubSeqProperties
  <2>4. SubSeq(Unsent, n + 1, Len(Unsent)) \in Seq(Byte)
    BY <1>c, <2>2, Suffix
  <2>5. SubSeq(Unsent, 1, n) \o SubSeq(Unsent, n + 1, Len(Unsent)) = Unsent
    <3>1. SubSeq(Unsent, 1, n) \o SubSeq(Unsent, n + 1, Len(Unsent))
            = SubSeq(Unsent, 1, Len(Unsent))
      BY <1>c, <2>2, ConcatAdjacentSubSeq
    <3> QED BY <1>c, <3>1, SubSeqFull
  <2>6. sent' \o Unsent' = sent \o Unsent
    <3>1. (sent \o SubSeq(Unsent, 1, n)) \o SubSeq(Unsent, n + 1, Len(Unsent))
            = sent \o (SubSeq(Unsent, 1, n) \o SubSeq(Unsent, n + 1, Len(Unsent)))
      <4> DEFINE p == SubSeq(Unsent, 1, n)
                 q == SubSeq(Unsent, n + 1, Len(Unsent))
      <4>1. p \in Seq(Byte) /\ q \in Seq(Byte)
        BY <2>3, <2>4
      <4> HIDE DEF p, q
      <4>2. \A s, t, u \in Seq(Byte) : (s \o t) \o u = s \o (t \o u)
        BY ConcatAssociative
      <4>3. (sent \o p) \o q = sent \o (p \o q)
        BY <1>c, <4>1, <4>2
      <4> QED BY <4>3 DEF p, q
    <3> QED BY <2>1, <2>5, <3>1
  <2> QED BY <1>b, <2>1, <2>6 DEF Produced
<1>3. CASE Appends
  <2>1. PICK n \in 1 .. BufSize :
          /\ Unsent' = Unsent \o Numbered(n) /\ sent' = sent
          /\ produced' = produced + n /\ produced + n <= MaxBytes
    BY <1>3 DEF Appends
  <2>2. n \in Nat /\ produced' \in 0 .. MaxBytes
    BY <1>c, <2>1, BoundsAssumption, BufSizeAssumption, SMT
  <2>3. /\ Numbered(n) \in Seq(Byte) /\ Len(Numbered(n)) = n
        /\ \A i \in 1 .. n : Numbered(n)[i] = produced + i
    BY <1>c, <2>1, <2>2, NumberedType
  <2>4. sent' \o Unsent' = Produced \o Numbered(n)
    <3>1. (sent \o Unsent) \o Numbered(n) = sent \o (Unsent \o Numbered(n))
      BY <1>c, <2>3, ConcatAssociative, SMTT(20)
    <3> QED BY <1>b, <2>1, <3>1
  <2>5. /\ Produced \in Seq(Byte) /\ Len(Produced) = produced
        /\ \A i \in 1 .. produced : Produced[i] = i
    BY <1>c, ProducedType
  <2>6. /\ Produced' \in Seq(Byte) /\ Len(Produced') = produced + n
        /\ \A i \in 1 .. produced + n : Produced'[i] = i
    <3>1. \A i \in 1 .. produced + n : i \in Byte
      BY <1>c, <2>1, <2>2, BoundsAssumption, SMT DEF Byte
    <3>2. Produced' = [i \in 1 .. produced + n |-> i]
      BY <2>1 DEF Produced
    <3>3. Produced' \in [1 .. produced + n -> Byte]
      BY <3>1, <3>2
    <3>4. produced + n \in Nat
      BY <1>c, <2>2, SMT
    <3> QED BY <3>2, <3>3, <3>4, SMT
  <2>7. /\ Produced \o Numbered(n) \in Seq(Byte)
        /\ Len(Produced \o Numbered(n)) = produced + n
        /\ \A i \in 1 .. produced + n : (Produced \o Numbered(n))[i]
             = IF i <= produced THEN Produced[i] ELSE Numbered(n)[i - produced]
    BY <2>3, <2>5, ConcatProperties
  <2>8. ASSUME NEW i \in 1 .. produced + n
        PROVE  (Produced \o Numbered(n))[i] = Produced'[i]
    <3>1. CASE i <= produced
      <4>1. i \in 1 .. produced
        BY <1>c, <2>2, <3>1, SMT
      <4> QED BY <2>5, <2>6, <2>7, <3>1, <4>1
    <3>2. CASE ~(i <= produced)
      <4>1. i - produced \in 1 .. n /\ produced + (i - produced) = i
        BY <1>c, <2>2, <3>2, SMT
      <4> QED BY <2>3, <2>6, <2>7, <3>2, <4>1
    <3> QED BY <3>1, <3>2
  <2>9. Produced \o Numbered(n) = Produced'
    BY <2>6, <2>7, <2>8, SeqEqual
  <2> QED BY <2>4, <2>9
<1> QED BY <1>1, <1>2, <1>3, StreamStep

-------------------------------------------------------------------------------
(* The inductive invariant: the types, the agreement between the worker's  *)
(* place and what it has stored, and the conservation of bytes.            *)
IInv == TypeOK /\ Coherent /\ NothingForgotten /\ OnlyCrashesClobber

LEMMA ClobberStep == TypeOK /\ Coherent /\ OnlyCrashesClobber /\ [Next]_vars
                       => OnlyCrashesClobber'
<1> SUFFICES ASSUME TypeOK, Coherent, OnlyCrashesClobber, [Next]_vars
             PROVE  OnlyCrashesClobber'
  OBVIOUS
<1>1. crashes \in Nat
  BY BoundsAssumption, SMT DEF TypeOK
<1>2. ASSUME NEW n \in 1 .. BufSize, AppendBytes(n)
      PROVE  OnlyCrashesClobber'
  <2>1. CASE tx.state = "SWAP"
    <3>1. crashes # 0
      BY <1>2, <2>1 DEF AppendBytes, Coherent, Swapping
    <3> QED BY <1>1, <1>2, <3>1, SMT DEF AppendBytes, OnlyCrashesClobber
  <2>2. CASE tx.state # "SWAP"
    BY <1>2, <2>2 DEF AppendBytes, OnlyCrashesClobber, TypeOK
  <2> QED BY <2>1, <2>2
<1>3. CASE Crash
  <2>1. crashes' > 0
    BY <1>1, <1>3, SMT DEF Crash
  <2> QED BY <2>1 DEF OnlyCrashesClobber
<1>4. CASE UNCHANGED <<clobbered, crashes>>
  BY <1>4 DEF OnlyCrashesClobber
<1> QED BY <1>2, <1>3, <1>4
        DEF Next, Step, Call, Prepare, Begin, Sendmmsg, SendmmsgFails, StoreSwap, Restore,
            Tear, CopyTrimmed, Flip, Finish, vars, Goto, Local

LEMMA Invariant == Spec => []IInv
<1>1. Init => IInv
  <2>1. Init => OnlyCrashesClobber
    BY DEF Init, OnlyCrashesClobber
  <2> QED BY <2>1, TypeInit, CoherentInit, ForgottenInit DEF IInv
<1>2. IInv /\ [Next]_vars => IInv'
  BY TypeStep, CoherentStep, ForgottenStep, ClobberStep DEF IInv
<1> QED BY <1>1, <1>2, PTL DEF Spec

(* Type correctness. *)
THEOREM TypeCorrect == Spec => []TypeOK
BY Invariant, PTL DEF IInv

(* At every moment the bytes sent and the bytes that the next call of      *)
(* atomic_send will find unsent make up the bytes produced.                *)
THEOREM Conservation == Spec => []NothingForgotten
BY Invariant, PTL DEF IInv

(* Every store agrees with the place in the code that makes it, also when  *)
(* the transaction was begun by a worker that has died since.              *)
THEOREM Coherence == Spec => []Coherent
BY Invariant, PTL DEF IInv

(* Bytes are clobbered only after a crash: atomic_send never returns to a  *)
(* living worker with an unfinished swap.                                  *)
THEOREM ClobberNeedsCrash == Spec => []OnlyCrashesClobber
BY Invariant, PTL DEF IInv

(* The peer receives the produced bytes exactly once and in order, for     *)
(* every buffer size and every number of crashes, unless bytes are         *)
(* appended over an unfinished swap.                                       *)
THEOREM SentExactlyOnce == Spec => []ExactlyOnce
<1>1. IInv => ExactlyOnce
  <2> SUFFICES ASSUME IInv, ~clobbered, NEW i \in DOMAIN sent
               PROVE  sent[i] = i
    BY DEF ExactlyOnce, InOrder
  <2>1. sent \in Seq(Byte) /\ Unsent \in Seq(Byte) /\ produced \in 0 .. MaxBytes
    BY UnsentType DEF IInv, TypeOK
  <2>2. sent \o Unsent = Produced
    BY DEF IInv, NothingForgotten, Produced
  <2>3. /\ Len(sent) \in Nat /\ Len(Unsent) \in Nat /\ i \in 1 .. Len(sent)
        /\ Len(sent \o Unsent) = Len(sent) + Len(Unsent)
        /\ \A j \in 1 .. Len(sent) + Len(Unsent) :
             (sent \o Unsent)[j] = IF j <= Len(sent) THEN sent[j] ELSE Unsent[j - Len(sent)]
    BY <2>1, LenProperties, ConcatProperties
  <2>4. i \in 1 .. Len(sent) + Len(Unsent) /\ i <= Len(sent)
    BY <2>3, SMT
  <2>5. Produced[i] = i
    BY <2>1, <2>2, <2>3, <2>4, ProducedType
  <2> QED BY <2>2, <2>3, <2>4, <2>5
<1> QED BY <1>1, Invariant, PTL

(* Every step of atomic_send is a step of the reliable byte stream, or     *)
(* none: sendmmsg is the instant at which the whole transaction happens.   *)
THEOREM Refinement == Spec => ImplementsStream
<1>1. Init => Stream!Init
  <2> SUFFICES ASSUME Init PROVE Stream!Init
    OBVIOUS
  <2>1. Origin = EmptyRange /\ Gone = 0 /\ sent = <<>>
    BY DEF Init, NewBuffer, Origin, Gone, ActiveRange
  <2>2. Unsent = <<>>
    BY <2>1, SubSeqEmpty, SMT DEF Unsent, EmptyRange
  <2> QED BY <2>1, <2>2 DEF Stream!Init
<1>2. IInv /\ [Next]_vars => [~clobbered' => Stream!Next]_<<Unsent, sent>>
  <2> SUFFICES ASSUME IInv, [Next]_vars, ~clobbered'
               PROVE  Stream!Next \/ UNCHANGED <<Unsent, sent>>
    OBVIOUS
  <2>a. ~clobbered
    BY DEF IInv, Next, Step, Call, Prepare, Begin, Sendmmsg, SendmmsgFails, StoreSwap,
           Restore, Tear, CopyTrimmed, Flip, Finish, AppendBytes, Crash, vars, TypeOK,
           Goto, Local
  <2>1. CASE Quiet
    BY <2>1 DEF Quiet
  <2>2. CASE Sends
    BY <2>2 DEF Sends, Stream!Next, Stream!Deliver
  <2>3. CASE Appends
    <3>1. PICK n \in 1 .. BufSize :
            /\ Unsent' = Unsent \o Numbered(n) /\ sent' = sent
            /\ produced + n <= MaxBytes
      BY <2>3 DEF Appends
    <3>2. n \in Nat /\ n > 0
      BY BufSizeAssumption, SMT
    <3>3. Unsent \in Seq(Byte) /\ Numbered(n) \in Seq(Byte) /\ Len(Numbered(n)) = n
      BY <2>a, <3>1, <3>2, UnsentType, NumberedType DEF IInv, TypeOK
    <3>4. /\ Len(Unsent) \in Nat
          /\ Unsent' \in Seq(Byte) /\ Len(Unsent') = Len(Unsent) + n
          /\ \A i \in 1 .. Len(Unsent) + n : Unsent'[i]
               = IF i <= Len(Unsent) THEN Unsent[i] ELSE Numbered(n)[i - Len(Unsent)]
      BY <3>1, <3>3, ConcatProperties, LenProperties
    <3>5. SubSeq(Unsent', 1, Len(Unsent)) = Unsent
      <4>1. \A i \in 1 .. Len(Unsent) : Unsent'[i] = Unsent[i] /\ Unsent'[i] \in Byte
        <5> TAKE i \in 1 .. Len(Unsent)
        <5>1. i \in 1 .. Len(Unsent) + n /\ i <= Len(Unsent)
          BY <3>2, <3>4, SMT
        <5> QED BY <3>3, <3>4, <5>1, ElementOfSeq
      <4>2. /\ SubSeq(Unsent', 1, Len(Unsent)) \in Seq(Byte)
            /\ Len(SubSeq(Unsent', 1, Len(Unsent)))
                 = IF 1 <= Len(Unsent) THEN Len(Unsent) - 1 + 1 ELSE 0
            /\ \A i \in 1 .. Len(Unsent) - 1 + 1 :
                 SubSeq(Unsent', 1, Len(Unsent))[i] = Unsent'[1 + i - 1]
        BY <3>4, <4>1, SubSeqProperties, SMT
      <4>3. /\ (IF 1 <= Len(Unsent) THEN Len(Unsent) - 1 + 1 ELSE 0) = Len(Unsent)
            /\ Len(Unsent) - 1 + 1 = Len(Unsent)
            /\ \A i \in 1 .. Len(Unsent) : 1 + i - 1 = i
        BY <3>4, SMT
      <4> QED BY <3>3, <4>1, <4>2, <4>3, SeqEqual
    <3>6. Len(Unsent') > Len(Unsent)
      BY <3>2, <3>4, SMT
    <3> QED BY <3>1, <3>5, <3>6 DEF Stream!Next, Stream!Write
  <2> QED BY <2>1, <2>2, <2>3, StreamStep DEF IInv
<1>3. Spec => [][~clobbered' => Stream!Next]_<<Unsent, sent>>
  BY <1>2, Invariant, PTL DEF Spec
<1> QED BY <1>1, <1>3, PTL DEF Spec, ImplementsStream
===============================================================================
