--------------------------- MODULE OtaInstallProofs ---------------------------
(***************************************************************************)
(* Proofs about OtaInstall, for every signature length, chunk size, size   *)
(* limit, slot size and set of requests.                                   *)
(***************************************************************************)
EXTENDS OtaInstall, TLAPS

USE ConstantsOK

-----------------------------------------------------------------------------
(* Lemmas about the byte moves of the receive loop.                        *)

\* Receiving n bytes behind a tail that is in order leaves one longer run of
\* consecutive body bytes at the front of the buffer (the recv of the loop).
LEMMA ReceivedInOrder ==
  ASSUME TypeOK, NEW k \in 1 .. Chunk,
         total_recv = written + tail_used,
         \A i \in 0 .. tail_used - 1 : buf[i] = written + i
  PROVE  /\ Received(k) \in [0 .. Capacity - 1 -> Byte]
         /\ \A i \in 0 .. tail_used + k - 1 : Received(k)[i] = written + i
  <1>1. /\ tail_used \in 0 .. SigLen /\ written \in Nat /\ total_recv \in Nat
        /\ Capacity = Chunk + SigLen
        /\ buf \in [0 .. Capacity - 1 -> Byte]
    BY DEF TypeOK, Capacity
  <1>2. ASSUME NEW i \in 0 .. Capacity - 1
        PROVE  (IF i \in tail_used .. tail_used + k - 1
                THEN total_recv + (i - tail_used) ELSE buf[i]) \in Byte
    BY <1>1 DEF Byte
  <1>3. ASSUME NEW i \in 0 .. tail_used + k - 1
        PROVE  Received(k)[i] = written + i
    BY <1>1 DEF Received
  <1> QED
    BY <1>2, <1>3 DEF Received

\* Appending the front of an ordered buffer to a slot that holds a prefix of the
\* body makes it a longer prefix (the esp_ota_write of the loop).
LEMMA FlashedPrefix ==
  ASSUME TypeOK, NEW b, NEW w \in Nat,
         slot = Prefix(written),
         \A i \in 0 .. w - 1 : b[i] = written + i
  PROVE  Flashed(b, w) = Prefix(written + w)
  BY DEF TypeOK, Flashed, Prefix

\* The memmove/memcpy pair brings the bytes that were not written to the front,
\* still in order.
LEMMA SlidInOrder ==
  ASSUME NEW b \in [0 .. Capacity - 1 -> Byte], NEW w \in Nat, NEW k \in Nat,
         w + SigLen <= Capacity,
         \A i \in 0 .. w + SigLen - 1 : b[i] = k + i
  PROVE  /\ Slid(b, w) \in [0 .. Capacity - 1 -> Byte]
         /\ \A i \in 0 .. SigLen - 1 : Slid(b, w)[i] = k + w + i
  <1>1. Capacity \in Nat /\ Capacity = Chunk + SigLen
    BY DEF Capacity
  <1>2. ASSUME NEW i \in 0 .. Capacity - 1
        PROVE  (IF i < SigLen THEN b[w + i] ELSE b[i]) \in Byte
    BY <1>1
  <1>3. ASSUME NEW i \in 0 .. SigLen - 1
        PROVE  Slid(b, w)[i] = k + w + i
    BY <1>1 DEF Slid
  <1> QED
    BY <1>2, <1>3 DEF Slid

\* A prefix that fits the slot is a value the slot can have.
LEMMA PrefixType ==
  ASSUME NEW n \in 0 .. SlotSize
  PROVE  SlotTyped(Prefix(n))
  <1>1. Prefix(n) \in [0 .. n - 1 -> Byte]
    BY DEF Prefix, Byte
  <1> QED
    BY <1>1 DEF SlotTyped

\* The locals as they are before a call of install_signed are well typed.
LEMMA FreshType ==
  /\ FreshBuf \in [0 .. Capacity - 1 -> Byte]
  /\ FreshTail \in [0 .. SigLen - 1 -> Byte]
  /\ 0 \in 0 .. SigLen
  BY DEF FreshBuf, FreshTail, Byte

\* What a request announces is a number of bytes.
LEMMA RequestType ==
  ASSUME TypeOK
  PROVE  req.len \in Nat /\ req.image \in Nat \cup {NoImage}
  <1>1. req \in [len : Nat, image : Nat \cup {NoImage}]
    BY DEF TypeOK, NoUpload
  <1> QED
    BY <1>1

-----------------------------------------------------------------------------
(* Type correctness and the inductive invariant, one step per action.      *)

IInv == TypeOK /\ UploadInv

LEMMA InitInv == Init => IInv
  <1> SUFFICES ASSUME Init PROVE IInv
    OBVIOUS
  <1>1. TypeOK
    <2>1. SlotTyped(slot)
      BY PrefixType DEF Init
    <2>2. tail_used \in 0 .. SigLen /\ written \in Nat /\ total_recv \in Nat
      BY DEF Init
    <2> QED
      BY <2>1, <2>2, FreshType DEF Init, TypeOK, PC, Result
  <1>2. UploadInv
    BY DEF Init, UploadInv, LocalsFresh, ResourcesOK, StreamOK, SplitOK, VerifiedOK
  <1> QED
    BY <1>1, <1>2 DEF IInv

USE DEF IInv, UploadInv

\* A pass of the loop that only accumulates keeps the bytes held back in order.
LEMMA HoldInv ==
  ASSUME IInv, NEW k \in 1 .. Chunk, Recv(k), Hold(k)
  PROVE  IInv'
  <1> DEFINE rb == Received(k)
  <1>0. /\ TypeOK /\ LocalsFresh /\ ResourcesOK /\ StreamOK /\ pc = "recv"
    BY DEF Recv
  <1>1. /\ total_recv = written + tail_used
        /\ slot = Prefix(written)
        /\ tail_used < SigLen => written = 0
        /\ \A i \in 0 .. tail_used - 1 : buf[i] = written + i
        /\ tail_used \in 0 .. SigLen /\ written \in Nat /\ total_recv \in Nat
    BY <1>0 DEF StreamOK, TypeOK
  <1>2. /\ rb \in [0 .. Capacity - 1 -> Byte]
        /\ \A i \in 0 .. tail_used + k - 1 : rb[i] = written + i
    BY <1>0, <1>1, ReceivedInOrder
  <1>3. /\ pc' = "recv" /\ buf' = rb /\ tail_used' = tail_used + k
        /\ total_recv' = total_recv + k /\ k <= req.len - total_recv
        /\ tail_used + k < SigLen
        /\ UNCHANGED <<req, slot, handle, heap, written, tail, result, http, boot>>
    BY <1>0 DEF Recv, Hold, Continue, TooShort, io
  <1> HIDE DEF rb
  <1>4. tail_used' \in 0 .. SigLen /\ total_recv' \in Nat
    BY <1>1, <1>3
  <1>5. TypeOK'
    <2>1. SlotTyped(slot')
      BY <1>0, <1>3 DEF TypeOK
    <2>2. /\ buf' \in [0 .. Capacity - 1 -> Byte] /\ written' \in Nat
          /\ tail' \in [0 .. SigLen - 1 -> Byte] /\ pc' \in PC
      BY <1>0, <1>2, <1>3 DEF TypeOK
    <2>3. /\ req' \in Uploads \cup {NoUpload} /\ handle' \in BOOLEAN
          /\ heap' \in BOOLEAN /\ result' \in Result
          /\ http' \in {0, 200, 400, 401, 413, 500} /\ boot' \in {"running", "slot"}
      BY <1>0, <1>3 DEF TypeOK
    <2> QED
      BY <2>1, <2>2, <2>3, <1>4 DEF TypeOK
  <1>6. req.len \in Nat
    BY <1>0, RequestType
  <1>7. StreamOK'
    BY <1>1, <1>2, <1>3, <1>4, <1>6 DEF StreamOK
  <1> QED
    BY <1>0, <1>3, <1>5, <1>7
    DEF LocalsFresh, ResourcesOK, SplitOK, VerifiedOK, SignatureOK

\* A pass of the loop that flashes all but the last SigLen bytes keeps the slot a
\* prefix of the body and the signature window in order behind it.
LEMMA FlushInv ==
  ASSUME IInv, NEW k \in 1 .. Chunk, Recv(k), Flush(k)
  PROVE  IInv'
  <1> DEFINE rb == Received(k)
             w  == ToWrite(tail_used + k)
  <1>0. /\ TypeOK /\ LocalsFresh /\ ResourcesOK /\ StreamOK /\ pc = "recv"
    BY DEF Recv
  <1>1. /\ total_recv = written + tail_used
        /\ slot = Prefix(written)
        /\ \A i \in 0 .. tail_used - 1 : buf[i] = written + i
        /\ tail_used \in 0 .. SigLen /\ written \in Nat /\ total_recv \in Nat
    BY <1>0 DEF StreamOK, TypeOK
  <1>2. /\ rb \in [0 .. Capacity - 1 -> Byte]
        /\ \A i \in 0 .. tail_used + k - 1 : rb[i] = written + i
    BY <1>0, <1>1, ReceivedInOrder
  <1>3. /\ pc' = "recv" /\ buf' = Slid(rb, w) /\ tail_used' = SigLen
        /\ slot' = Flashed(rb, w) /\ written' = written + w
        /\ written + w <= SlotSize
        /\ total_recv' = total_recv + k /\ k <= req.len - total_recv
        /\ tail' = [i \in 0 .. SigLen - 1 |-> rb[w + i]]
        /\ UNCHANGED <<req, handle, heap, result, http, boot>>
    BY <1>0 DEF Recv, Flush, Continue
  <1>4. w = tail_used + k - SigLen /\ w \in Nat
    BY <1>1 DEF Flush, TooShort, ToWrite
  <1>5. Capacity = Chunk + SigLen
    BY DEF Capacity
  <1> HIDE DEF rb, w
  <1>6. /\ Slid(rb, w) \in [0 .. Capacity - 1 -> Byte]
        /\ \A i \in 0 .. SigLen - 1 : Slid(rb, w)[i] = written + w + i
    <2>1. /\ w + SigLen <= Capacity
          /\ \A i \in 0 .. w + SigLen - 1 : rb[i] = written + i
      BY <1>1, <1>2, <1>4, <1>5
    <2> QED
      BY <2>1, <1>1, <1>2, <1>4, SlidInOrder, ZenonT(60)
  <1>7. slot' = Prefix(written')
    <2>1. \A i \in 0 .. w - 1 : rb[i] = written + i
      BY <1>1, <1>2, <1>4
    <2> QED
      BY <2>1, <1>0, <1>1, <1>3, <1>4, FlashedPrefix
  <1>8. written' \in 0 .. SlotSize /\ total_recv' \in Nat /\ SigLen \in 0 .. SigLen
    BY <1>1, <1>3, <1>4
  <1>9. TypeOK'
    <2>1. SlotTyped(slot')
      BY <1>7, <1>8, PrefixType
    <2>2. tail' \in [0 .. SigLen - 1 -> Byte]
      <3>1. \A i \in 0 .. SigLen - 1 : w + i \in 0 .. Capacity - 1
        BY <1>1, <1>4, <1>5
      <3> QED
        BY <3>1, <1>2, <1>3
    <2>3. /\ buf' \in [0 .. Capacity - 1 -> Byte]
          /\ tail_used' \in 0 .. SigLen /\ written' \in Nat
          /\ pc' \in PC
      BY <1>3, <1>6, <1>8 DEF PC
    <2>4. /\ req' \in Uploads \cup {NoUpload} /\ handle' \in BOOLEAN
          /\ heap' \in BOOLEAN /\ result' \in Result
          /\ http' \in {0, 200, 400, 401, 413, 500} /\ boot' \in {"running", "slot"}
      BY <1>0, <1>3 DEF TypeOK
    <2> QED
      BY <2>1, <2>2, <2>3, <2>4, <1>8 DEF TypeOK
  <1>10. req.len \in Nat
    BY <1>0, RequestType
  <1>11. StreamOK'
    <2>1. total_recv' = written' + tail_used' /\ total_recv' <= req'.len
      BY <1>1, <1>3, <1>4, <1>10
    <2>2. \A i \in 0 .. tail_used' - 1 : buf'[i] = written' + i
      BY <1>3, <1>6
    <2> QED
      BY <2>1, <2>2, <1>3, <1>7 DEF StreamOK
  <1> QED
    BY <1>0, <1>3, <1>9, <1>11
    DEF LocalsFresh, ResourcesOK, SplitOK, VerifiedOK

\* The end of the stream hands the verifier the bytes held back, or gives up.
LEMMA RecvEndInv ==
  ASSUME IInv, RecvEnd
  PROVE  IInv'
  <1>0. /\ TypeOK /\ LocalsFresh /\ ResourcesOK /\ StreamOK /\ pc = "recv"
    BY DEF RecvEnd
  <1>1. CASE tail_used # SigLen
    BY <1>0, <1>1, ZenonT(60)
    DEF RecvEnd, Abort, Return, stream, TypeOK, PC, Result,
        LocalsFresh, ResourcesOK, StreamOK, SplitOK, VerifiedOK
  <1>2. CASE tail_used = SigLen
    <2>1. /\ pc' = "end" /\ heap' = FALSE
          /\ tail' = [i \in 0 .. SigLen - 1 |-> buf[i]]
          /\ UNCHANGED <<req, slot, handle, buf, tail_used, written, total_recv,
                         result, http, boot>>
      BY <1>2 DEF RecvEnd, Continue, stream
    <2>2. buf \in [0 .. Capacity - 1 -> Byte] /\ Capacity = Chunk + SigLen
      BY <1>0 DEF TypeOK, Capacity
    <2>3. tail' \in [0 .. SigLen - 1 -> Byte]
      BY <2>1, <2>2
    <2>4. TypeOK'
      BY <1>0, <2>1, <2>3, ZenonT(60) DEF TypeOK, PC
    <2>5. \A i \in 0 .. SigLen - 1 : buf[i] = written + i
      BY <1>0, <1>2 DEF StreamOK
    <2>6. SplitOK'
      BY <1>0, <1>2, <2>1, <2>5 DEF SplitOK, StreamOK
    <2> QED
      BY <1>0, <2>1, <2>4, <2>6 DEF LocalsFresh, ResourcesOK, StreamOK, VerifiedOK
  <1> QED
    BY <1>1, <1>2

\* The other exits of the loop leave nothing open behind them.
LEMMA FlushFailsInv ==
  ASSUME IInv, NEW k \in 1 .. Chunk, Recv(k), FlushFails(k)
  PROVE  IInv'
  <1>0. /\ TypeOK /\ LocalsFresh /\ ResourcesOK /\ StreamOK /\ pc = "recv"
    BY DEF Recv
  <1>1. /\ pc' = "answer" /\ result' = "Write" /\ heap' = FALSE /\ handle' = FALSE
        /\ buf' = Received(k) /\ total_recv' = total_recv + k
        /\ UNCHANGED <<req, slot, tail, tail_used, written, http, boot>>
    BY <1>0 DEF Recv, FlushFails, Abort, Return
  <1>2. buf' \in [0 .. Capacity - 1 -> Byte] /\ total_recv' \in Nat
    BY <1>0, <1>1, ReceivedInOrder DEF StreamOK, TypeOK
  <1>3. TypeOK'
    BY <1>0, <1>1, <1>2, ZenonT(60) DEF TypeOK, PC, Result
  <1> QED
    BY <1>0, <1>1, <1>3
    DEF LocalsFresh, ResourcesOK, StreamOK, SplitOK, VerifiedOK

LEMMA RecvErrorInv ==
  ASSUME IInv, RecvError
  PROVE  IInv'
  BY ZenonT(60) DEF RecvError, Abort, Return, stream, TypeOK, PC, Result,
         LocalsFresh, ResourcesOK, StreamOK, SplitOK, VerifiedOK

\* Before the loop: the size checks, the erased slot, the buffer.
LEMMA AcceptInv ==
  ASSUME IInv, NEW u \in Uploads, Accept(u)
  PROVE  IInv'
  <1>1. /\ pc = "idle" /\ req' = u
        /\ UNCHANGED <<slot, handle, heap, buf, tail_used, written, total_recv,
                       tail, http, boot>>
    BY DEF Accept, io, stream
  <1>2. \/ pc' = "answer" /\ result' \in {"TooLarge", "TooSmall"}
        \/ pc' = "begin" /\ result' = result
    BY DEF Accept, Return, Continue
  <1>3. TypeOK'
    <2>1. pc' \in PC /\ result' \in Result
      BY <1>2 DEF TypeOK, PC, Result
    <2> QED
      BY <2>1, <1>1 DEF TypeOK
  <1>4. UploadInv'
    BY <1>1, <1>2 DEF LocalsFresh, ResourcesOK, StreamOK, SplitOK, VerifiedOK
  <1> QED
    BY <1>3, <1>4

LEMMA BeginInv ==
  ASSUME IInv, Begin
  PROVE  IInv'
  <1>0. /\ TypeOK /\ UploadInv /\ pc = "begin" /\ req.len \in Nat
    BY RequestType DEF Begin
  <1>1. SlotTyped(slot')
    BY PrefixType DEF Begin, TypeOK
  <1>2. UNCHANGED <<req, heap, buf, tail_used, written, total_recv, tail, http, boot>>
    BY DEF Begin, stream
  <1>3. CASE pc' = "answer" /\ result' \in {"NoPartition", "OtaBegin"}
             /\ handle' = handle
    <2>1. pc' \in PC /\ result' \in Result /\ handle' \in BOOLEAN
      BY <1>0, <1>3 DEF TypeOK, PC, Result
    <2>2. TypeOK'
      BY <2>1, <1>0, <1>1, <1>2 DEF TypeOK
    <2> QED
      BY <2>2, <1>0, <1>2, <1>3
      DEF LocalsFresh, ResourcesOK, StreamOK, SplitOK, VerifiedOK
  <1>4. CASE pc' = "alloc" /\ result' = result /\ handle' = TRUE /\ slot' = Prefix(0)
    <2>1. TypeOK'
      BY <1>0, <1>1, <1>2, <1>4 DEF TypeOK, PC
    <2> QED
      BY <2>1, <1>0, <1>2, <1>4
      DEF LocalsFresh, ResourcesOK, StreamOK, SplitOK, VerifiedOK
  <1> QED
    BY <1>3, <1>4 DEF Begin, Return, Continue

LEMMA AllocInv ==
  ASSUME IInv, Alloc
  PROVE  IInv'
  <1>0. /\ TypeOK /\ UploadInv /\ pc = "alloc"
        /\ UNCHANGED <<req, slot, buf, tail_used, written, total_recv,
                       tail, http, boot>>
    BY DEF Alloc, stream
  <1>1. CASE pc' = "recv" /\ heap' = TRUE /\ handle' = handle /\ result' = result
    <2>1. TypeOK'
      BY <1>0, <1>1 DEF TypeOK, PC
    <2> QED
      BY <2>1, <1>0, <1>1
      DEF LocalsFresh, ResourcesOK, StreamOK, SplitOK, VerifiedOK
  <1>2. CASE pc' = "answer" /\ result' = "Write" /\ handle' = FALSE /\ heap' = heap
    <2>1. TypeOK'
      BY <1>0, <1>2, ZenonT(60) DEF TypeOK, PC, Result
    <2> QED
      BY <2>1, <1>0, <1>2
      DEF LocalsFresh, ResourcesOK, StreamOK, SplitOK, VerifiedOK
  <1> QED
    BY <1>1, <1>2 DEF Alloc, Return, Continue

\* After the loop: closing the handle, verifying, flipping, answering.
LEMMA EndInv ==
  ASSUME IInv, End
  PROVE  IInv'
  <1>0. /\ TypeOK /\ UploadInv /\ pc = "end" /\ handle' = FALSE
        /\ UNCHANGED <<req, slot, heap, buf, tail_used, written, total_recv,
                       tail, http, boot>>
    BY DEF End, stream
  <1>1. \/ pc' = "answer" /\ result' = "OtaEnd"
        \/ pc' = "verify" /\ result' = result
    BY DEF End, Return, Continue
  <1>2. pc' \in PC /\ result' \in Result
    BY <1>0, <1>1 DEF TypeOK, PC, Result
  <1>3. TypeOK'
    BY <1>0, <1>2, ZenonT(60) DEF TypeOK
  <1> QED
    BY <1>0, <1>1, <1>3
    DEF LocalsFresh, ResourcesOK, StreamOK, SplitOK, VerifiedOK

LEMMA VerifyInv ==
  ASSUME IInv, Verify
  PROVE  IInv'
  <1>0. /\ TypeOK /\ UploadInv /\ pc = "verify"
        /\ UNCHANGED <<req, slot, handle, heap, buf, tail_used, written,
                       total_recv, tail, http, boot>>
    BY DEF Verify, io, stream
  <1>1. \/ pc' = "answer" /\ result' = "Verify"
        \/ pc' = "setboot" /\ result' = result /\ SignatureOK
    BY DEF Verify, Return, Continue
  <1>2. TypeOK'
    BY <1>0, <1>1 DEF TypeOK, PC, Result
  <1> QED
    BY <1>0, <1>1, <1>2 DEF SignatureOK,
       LocalsFresh, ResourcesOK, StreamOK, SplitOK, VerifiedOK

LEMMA SetBootInv ==
  ASSUME IInv, SetBoot
  PROVE  IInv'
  BY DEF SetBoot, Return, io, stream, TypeOK, PC, Result, SignatureOK,
         LocalsFresh, ResourcesOK, StreamOK, SplitOK, VerifiedOK

LEMMA AnswerInv ==
  ASSUME IInv, Answer
  PROVE  IInv'
  <1>1. TypeOK'
    BY FreshType DEF Answer, io, TypeOK, PC, HttpStatus
  <1>2. http' = 200 => result = "Ok"
    BY DEF Answer, HttpStatus, TypeOK, Result
  <1>3. UploadInv'
    BY <1>2 DEF Answer, io, SignatureOK,
         LocalsFresh, ResourcesOK, StreamOK, SplitOK, VerifiedOK
  <1> QED
    BY <1>1, <1>2, <1>3

LEMMA StutterInv ==
  ASSUME IInv, UNCHANGED vars
  PROVE  IInv'
  <1>1. UNCHANGED <<pc, req, slot, handle, heap, buf, tail_used, written,
                    total_recv, tail, result, http, boot>>
    BY DEF vars, io, stream
  <1>2. TypeOK'
    <2>1. SlotTyped(slot')
      BY <1>1 DEF TypeOK
    <2> QED
      BY <2>1, <1>1 DEF TypeOK
  <1>3. LocalsFresh' /\ ResourcesOK'
    BY <1>1 DEF LocalsFresh, ResourcesOK
  <1>4. StreamOK' /\ SplitOK'
    BY <1>1 DEF StreamOK, SplitOK
  <1>5. VerifiedOK'
    BY <1>1 DEF VerifiedOK, SignatureOK
  <1> QED
    BY <1>2, <1>3, <1>4, <1>5

\* Every step keeps the inductive invariant.
LEMMA StepInv == IInv /\ [Next]_vars => IInv'
  <1> SUFFICES ASSUME IInv, [Next]_vars PROVE IInv'
    OBVIOUS
  <1> HIDE DEF IInv
  <1>1. ASSUME NEW u \in Uploads, Accept(u) PROVE IInv'
    BY <1>1, AcceptInv
  <1>2. CASE Begin
    BY <1>2, BeginInv
  <1>3. CASE Alloc
    BY <1>3, AllocInv
  <1>4. ASSUME NEW k \in 1 .. Chunk, Recv(k) PROVE IInv'
    BY <1>4, HoldInv, FlushInv, FlushFailsInv DEF Recv
  <1>5. CASE RecvError
    BY <1>5, RecvErrorInv
  <1>6. CASE RecvEnd
    BY <1>6, RecvEndInv
  <1>7. CASE End
    BY <1>7, EndInv
  <1>8. CASE Verify
    BY <1>8, VerifyInv
  <1>9. CASE SetBoot
    BY <1>9, SetBootInv
  <1>10. CASE Answer
    BY <1>10, AnswerInv
  <1>11. CASE UNCHANGED vars
    BY <1>11, StutterInv
  <1> QED
    BY <1>1, <1>2, <1>3, <1>4, <1>5, <1>6, <1>7, <1>8, <1>9, <1>10, <1>11
    DEF Next, Handler

-----------------------------------------------------------------------------
(* The theorems.                                                           *)

\* In every reachable state of install_signed and handle_upload the variables
\* are well typed and the call-to-call invariant of the streaming loop holds.
THEOREM Invariance == Spec => []IInv
  BY InitInv, StepInv, PTL DEF Spec

\* Type correctness: the receive buffer is never indexed past its allocation and
\* esp_ota_write never gets past the end of the slot.
THEOREM TypeCorrect == Spec => []TypeOK
  <1>1. IInv => TypeOK
    OBVIOUS
  <1> QED
    BY <1>1, Invariance, PTL

\* The flash and the bytes held back are, at every call, the received prefix of
\* the body cut at the right place.
THEOREM UploadSplit == Spec => []UploadInv
  <1>1. IInv => UploadInv
    OBVIOUS
  <1> QED
    BY <1>1, Invariance, PTL

\* However the body is cut into receives, a genuine upload verifies.
THEOREM GenuineAccepted == Spec => []GenuineVerifies
  <1>1. IInv => GenuineVerifies
    <2> SUFFICES ASSUME IInv, pc = "verify", total_recv = req.image + SigLen
                 PROVE  SignatureOK
      BY DEF GenuineVerifies
    <2>1. req.image \in Nat \cup {NoImage} /\ written \in Nat
      BY RequestType DEF TypeOK
    <2>2. req.image = written
      BY <2>1 DEF SplitOK, NoImage
    <2> QED
      BY <2>2 DEF SplitOK, SignatureOK
  <1> QED
    BY <1>1, Invariance, PTL

\* A 200 answer means that the signed image is the one otadata selects.
THEOREM OkInstalled == Spec => []OkMeansInstalled
  <1>1. IInv => OkMeansInstalled
    BY DEF VerifiedOK, OkMeansInstalled
  <1> QED
    BY <1>1, Invariance, PTL

\* No way out of install_signed leaves the handle open or the buffer allocated.
THEOREM NoLeak == Spec => []NothingLeaks
  <1>1. IInv => NothingLeaks
    BY DEF ResourcesOK, NothingLeaks
  <1> QED
    BY <1>1, Invariance, PTL

\* No step flips the boot partition over contents the signature does not sign.
THEOREM OnlySignedBoots == Spec => FlipsOnlySigned
  <1>1. IInv /\ [Next]_vars => [boot' # boot => SignatureOK]_vars
    <2> SUFFICES ASSUME IInv, Next, boot' # boot PROVE SignatureOK
      OBVIOUS
    <2>1. SetBoot
      BY DEF Next, Handler, Accept, Begin, Alloc, Recv, RecvError, RecvEnd, End,
             Verify, Answer
    <2> QED
      BY <2>1 DEF SetBoot, VerifiedOK
  <1> QED
    BY <1>1, Invariance, PTL DEF Spec, FlipsOnlySigned

-----------------------------------------------------------------------------
(* OtaInstall implements SignedUpload: each step is one of the promise's, or none. *)

\* The refinement maps a slot that holds the first n bytes of the body to n.
LEMMA HeldPrefix ==
  ASSUME NEW n \in 0 .. SlotSize, slot = Prefix(n)
  PROVE  Held = n
  <1>1. ASSUME NEW k \in 0 .. SlotSize, Prefix(k) = Prefix(n) PROVE k = n
    <2>1. 0 .. k - 1 = 0 .. n - 1
      BY <1>1 DEF Prefix
    <2> QED
      BY <2>1
  <1> QED
    BY <1>1 DEF Held

\* While the body streams in, and behind it, that is what has been written.
LEMMA HeldWritten ==
  ASSUME IInv, pc \in {"alloc", "recv", "end", "verify", "setboot"}
  PROVE  Held = written /\ written \in 0 .. SlotSize /\ slot = Prefix(written)
  <1>1. slot = Prefix(written) /\ written \in Nat
    BY DEF StreamOK, SplitOK, TypeOK
  <1>2. PICK n \in 0 .. SlotSize : slot \in [0 .. n - 1 -> Byte]
    BY DEF TypeOK, SlotTyped
  <1>3. 0 .. written - 1 = 0 .. n - 1
    BY <1>1, <1>2 DEF Prefix
  <1>4. written = n
    BY <1>1, <1>3
  <1> QED
    BY <1>1, <1>4, HeldPrefix

\* A step that leaves the update slot alone leaves what it holds alone.
LEMMA HeldAlone ==
  ASSUME UNCHANGED slot
  PROVE  UNCHANGED Held
  BY DEF Held

\* Return and Abort inside install_signed are the promise's GiveUp; TooSmall is, when
\* nothing was flashed.
LEMMA GivesUp ==
  ASSUME pc \in PC \ {"idle", "answer"}, NEW r \in Result \ {"Ok", "TooLarge"},
         r = "TooSmall" => pc = "recv" /\ Held = 0,
         Return(r), UNCHANGED <<req, http, boot>>, Held' \in {Held, 0}
  PROVE  Promise!GiveUp
  <1>1. Phase \in {"checked", "storing"} /\ Phase' = "done"
    BY DEF PC, Phase, Return
  <1>2. r = "TooSmall" => Phase = "storing" /\ Held = 0
    BY DEF Phase
  <1> QED
    BY <1>1, <1>2 DEF Promise!GiveUp, Promise!Fail, Return

LEMMA AcceptAsks ==
  ASSUME IInv, NEW u \in Uploads, Accept(u)
  PROVE  Promise!Ask(u) \/ Promise!AskTiny(u)
  <1>1. Phase = "idle" /\ UNCHANGED Held /\ req' = u /\ UNCHANGED <<http, boot>>
    BY HeldAlone DEF Accept, Phase, io
  <1>2. u.len \in Nat
    OBVIOUS
  <1>3. CASE u.len > MaxSize /\ Return("TooLarge")
    BY <1>1, <1>3 DEF Promise!Ask, Promise!Fail, Return, Phase
  <1>4. CASE u.len < SigLen + MinImage /\ Return("TooSmall")
    <2>1. u.len < SigLen \/ u.len \in SigLen .. SigLen + MinImage - 1
      BY <1>2, <1>4
    <2> QED
      BY <1>1, <1>4, <2>1 DEF Promise!Ask, Promise!AskTiny, Promise!Fail, Return, Phase
  <1>5. CASE u.len <= MaxSize /\ u.len >= SigLen + MinImage /\ Continue("begin")
    BY <1>1, <1>2, <1>5 DEF Promise!Ask, Promise!SizeOK, Continue, Phase
  <1> QED
    BY <1>3, <1>4, <1>5 DEF Accept

LEMMA BeginErases ==
  ASSUME IInv, Begin
  PROVE  Promise!Erase \/ Promise!GiveUp
  <1>1. pc = "begin" /\ Phase = "checked" /\ UNCHANGED <<req, http, boot>>
    BY DEF Begin, Phase
  <1>2. slot' = Prefix(0) => Held' = 0
    <2>1. \A k \in 0 .. SlotSize : Prefix(k) = Prefix(0) => k = 0
      <3> SUFFICES ASSUME NEW k \in 0 .. SlotSize, Prefix(k) = Prefix(0) PROVE k = 0
        OBVIOUS
      <3>1. 0 .. k - 1 = 0 .. 0 - 1
        BY DEF Prefix
      <3> QED
        BY <3>1
    <2>2. 0 \in 0 .. SlotSize
      OBVIOUS
    <2> QED
      BY <2>1, <2>2 DEF Held
  <1>3. CASE \/ Return("NoPartition") /\ UNCHANGED slot
             \/ Return("OtaBegin") /\ slot' \in {slot, Prefix(0)}
    <2>1. Held' \in {Held, 0}
      BY <1>2, <1>3, HeldAlone
    <2> QED
      BY <1>1, <1>3, <2>1, GivesUp DEF PC, Result
  <1>4. CASE Continue("alloc") /\ slot' = Prefix(0)
    BY <1>1, <1>2, <1>4 DEF Promise!Erase, Continue, Phase
  <1> QED
    BY <1>3, <1>4 DEF Begin

LEMMA RecvStores ==
  ASSUME IInv, IInv', NEW n \in 1 .. Chunk, Recv(n)
  PROVE  Promise!Store \/ Promise!GiveUp \/ UNCHANGED Promise!vars
  <1>1. /\ pc = "recv" /\ Phase = "storing" /\ UNCHANGED <<req, http, boot>>
    BY DEF Recv, Phase
  <1>2. Held = written /\ written \in 0 .. SlotSize
    BY <1>1, HeldWritten
  <1>3. CASE Hold(n)
    BY <1>1, <1>3, HeldAlone DEF Hold, Continue, Phase, io, Promise!vars
  <1>4. CASE FlushFails(n)
    <2>1. Return("Write") /\ UNCHANGED Held
      BY <1>4, HeldAlone DEF FlushFails, Abort
    <2> QED
      BY <1>1, <2>1, GivesUp DEF PC, Result
  <1>5. CASE Flush(n)
    <2> DEFINE w == ToWrite(tail_used + n)
    <2>1. /\ pc' = "recv" /\ Phase' = "storing" /\ UNCHANGED result
          /\ written' = written + w /\ written' <= SlotSize /\ tail_used' = SigLen
          /\ ~(tail_used + n < SigLen)
      BY <1>5 DEF Flush, Continue, Phase, TooShort
    <2>2. tail_used \in Nat /\ w \in Nat
      BY <2>1 DEF TypeOK, ToWrite
    <2>3. Held' = written' /\ written' \in Nat
      <3>1. slot' = Prefix(written')
        BY <2>1 DEF StreamOK
      <3>2. written' \in 0 .. SlotSize
        BY <1>2, <2>1, <2>2
      <3>3. ASSUME NEW k \in 0 .. SlotSize, Prefix(k) = Prefix(written') PROVE k = written'
        <4>1. 0 .. k - 1 = 0 .. written' - 1
          BY <3>3 DEF Prefix
        <4> QED
          BY <3>2, <4>1
      <3> QED
        BY <3>1, <3>2, <3>3 DEF Held
    <2>4. written' + SigLen <= req.len /\ req.len \in Nat
      BY <1>1, <2>1, RequestType DEF StreamOK
    <2> HIDE DEF w
    <2>5. CASE w = 0
      BY <1>1, <1>2, <2>1, <2>3, <2>5 DEF Promise!vars
    <2>6. CASE w # 0
      <3>1. Held' \in Held + 1 .. req.len - SigLen
        BY <1>2, <2>1, <2>2, <2>3, <2>4, <2>6
      <3> QED
        BY <1>1, <2>1, <3>1 DEF Promise!Store
    <2> QED
      BY <2>5, <2>6
  <1> QED
    BY <1>3, <1>4, <1>5 DEF Recv

LEMMA SetBootInstalls ==
  ASSUME IInv, SetBoot
  PROVE  Promise!Install \/ Promise!GiveUp
  <1>1. /\ pc = "setboot" /\ Phase = "storing" /\ UNCHANGED <<req, http>> /\ UNCHANGED Held
    BY HeldAlone DEF SetBoot, Phase, io
  <1>2. Held = req.image
    BY <1>1, HeldWritten DEF VerifiedOK, SignatureOK
  <1>3. CASE Return("SetBoot") /\ UNCHANGED boot
    BY <1>1, <1>3, GivesUp DEF PC, Result
  <1>4. CASE Return("Ok") /\ boot' = "slot"
    BY <1>1, <1>2, <1>4 DEF Promise!Install, Return, Phase
  <1> QED
    BY <1>3, <1>4 DEF SetBoot

\* The steps in between: on with the stream's end or its verification, or an error.
LEMMA OthersGiveUp ==
  ASSUME IInv, Alloc \/ RecvError \/ RecvEnd \/ End \/ Verify
  PROVE  Promise!GiveUp \/ UNCHANGED Promise!vars
  <1>1. /\ pc \in {"alloc", "recv", "end", "verify"} /\ Phase = "storing"
        /\ UNCHANGED <<req, http, boot>> /\ UNCHANGED slot
    BY DEF Alloc, RecvError, RecvEnd, End, Verify, Abort, Phase, io
  <1>2. UNCHANGED Held
    BY <1>1, HeldAlone
  <1>3. \/ \E r \in {"Write", "Recv", "TooSmall", "OtaEnd", "Verify"} : Return(r)
        \/ pc' \in {"recv", "end", "verify", "setboot"} /\ UNCHANGED result
    BY DEF Alloc, RecvError, RecvEnd, End, Verify, Abort, Continue
  <1>4. ASSUME NEW r \in {"Write", "Recv", "TooSmall", "OtaEnd", "Verify"}, Return(r)
        PROVE  Promise!GiveUp
    <2>1. ASSUME r = "TooSmall" PROVE pc = "recv" /\ tail_used # SigLen
      BY <1>4, <2>1 DEF Alloc, RecvError, RecvEnd, End, Verify, Abort, Continue, Return
    <2>2. ASSUME r = "TooSmall" PROVE Held = 0
      BY <2>1, <2>2, HeldWritten DEF TypeOK, StreamOK
    <2> QED
      BY <1>1, <1>2, <1>4, <2>1, <2>2, GivesUp DEF PC, Result
  <1>5. CASE pc' \in {"recv", "end", "verify", "setboot"} /\ UNCHANGED result
    BY <1>1, <1>2, <1>5 DEF Phase, Promise!vars
  <1> QED
    BY <1>3, <1>4, <1>5

LEMMA AnswerReplies ==
  ASSUME IInv, Answer
  PROVE  Promise!Reply
  <1>1. UNCHANGED Held
    BY HeldAlone DEF Answer, io
  <1> QED
    BY <1>1 DEF Answer, Phase, Promise!Reply

\* install_signed and handle_upload implement what ota.h promises of an upload, for
\* every body, cut, size limit and failure (KeepsPromise).
THEOREM PromiseKept == Spec => KeepsPromise
  <1>1. Init => Promise!Init
    <2>1. Init => Held = 0
      BY HeldPrefix DEF Init
    <2> QED
      BY <2>1 DEF Init, Phase, Promise!Init, NoUpload
  <1>2. IInv /\ IInv' /\ [Next]_vars => [Promise!Next]_(Promise!vars)
    <2> SUFFICES ASSUME IInv, IInv', [Next]_vars
                 PROVE  Promise!Next \/ UNCHANGED Promise!vars
      OBVIOUS
    <2>1. ASSUME NEW u \in Uploads, Accept(u) PROVE Promise!Next
      BY <2>1, AcceptAsks DEF Promise!Next
    <2>2. ASSUME NEW n \in 1 .. Chunk, Recv(n)
          PROVE  Promise!Next \/ UNCHANGED Promise!vars
      BY <2>2, RecvStores DEF Promise!Next
    <2>3. CASE Begin
      BY <2>3, BeginErases DEF Promise!Next
    <2>4. CASE Alloc \/ RecvError \/ RecvEnd \/ End \/ Verify
      BY <2>4, OthersGiveUp DEF Promise!Next
    <2>5. CASE SetBoot
      BY <2>5, SetBootInstalls DEF Promise!Next
    <2>6. CASE Answer
      BY <2>6, AnswerReplies DEF Promise!Next
    <2>7. CASE UNCHANGED vars
      BY <2>7, HeldAlone DEF vars, io, Phase, Promise!vars
    <2> QED
      BY <2>1, <2>2, <2>3, <2>4, <2>5, <2>6, <2>7 DEF Next, Handler
  <1> QED
    BY <1>1, <1>2, Invariance, PTL DEF Spec, KeepsPromise, Promise!Spec
===============================================================================
