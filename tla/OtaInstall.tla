------------------------------ MODULE OtaInstall ------------------------------
(***************************************************************************)
(* webui::ota::install_signed and the handler around it, handle_upload     *)
(* (src/web/ota.cpp): one signed upload at a time is streamed into the     *)
(* update slot, its trailing signature split off, the slot verified and    *)
(* the boot partition flipped.                                             *)
(*                                                                         *)
(* Bytes are named by their position in the request body, so "the right    *)
(* byte in the right place" is visible and a byte's value is not.  Every   *)
(* ESP-IDF call that can fail is a step that may fail.                     *)
(***************************************************************************)
EXTENDS Integers

CONSTANTS
  SigLen,      \* kSigLen: the length of the signature trailer
  Chunk,       \* kChunk: the most httpd_req_recv is asked for
  MinImage,    \* the 1024 of the lower size check
  MaxSize,     \* Config.max_size
  SlotSize,    \* the capacity of the update partition
  Uploads      \* the requests clients make

NoImage == -1

(***************************************************************************)
(* A request announces a body of len bytes.  image is the length of the    *)
(* prefix that the signer signed, its signature being the SigLen bytes     *)
(* after that prefix, or NoImage when no prefix is signed that way with    *)
(* the configured key.                                                     *)
(***************************************************************************)
ASSUME ConstantsOK ==
  /\ SigLen \in Nat \ {0}
  /\ Chunk \in Nat \ {0}
  /\ MinImage \in Nat
  /\ MaxSize \in Nat
  /\ SlotSize \in Nat
  /\ Uploads \subseteq [len : Nat, image : Nat \cup {NoImage}]

VARIABLES
  pc,          \* where the handler is
  req,         \* the request it serves, or served last
  slot,        \* the bytes in the update partition
  handle,      \* is the esp_ota handle open?
  heap,        \* is the receive buffer allocated?
  buf,         \* the receive buffer
  tail,        \* scratch of the loop, then the signature handed to the verifier
  tail_used,   \* bytes held back at the front of buf
  written,     \* bytes handed to esp_ota_write
  total_recv,  \* bytes received
  result,      \* what install_signed returned
  http,        \* the status code handle_upload answered last
  boot         \* does otadata select the running slot or the update slot?

io     == <<slot, handle, heap>>
stream == <<buf, tail_used, written, total_recv>>
vars   == <<pc, req, io, stream, tail, result, http, boot>>

NoUpload == [len |-> 0, image |-> NoImage]
Garbage  == -1                             \* an unspecified byte
Byte     == Nat \cup {Garbage}
Capacity == Chunk + SigLen                 \* bytes allocated for buf

PC == {"idle", "begin", "alloc", "recv", "end", "verify", "setboot", "answer"}

\* Mmap is a value of the enum that install_signed never returns.
Result == {"Ok", "TooLarge", "TooSmall", "NoPartition", "OtaBegin", "Recv",
           "Write", "OtaEnd", "Mmap", "Verify", "SetBoot"}

HttpStatus(r) ==
  CASE r = "Ok"       -> 200
    [] r = "TooLarge" -> 413
    [] r = "Verify"   -> 401
    [] r \in {"NoPartition", "OtaBegin", "Write", "OtaEnd", "Mmap", "SetBoot"} -> 500
    [] OTHER          -> 400

Prefix(n) == [i \in 0 .. n - 1 |-> i]      \* the first n bytes of the body

-----------------------------------------------------------------------------
(* The byte moves of the receive loop.                                     *)

\* buf after httpd_req_recv put n bytes behind the tail_used bytes held back.
Received(n) ==
  [i \in 0 .. Capacity - 1 |->
     IF i \in tail_used .. tail_used + n - 1 THEN total_recv + (i - tail_used)
                                             ELSE buf[i]]

\* The slot after esp_ota_write appended the first n bytes of b.
Flashed(b, n) ==
  [i \in 0 .. written + n - 1 |-> IF i < written THEN slot[i] ELSE b[i - written]]

\* Mutant: the memcpy back into buf is forgotten.
Slid_NotCopied(b, n) == b

\* b after its last SigLen bytes, from n on, moved to the front.
Slid(b, n) == [i \in 0 .. Capacity - 1 |-> IF i < SigLen THEN b[n + i] ELSE b[i]]

\* Mutant: waits for a whole smallest image, beyond what buf was allocated for.
TooShort_Image(combined) == combined < SigLen + MinImage

TooShort(combined) == combined < SigLen

\* Mutant: one byte too few goes to flash.
ToWrite_OneLess(combined) == IF combined > SigLen THEN combined - SigLen - 1 ELSE 0

ToWrite(combined) == combined - SigLen

\* crypto_sign_verify_detached over the mapped slot, taken as ideal: it
\* accepts exactly the signed prefix with its own signature.
SignatureOK ==
  /\ req.image = written
  /\ slot = Prefix(written)
  /\ tail = [i \in 0 .. SigLen - 1 |-> written + i]

-----------------------------------------------------------------------------
FreshBuf  == [i \in 0 .. Capacity - 1 |-> Garbage]
FreshTail == [i \in 0 .. SigLen - 1 |-> Garbage]

Init ==
  /\ pc = "idle"
  /\ req = NoUpload
  /\ slot = Prefix(0)
  /\ handle = FALSE
  /\ heap = FALSE
  /\ buf = FreshBuf
  /\ tail = FreshTail
  /\ tail_used = 0
  /\ written = 0
  /\ total_recv = 0
  /\ result = "Ok"
  /\ http = 0
  /\ boot = "running"

Return(r) == pc' = "answer" /\ result' = r

Continue(label) == pc' = label /\ UNCHANGED result

\* Mutant: esp_ota_abort is forgotten.
Abort_KeepsHandle(r) == Return(r) /\ heap' = FALSE /\ UNCHANGED <<slot, handle>>

\* Free the buffer, abort the handle, return: the exit of the receive loop.
Abort(r) == Return(r) /\ heap' = FALSE /\ handle' = FALSE /\ UNCHANGED slot

\* Mutant: max_size is taken for a limit of the image alone.
Accept_ImageOnly(u) ==
  /\ pc = "idle"
  /\ req' = u
  /\ \/ u.len > MaxSize + SigLen /\ Return("TooLarge")
     \/ u.len < SigLen + MinImage /\ Return("TooSmall")
     \/ u.len \in SigLen + MinImage .. MaxSize + SigLen /\ Continue("begin")
  /\ UNCHANGED <<io, stream, tail, http, boot>>

\* The size checks, before anything is touched.
Accept(u) ==
  /\ pc = "idle"
  /\ req' = u
  /\ \/ u.len > MaxSize /\ Return("TooLarge")
     \/ u.len <= MaxSize /\ u.len < SigLen + MinImage /\ Return("TooSmall")
     \/ u.len <= MaxSize /\ u.len >= SigLen + MinImage /\ Continue("begin")
  /\ UNCHANGED <<io, stream, tail, http, boot>>

\* esp_ota_get_next_update_partition, then esp_ota_begin, which erases the slot
\* (a failing one may have erased it already).
Begin ==
  /\ pc = "begin"
  /\ \/ Return("NoPartition") /\ UNCHANGED <<slot, handle>>
     \/ Return("OtaBegin") /\ slot' \in {slot, Prefix(0)} /\ UNCHANGED handle
     \/ Continue("alloc") /\ slot' = Prefix(0) /\ handle' = TRUE
  /\ UNCHANGED <<req, heap, stream, tail, http, boot>>

Alloc ==
  /\ pc = "alloc"
  /\ \/ Continue("recv") /\ heap' = TRUE /\ UNCHANGED handle
     \/ Return("Write") /\ handle' = FALSE /\ UNCHANGED heap
  /\ UNCHANGED <<req, slot, stream, tail, http, boot>>

\* One pass of the loop with n > 0: too little for a signature yet, or all but
\* the last SigLen bytes go to flash.
Hold(n) ==
  /\ TooShort(tail_used + n)
  /\ buf' = Received(n)
  /\ tail_used' = tail_used + n
  /\ Continue("recv")
  /\ UNCHANGED <<io, written, tail>>

Flush(n) ==
  LET w == ToWrite(tail_used + n) IN
  /\ ~TooShort(tail_used + n)
  /\ written + w <= SlotSize
  /\ slot' = Flashed(Received(n), w)
  /\ written' = written + w
  /\ tail' = [i \in 0 .. SigLen - 1 |-> Received(n)[w + i]]
  /\ buf' = Slid(Received(n), w)
  /\ tail_used' = SigLen
  /\ Continue("recv")
  /\ UNCHANGED <<handle, heap>>

\* esp_ota_write refuses: always beyond the slot, else on any flash error.
FlushFails(n) ==
  /\ ~TooShort(tail_used + n)
  /\ Abort("Write")
  /\ buf' = Received(n)
  /\ UNCHANGED <<tail_used, written, tail>>

Recv(n) ==
  /\ pc = "recv"
  /\ n <= req.len - total_recv
  /\ total_recv' = total_recv + n
  /\ Hold(n) \/ Flush(n) \/ FlushFails(n)
  /\ UNCHANGED <<req, http, boot>>

\* httpd_req_recv < 0: a socket error or the 30 s timeout, with bytes still due.
RecvError ==
  /\ pc = "recv"
  /\ total_recv < req.len
  /\ Abort("Recv")
  /\ UNCHANGED <<req, stream, tail, http, boot>>

\* Mutant: an empty receive is tried again, like a timeout in many handlers.
RecvEnd_TriesAgain == pc = "recv" /\ UNCHANGED vars

\* httpd_req_recv = 0: the whole body is in, or the client closed early.
RecvEnd ==
  /\ pc = "recv"
  /\ \/ tail_used # SigLen /\ Abort("TooSmall") /\ UNCHANGED tail
     \/ /\ tail_used = SigLen
        /\ tail' = [i \in 0 .. SigLen - 1 |-> buf[i]]
        /\ heap' = FALSE
        /\ Continue("end")
        /\ UNCHANGED <<slot, handle>>
  /\ UNCHANGED <<req, stream, http, boot>>

\* esp_ota_end closes the handle whatever it returns; an empty image is refused.
End ==
  /\ pc = "end"
  /\ handle' = FALSE
  /\ Return("OtaEnd") \/ (written > 0 /\ Continue("verify"))
  /\ UNCHANGED <<req, slot, heap, stream, tail, http, boot>>

\* Mutant: the answer of verify_image is logged and not acted upon.
Verify_Logged ==
  /\ pc = "verify"
  /\ Return("Verify") \/ Continue("setboot")
  /\ UNCHANGED <<req, io, stream, tail, http, boot>>

\* verify_image: a failed mmap and a bad signature both come back as false.
Verify ==
  /\ pc = "verify"
  /\ Return("Verify") \/ (SignatureOK /\ Continue("setboot"))
  /\ UNCHANGED <<req, io, stream, tail, http, boot>>

\* Mutant: the error of esp_ota_set_boot_partition is dropped.
SetBoot_Unchecked ==
  /\ pc = "setboot"
  /\ Return("Ok")
  /\ boot' \in {boot, "slot"}
  /\ UNCHANGED <<req, io, stream, tail, http>>

SetBoot ==
  /\ pc = "setboot"
  /\ \/ Return("SetBoot") /\ UNCHANGED boot
     \/ Return("Ok") /\ boot' = "slot"
  /\ UNCHANGED <<req, io, stream, tail, http>>

\* handle_upload sends the status for the result; the locals are gone.
Answer ==
  /\ pc = "answer"
  /\ pc' = "idle"
  /\ http' = HttpStatus(result)
  /\ buf' = FreshBuf /\ tail' = FreshTail
  /\ tail_used' = 0 /\ written' = 0 /\ total_recv' = 0
  /\ UNCHANGED <<req, io, result, boot>>

Handler ==
  \/ Begin \/ Alloc
  \/ \E n \in 1 .. Chunk : Recv(n)
  \/ RecvError \/ RecvEnd \/ End \/ Verify \/ SetBoot \/ Answer

Next == (\E u \in Uploads : Accept(u)) \/ Handler

Spec == Init /\ [][Next]_vars

\* The httpd task keeps running, and every receive returns within its timeout.
FairSpec == Spec /\ WF_vars(Handler)
-----------------------------------------------------------------------------
(* Properties.                                                             *)

\* Every variable keeps its type; in particular tail_used + Chunk never
\* exceeds the Chunk + SigLen bytes allocated for buf.
\* What the slot can hold: bytes from its start on.
SlotTyped(s) == \E n \in 0 .. SlotSize : s \in [0 .. n - 1 -> Byte]

TypeOK ==
  /\ pc \in PC
  /\ req \in Uploads \cup {NoUpload}
  /\ handle \in BOOLEAN
  /\ heap \in BOOLEAN
  /\ buf \in [0 .. Capacity - 1 -> Byte]
  /\ tail \in [0 .. SigLen - 1 -> Byte]
  /\ tail_used \in 0 .. SigLen
  /\ written \in Nat
  /\ SlotTyped(slot)
  /\ total_recv \in Nat
  /\ result \in Result
  /\ http \in {0, 200, 400, 401, 413, 500}
  /\ boot \in {"running", "slot"}

\* While the body streams in, the flash holds exactly the bytes received so far
\* but for the last ones, which wait in order at the front of buf; and nothing
\* is flashed before a whole signature's worth is held back.
StreamOK ==
  pc \in {"alloc", "recv"} =>
    /\ total_recv = written + tail_used
    /\ total_recv <= req.len
    /\ slot = Prefix(written)
    /\ tail_used < SigLen => written = 0
    /\ \A i \in 0 .. tail_used - 1 : buf[i] = written + i

\* After the stream the received bytes are split in two: all but the last
\* SigLen are in flash, those last ones are what the verifier gets.
SplitOK ==
  pc \in {"end", "verify", "setboot"} =>
    /\ total_recv = written + SigLen
    /\ slot = Prefix(written)
    /\ tail = [i \in 0 .. SigLen - 1 |-> written + i]

\* Between uploads the locals do not exist; the handle and the buffer live
\* exactly where the code needs them; and after SetBoot has been reached the
\* slot holds the signed image.
LocalsFresh ==
  pc \in {"idle", "begin"} => tail_used = 0 /\ written = 0 /\ total_recv = 0

ResourcesOK ==
  /\ handle <=> pc \in {"alloc", "recv", "end"}
  /\ heap <=> pc = "recv"

VerifiedOK ==
  /\ pc = "setboot" => SignatureOK
  /\ pc = "answer" /\ result = "Ok" => SignatureOK /\ boot = "slot"
  /\ pc = "idle" /\ http = 200 => slot = Prefix(req.image) /\ boot = "slot"

\* The inductive invariant: what install_signed maintains from call to call.
UploadInv ==
  LocalsFresh /\ ResourcesOK /\ StreamOK /\ SplitOK /\ VerifiedOK

\* However the body is cut into receives, an image that arrives whole with its
\* own signature, and nothing behind it, passes the verification.
GenuineVerifies ==
  pc = "verify" /\ total_recv = req.image + SigLen => SignatureOK

\* A client is told 200 only for an upload whose signed image, and not a byte
\* more or less, is in the slot that otadata now selects.
OkMeansInstalled ==
  pc = "idle" /\ http = 200 => slot = Prefix(req.image) /\ boot = "slot"

\* Whatever fails, on every way out of install_signed the OTA handle is closed
\* and the buffer freed; and the buffer lives only while the handle is open.
NothingLeaks ==
  /\ pc \in {"idle", "answer"} => ~handle /\ ~heap
  /\ heap => handle

\* The boot partition is flipped only over a slot whose contents the received
\* signature signs.
FlipsOnlySigned == [][boot' # boot => SignatureOK]_vars

\* Every request is answered, however its body arrives.
EveryUploadAnswered == (pc # "idle") ~> (pc = "idle")

\* install_signed implements the promise of SignedUpload.
Phase ==
  CASE pc = "idle" -> "idle"
    [] pc = "begin" -> "checked"
    [] pc = "answer" -> "done"
    [] OTHER -> "storing"

Held == IF \E n \in 0 .. SlotSize : slot = Prefix(n)
        THEN CHOOSE n \in 0 .. SlotSize : slot = Prefix(n) ELSE -1

Promise == INSTANCE SignedUpload WITH
             phase <- Phase, flash <- Held, Errors <- Result \ {"Ok"}

KeepsPromise == Promise!Spec
===============================================================================
