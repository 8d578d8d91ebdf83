------------------------------- MODULE RdRand -------------------------------
(***************************************************************************)
(* rdrand_get_bytes (rdrand.c) and its callers through randombytes_buf:    *)
(* put_in_buffer (ring_buffer.c), which pads every short message with      *)
(* random bytes up to the end of a buffer on the stack of the SMM handler, *)
(* and crypto_aead_aes256gcm_keygen.  The filler writes a misaligned head, *)
(* aligned words and a misaligned tail; the number of bytes after the head *)
(* is an unsigned subtraction.                                             *)
(*                                                                         *)
(* Values are abstracted to where they come from: a byte of memory is      *)
(* <<w, b>>, byte b of the w-th random word of the call, or Zero, which is *)
(* what the instruction leaves in its destination when it fails.           *)
(***************************************************************************)
EXTENDS Integers

CONSTANTS
  Base,        \* address of message[] in put_in_buffer
  MSG_SIZE,    \* its size
  KEYBYTES,    \* size of a key: crypto_aead_aes256gcm_KEYBYTES, 32
  Modulus      \* 2^32: the range of unsigned int

W == 4         \* sizeof(_wordlen_t): SeaBIOS is a 32-bit program

\* The padding ends at a word.  MSG_SIZE, PKT_SIZE - 16, is a multiple of one; that
\* message[], an array of characters, starts at one is assumed of the compiler.
ASSUME MessageAssumption ==
  /\ Base \in Nat /\ MSG_SIZE \in Nat /\ (Base + MSG_SIZE) % W = 0
  /\ KEYBYTES \in Nat /\ KEYBYTES >= W
  /\ Modulus \in Nat /\ Base + MSG_SIZE < Modulus

Zero == <<0, 0>>
Result == {"none", "SUCCESS", "NOT_READY", "UNSUPPORTED"}

VARIABLES
  supported,   \* the static of RdRand_isSupported, settled by cpuid
  pc,          \* "idle", or the block to be written next
  start, n,    \* the arguments of the call
  i,           \* words written by rdrand_get_n_32
  words,       \* random words drawn in the call
  memory,      \* what the call has written, by address
  result       \* what the last call returned

vars == <<supported, pc, start, n, i, words, memory, result>>

Buffer == start .. start + n - 1
-----------------------------------------------------------------------------
\* Unsigned subtraction, for a difference within one period.
Unsigned(d) == IF d < 0 THEN d + Modulus ELSE d

\* The first aligned address of the buffer.
blockstart(s) == IF s % W = 0 THEN s ELSE s - (s % W) + W

startlen(s) == blockstart(s) - s

count(s, k) == IF s % W = 0 THEN k ELSE Unsigned(k - (W - (s % W)))

length(s, k) == count(s, k) \div W

\* Mutant: the tail of the whole buffer instead of what follows the head.
MutantResidual(s, k) == k % W

residual(s, k) == count(s, k) % W

residualstart(s, k) == blockstart(s) + W * length(s, k)

\* Mutant: temprand is not shifted between two bytes.
MutantNoShift(first, k, w) ==
  memory' = [a \in DOMAIN memory \cup first .. first + k - 1 |->
               IF a \in first .. first + k - 1 THEN <<w, 0>> ELSE memory[a]]

\* Mutant: the shifts of temprand go on from the head to the tail.
MutantShiftOn(first, k, w) ==
  memory' = [a \in DOMAIN memory \cup first .. first + k - 1 |->
               IF a \in first .. first + k - 1 THEN <<w, a - start>> ELSE memory[a]]

\* The bytes of random word w (none if w = 0) go to k addresses.
Store(first, k, w) ==
  memory' = [a \in DOMAIN memory \cup first .. first + k - 1 |->
               IF a \in first .. first + k - 1
                 THEN IF w = 0 THEN Zero ELSE <<w, a - first>>
                 ELSE memory[a]]

\* rdrand_32 with retries, called only for a block of k > 0 bytes: it may
\* draw a word, ...
Drawn(k) == IF k > 0 THEN supported /\ words' = words + 1 ELSE words' = words

\* ... or fail, at once without the instruction and otherwise after
\* RETRY_LIMIT attempts, which ends the call.
Failed ==
  /\ result' = IF supported THEN "NOT_READY" ELSE "UNSUPPORTED"
  /\ pc' = "idle" /\ words' = words
-----------------------------------------------------------------------------
\* randombytes_buf calls rdrand_get_bytes and drops its result.
Enter(s, k) ==
  /\ pc = "idle"
  /\ pc' = "head" /\ start' = s /\ n' = k
  /\ i' = 0 /\ words' = 0
  /\ memory' = [a \in {} |-> Zero]
  /\ result' = "none"
  /\ UNCHANGED supported

\* put_in_buffer has copied len bytes and pads the rest of message[].
put_in_buffer(len) == Enter(Base + len, MSG_SIZE - len)

\* The caller of the key generator owns the key, which may lie anywhere.
keygen(s) == Enter(s, KEYBYTES)

HeadBlock ==
  /\ pc = "head"
  /\ \/ /\ Drawn(startlen(start))
        /\ Store(start, startlen(start), words')
        /\ pc' = "words" /\ result' = result
     \/ startlen(start) > 0 /\ Failed /\ memory' = memory
  /\ UNCHANGED <<supported, start, n, i>>

\* One round of rdrand_get_n_32: rdrand_32 writes into the buffer itself.
WordBlock ==
  /\ pc = "words" /\ i < length(start, n)
  /\ \/ /\ Drawn(W)
        /\ Store(blockstart(start) + W * i, W, words')
        /\ i' = i + 1 /\ UNCHANGED <<pc, result>>
     \/ /\ Failed
        /\ IF supported THEN Store(blockstart(start) + W * i, W, 0) ELSE memory' = memory
        /\ i' = i
  /\ UNCHANGED <<supported, start, n>>

TailBlock ==
  /\ pc = "words" /\ i >= length(start, n)
  /\ \/ /\ Drawn(residual(start, n))
        /\ Store(residualstart(start, n), residual(start, n), words')
        /\ pc' = "idle" /\ result' = "SUCCESS"
     \/ residual(start, n) > 0 /\ Failed /\ memory' = memory
  /\ UNCHANGED <<supported, start, n, i>>

Init ==
  /\ supported \in BOOLEAN
  /\ pc = "idle" /\ start = 0 /\ n = 0 /\ i = 0 /\ words = 0
  /\ memory = [a \in {} |-> Zero]
  /\ result = "none"

rdrand_get_bytes == HeadBlock \/ WordBlock \/ TailBlock

Next ==
  \/ rdrand_get_bytes
  \/ \E len \in 0 .. MSG_SIZE - 1 : put_in_buffer(len)
  \/ \E s \in Base .. Base + MSG_SIZE : keygen(s)

Spec == Init /\ [][Next]_vars
-----------------------------------------------------------------------------
\* Every variable of the call keeps its type.
TypeOK ==
  /\ supported \in BOOLEAN
  /\ pc \in {"idle", "head", "words"} /\ result \in Result
  /\ start \in Nat /\ n \in Nat /\ i \in Nat /\ words \in Nat
  /\ DOMAIN memory \subseteq Nat
  /\ \A a \in DOMAIN memory : memory[a] \in Nat \X (0 .. W - 1)

\* Padding never writes outside message[] and a key never outside its buffer,
\* wherever they start and whichever draw fails: the head, the words and the tail of
\* rdrand_get_bytes stay between dest and dest + n.
StaysInBuffer == DOMAIN memory \subseteq Buffer

\* No call writes anything but its buffer, and one that reports success has filled all
\* of it with bytes that came out of the generator.
FillsExactly ==
  /\ StaysInBuffer
  /\ result = "SUCCESS" => DOMAIN memory = Buffer /\ \A a \in Buffer : memory[a] # Zero

\* No random byte is used for two addresses: neither the shifts of temprand
\* nor the words that overlap head and tail repeat one.
NoByteReused ==
  \A a, b \in DOMAIN memory : memory[a] = memory[b] /\ memory[a] # Zero => a = b
=============================================================================
