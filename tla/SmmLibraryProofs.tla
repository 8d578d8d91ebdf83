--------------------------- MODULE SmmLibraryProofs ---------------------------
(***************************************************************************)
(* Proofs about the library of the SMM handler.                            *)
(*                                                                         *)
(* RdRand: rdrand_get_bytes writes exactly the buffer it is given, for     *)
(* every placement and size that its callers can pass.  The arithmetic of  *)
(* the three blocks is one lemma (Blocks); the inductive invariant says    *)
(* that what has been written so far is a prefix of the buffer whose end   *)
(* is the address of the next block.                                       *)
(*                                                                         *)
(* BoundaryCheck: is_within_smram accepts exactly the buffers in SMRAM.    *)
(*                                                                         *)
(* RandomUniform: randombytes_uniform returns every value for the same     *)
(* number of random words.                                                 *)
(*                                                                         *)
(* Md5Hash: md5_hash compresses the padded message.  The invariant is the  *)
(* one of its loop: what has been compressed is the message up to off.     *)
(***************************************************************************)
EXTENDS RandomUniform, BoundaryCheck, Md5Hash, FiniteSetTheorems, SequenceTheorems, TLAPS

-----------------------------------------------------------------------------
(* Random bytes. *)

\* A head that does not reach past the end: what the callers guarantee.
Fits(s, k) == k >= startlen(s)

\* End of the written prefix while the words are being written.
Frontier == blockstart(start) + W * i

PrefixWritten ==
  /\ pc = "head" => DOMAIN memory = {} /\ i = 0 /\ words = 0 /\ result = "none"
  /\ pc = "words" =>
       /\ i <= length(start, n) /\ result = "none"
       /\ DOMAIN memory = start .. Frontier - 1
       /\ \A a \in DOMAIN memory : memory[a] # Zero

Fresh == \A a \in DOMAIN memory : memory[a][1] <= words

IInv ==
  /\ TypeOK /\ Fits(start, n) /\ PrefixWritten /\ Fresh
  /\ StaysInBuffer /\ FillsExactly /\ NoByteReused

-----------------------------------------------------------------------------
\* The three blocks of rdrand_get_bytes are adjacent and end with the buffer:
\* the unsigned difference does not wrap when the head fits.
LEMMA Blocks ==
  ASSUME NEW s \in Nat, NEW k \in Nat, Fits(s, k)
  PROVE  /\ startlen(s) \in 0 .. 3 /\ blockstart(s) = s + startlen(s)
         /\ length(s, k) \in Nat /\ residual(s, k) \in 0 .. 3
         /\ blockstart(s) \in Nat /\ residualstart(s, k) \in Nat
         /\ residualstart(s, k) + residual(s, k) = s + k
<1>1. s % 4 \in 0 .. 3 /\ s % 4 <= s
  OBVIOUS
<1>2. /\ startlen(s) \in 0 .. 3 /\ blockstart(s) = s + startlen(s)
      /\ blockstart(s) \in Nat
  BY <1>1 DEF startlen, blockstart, W
<1>3. count(s, k) = k - startlen(s) /\ count(s, k) \in Nat
  BY <1>1, <1>2 DEF count, Unsigned, startlen, blockstart, Fits, W
<1>4. \A c \in Nat : c \div 4 \in Nat /\ c % 4 \in 0 .. 3 /\ 4 * (c \div 4) + (c % 4) = c
  OBVIOUS
<1>5. /\ length(s, k) \in Nat /\ residual(s, k) \in 0 .. 3
      /\ 4 * length(s, k) + residual(s, k) = count(s, k)
  BY <1>3, <1>4 DEF length, residual, W
<1> QED
  BY <1>2, <1>3, <1>5 DEF residualstart, W

\* A word that is still to be written ends inside the buffer, and the last
\* one ends where the tail begins.
LEMMA WordFits ==
  ASSUME NEW s \in Nat, NEW k \in Nat, Fits(s, k), NEW j \in Nat, j <= length(s, k)
  PROVE  /\ blockstart(s) + W * j \in Nat /\ s <= blockstart(s) + W * j
         /\ j < length(s, k) => blockstart(s) + W * j + 4 <= s + k
         /\ j = length(s, k) => blockstart(s) + W * j = residualstart(s, k)
<1>1. /\ startlen(s) \in 0 .. 3 /\ blockstart(s) = s + startlen(s)
      /\ length(s, k) \in Nat /\ residual(s, k) \in 0 .. 3
      /\ residualstart(s, k) + residual(s, k) = s + k
  BY Blocks
<1>2. residualstart(s, k) = blockstart(s) + 4 * length(s, k)
  BY DEF residualstart, W
<1> QED
  BY <1>1, <1>2 DEF W

\* What Store leaves in memory, for the bytes of a fresh word.
LEMMA StoreFresh ==
  ASSUME TypeOK, Fresh, NoByteReused,
         NEW STATE first, first \in Nat, NEW STATE k, k \in 0 .. 4,
         words' \in Nat, words' = words \/ words' = words + 1,
         k > 0 => words' = words + 1,
         Store(first, k, words')
  PROVE  /\ DOMAIN memory' = DOMAIN memory \cup first .. first + k - 1
         /\ \A a \in DOMAIN memory' :
              memory'[a] = IF a \in first .. first + k - 1 THEN <<words', a - first>> ELSE memory[a]
         /\ DOMAIN memory' \subseteq Nat
         /\ \A a \in DOMAIN memory' : memory'[a] \in Nat \X (0 .. W - 1)
         /\ Fresh' /\ NoByteReused'
<1> DEFINE New == first .. first + k - 1
<1>1. DOMAIN memory' = DOMAIN memory \cup New
  BY DEF Store
<1>2. \A a \in DOMAIN memory' : memory'[a] = IF a \in New THEN <<words', a - first>> ELSE memory[a]
  <2>1. k = 0 \/ words' # 0
    BY DEF TypeOK
  <2> QED
    BY <2>1 DEF Store
<1>3. \A a \in New : a \in Nat /\ a - first \in 0 .. 3 /\ words' = words + 1
  OBVIOUS
<1>4. DOMAIN memory' \subseteq Nat /\ \A a \in DOMAIN memory' : memory'[a] \in Nat \X (0 .. W - 1)
  <2> SUFFICES ASSUME NEW a \in DOMAIN memory'
               PROVE  a \in Nat /\ memory'[a] \in Nat \X (0 .. W - 1)
    OBVIOUS
  <2>1. CASE a \in New
    BY <1>2, <1>3, <2>1 DEF W
  <2>2. CASE a \notin New
    BY <1>1, <1>2, <2>2 DEF TypeOK
  <2> QED
    BY <2>1, <2>2
<1>5. Fresh'
  <2> SUFFICES ASSUME NEW a \in DOMAIN memory' PROVE memory'[a][1] <= words'
    BY DEF Fresh
  <2>1. CASE a \in New
    BY <1>2, <2>1
  <2>2. CASE a \notin New
    <3>1. a \in DOMAIN memory /\ memory'[a] = memory[a] /\ memory[a][1] <= words
      BY <1>1, <1>2, <2>2 DEF Fresh
    <3>2. memory[a][1] \in Nat
      BY <3>1 DEF TypeOK
    <3> QED
      BY <3>1, <3>2 DEF TypeOK
  <2> QED
    BY <2>1, <2>2
<1>6. NoByteReused'
  <2> SUFFICES ASSUME NEW a \in DOMAIN memory', NEW b \in DOMAIN memory',
                      memory'[a] = memory'[b], memory'[a] # Zero
               PROVE  a = b
    BY DEF NoByteReused, Zero
  <2>1. CASE a \in New /\ b \in New
    <3>1. <<words', a - first>> = <<words', b - first>>
      BY <1>2, <2>1
    <3>2. a - first = b - first
      BY <3>1
    <3> QED
      BY <3>2, <1>3, <2>1
  <2>2. CASE a \notin New /\ b \notin New
    BY <1>1, <1>2, <2>2 DEF NoByteReused
  <2>3. ASSUME NEW c \in New, NEW d \in DOMAIN memory' \ New PROVE memory'[c] # memory'[d]
    <3>0. memory'[c] = <<words', c - first>> /\ words' = words + 1
      BY <1>1, <1>2, <1>3, <2>3
    <3>1. memory'[c][1] = words + 1
      BY <3>0
    <3>2. d \in DOMAIN memory /\ memory'[d] = memory[d] /\ memory[d][1] <= words
      BY <1>1, <1>2, <2>3 DEF Fresh
    <3>3. memory[d][1] \in Nat /\ words \in Nat
      BY <3>2 DEF TypeOK
    <3> QED
      BY <3>1, <3>2, <3>3
  <2> QED
    BY <2>1, <2>2, <2>3
<1> QED
  BY <1>1, <1>2, <1>4, <1>5, <1>6

LEMMA InvInit == Init => IInv
<1> SUFFICES ASSUME Init PROVE IInv
  OBVIOUS
<1>1. Fits(start, n)
  BY MessageAssumption DEF Init, Fits, startlen, blockstart, W
<1> QED
  BY <1>1, MessageAssumption
  DEF Init, IInv, TypeOK, Result, PrefixWritten, Fresh, StaysInBuffer, FillsExactly, NoByteReused

\* A new call starts with nothing written.
LEMMA EnterStep ==
  ASSUME IInv, NEW s \in Nat, NEW k \in Nat, Fits(s, k), Enter(s, k)
  PROVE  IInv'
<1>1. Fits(start, n)'
  BY DEF Enter, Fits, startlen, blockstart, W
<1> QED
  BY <1>1
  DEF Enter, IInv, TypeOK, Result, PrefixWritten, Fresh, StaysInBuffer, FillsExactly, NoByteReused, Buffer

\* Every caller passes a buffer whose head fits: the padding ends on a word
\* boundary, and a key is longer than a word.
LEMMA CallersFit ==
  /\ \A m \in 0 .. MSG_SIZE - 1 :
       Base + m \in Nat /\ MSG_SIZE - m \in Nat /\ Fits(Base + m, MSG_SIZE - m)
  /\ \A s \in Base .. Base + MSG_SIZE : s \in Nat /\ KEYBYTES \in Nat /\ Fits(s, KEYBYTES)
<1>1. ASSUME NEW m \in 0 .. MSG_SIZE - 1
      PROVE  Base + m \in Nat /\ MSG_SIZE - m \in Nat /\ Fits(Base + m, MSG_SIZE - m)
  BY MessageAssumption DEF Fits, startlen, blockstart, W
<1>2. ASSUME NEW s \in Base .. Base + MSG_SIZE
      PROVE  s \in Nat /\ KEYBYTES \in Nat /\ Fits(s, KEYBYTES)
  BY MessageAssumption DEF Fits, startlen, blockstart, W
<1> QED
  BY <1>1, <1>2

LEMMA HeadStep == ASSUME IInv, HeadBlock PROVE IInv'
<1> USE DEF IInv
<1>0. start \in Nat /\ n \in Nat /\ words \in Nat /\ start' = start /\ n' = n /\ i' = i /\ i = 0
  BY DEF HeadBlock, TypeOK, PrefixWritten
<1>1. /\ startlen(start) \in 0 .. 3 /\ blockstart(start) = start + startlen(start)
      /\ length(start, n) \in Nat /\ residual(start, n) \in 0 .. 3
      /\ residualstart(start, n) + residual(start, n) = start + n
  BY <1>0, Blocks
<1>2. Fits(start, n)' /\ length(start, n)' = length(start, n) /\ Frontier' = blockstart(start)
  BY <1>0, <1>1 DEF Fits, length, count, Unsigned, startlen, blockstart, Frontier, W
<1>3. CASE Drawn(startlen(start)) /\ Store(start, startlen(start), words') /\ pc' = "words" /\ result' = result
  <2>1. /\ words' \in Nat /\ (words' = words \/ words' = words + 1)
        /\ startlen(start) > 0 => words' = words + 1
    BY <1>0, <1>1, <1>3 DEF Drawn
  <2>2. /\ DOMAIN memory' = DOMAIN memory \cup start .. start + startlen(start) - 1
        /\ \A a \in DOMAIN memory' :
             memory'[a] = IF a \in start .. start + startlen(start) - 1
                            THEN <<words', a - start>> ELSE memory[a]
        /\ DOMAIN memory' \subseteq Nat
        /\ \A a \in DOMAIN memory' : memory'[a] \in Nat \X (0 .. W - 1)
        /\ Fresh' /\ NoByteReused'
    <3>1. /\ TypeOK /\ Fresh /\ NoByteReused
          /\ start \in Nat /\ startlen(start) \in 0 .. 4
          /\ Store(start, startlen(start), words')
      BY <1>0, <1>1, <1>3
    <3> HIDE DEF IInv
    <3> QED
      BY <2>1, <3>1, StoreFresh
  <2>3. DOMAIN memory = {} /\ words = 0 /\ result = "none"
    BY DEF HeadBlock, PrefixWritten
  <2>4. DOMAIN memory' = start .. blockstart(start) - 1
    BY <1>0, <1>1, <2>2, <2>3
  <2>5. \A a \in DOMAIN memory' : memory'[a] # Zero
    <3> SUFFICES ASSUME NEW a \in DOMAIN memory' PROVE memory'[a] # Zero
      OBVIOUS
    <3>1. memory'[a] = <<words', a - start>> /\ words' = 1
      BY <1>0, <1>1, <2>1, <2>2, <2>3
    <3> QED
      BY <3>1 DEF Zero
  <2>6. PrefixWritten'
    BY <1>0, <1>1, <1>2, <1>3, <2>3, <2>4, <2>5 DEF PrefixWritten
  <2>7. StaysInBuffer' /\ FillsExactly'
    BY <1>0, <1>1, <1>3, <2>3, <2>4 DEF StaysInBuffer, FillsExactly, Buffer, Fits
  <2>8. TypeOK'
    BY <1>0, <1>3, <2>1, <2>2 DEF TypeOK, HeadBlock
  <2> QED
    BY <1>2, <2>2, <2>6, <2>7, <2>8
<1>4. CASE Failed /\ memory' = memory
  BY <1>0, <1>2, <1>4
  DEF Failed, HeadBlock, TypeOK, Result, PrefixWritten, Fresh, StaysInBuffer, FillsExactly, NoByteReused, Buffer
<1> QED
  BY <1>3, <1>4 DEF HeadBlock

LEMMA WordStep == ASSUME IInv, WordBlock PROVE IInv'
<1> USE DEF IInv
<1>0. /\ start \in Nat /\ n \in Nat /\ words \in Nat /\ i \in Nat
      /\ start' = start /\ n' = n /\ i < length(start, n) /\ result = "none"
      /\ DOMAIN memory = start .. Frontier - 1
      /\ \A a \in DOMAIN memory : memory[a] # Zero
  BY DEF WordBlock, TypeOK, PrefixWritten
<1>1. /\ startlen(start) \in 0 .. 3 /\ blockstart(start) = start + startlen(start)
      /\ blockstart(start) \in Nat
      /\ length(start, n) \in Nat /\ residual(start, n) \in 0 .. 3
      /\ residualstart(start, n) + residual(start, n) = start + n
  BY <1>0, Blocks
<1>2. Fits(start, n)' /\ length(start, n)' = length(start, n) /\ blockstart(start)' = blockstart(start)
  BY <1>0 DEF Fits, length, count, Unsigned, startlen, blockstart, W
<1>3. /\ Frontier = blockstart(start) + W * i /\ Frontier \in Nat /\ start <= Frontier
      /\ Frontier + 4 <= start + n
  <2>1. Fits(start, n) /\ i <= length(start, n)
    BY <1>0, <1>1
  <2> QED
    BY <1>0, <2>1, WordFits DEF Frontier
<1>4. CASE Drawn(W) /\ Store(blockstart(start) + W * i, W, words') /\ i' = i + 1 /\ UNCHANGED <<pc, result>>
  <2>1. words' = words + 1 /\ words' \in Nat
    BY <1>0, <1>4 DEF Drawn, W
  <2>2. /\ DOMAIN memory' = DOMAIN memory \cup Frontier .. Frontier + 4 - 1
        /\ \A a \in DOMAIN memory' :
             memory'[a] = IF a \in Frontier .. Frontier + 4 - 1
                            THEN <<words', a - Frontier>> ELSE memory[a]
        /\ DOMAIN memory' \subseteq Nat
        /\ \A a \in DOMAIN memory' : memory'[a] \in Nat \X (0 .. W - 1)
        /\ Fresh' /\ NoByteReused'
    <3>1. Store(Frontier, 4, words')
      BY <1>3, <1>4 DEF W
    <3>2. TypeOK /\ Fresh /\ NoByteReused /\ Frontier \in Nat /\ 4 \in 0 .. 4
      BY <1>3
    <3> HIDE DEF IInv
    <3> QED
      BY <2>1, <3>1, <3>2, StoreFresh
  <2>3. Frontier' = Frontier + 4
    BY <1>0, <1>1, <1>2, <1>3, <1>4 DEF Frontier, W
  <2>4. DOMAIN memory' = start .. Frontier' - 1
    BY <1>0, <1>3, <2>2, <2>3
  <2>5. \A a \in DOMAIN memory' : memory'[a] # Zero
    <3> SUFFICES ASSUME NEW a \in DOMAIN memory' PROVE memory'[a] # Zero
      OBVIOUS
    <3>1. CASE a \in Frontier .. Frontier + 4 - 1
      <4>1. memory'[a] = <<words', a - Frontier>>
        BY <2>2, <3>1
      <4> QED
        BY <1>0, <2>1, <4>1 DEF Zero
    <3>2. CASE a \notin Frontier .. Frontier + 4 - 1
      BY <1>0, <2>2, <3>2
    <3> QED
      BY <3>1, <3>2
  <2>6. PrefixWritten'
    BY <1>0, <1>1, <1>2, <1>4, <2>4, <2>5 DEF PrefixWritten, WordBlock
  <2>7. StaysInBuffer' /\ FillsExactly'
    BY <1>0, <1>3, <1>4, <2>3, <2>4 DEF StaysInBuffer, FillsExactly, Buffer
  <2>8. TypeOK'
    BY <1>0, <1>4, <2>1, <2>2 DEF TypeOK, WordBlock
  <2> QED
    BY <1>2, <2>2, <2>6, <2>7, <2>8
<1>5. CASE Failed /\ memory' = memory /\ i' = i
  BY <1>0, <1>2, <1>5
  DEF Failed, WordBlock, TypeOK, Result, PrefixWritten, Fresh, StaysInBuffer, FillsExactly, NoByteReused, Buffer
<1>6. CASE Failed /\ Store(blockstart(start) + W * i, W, 0) /\ i' = i
  <2>1. Store(Frontier, 4, 0) /\ words' = words
    BY <1>3, <1>6 DEF W, Failed
  <2>2. /\ DOMAIN memory' = DOMAIN memory \cup Frontier .. Frontier + 4 - 1
        /\ \A a \in DOMAIN memory' : memory'[a] = Zero \/ (a \in DOMAIN memory /\ memory'[a] = memory[a])
    BY <2>1 DEF Store
  <2>3. DOMAIN memory' \subseteq Buffer' /\ DOMAIN memory' \subseteq Nat
    BY <1>0, <1>3, <2>2 DEF Buffer
  <2>4. \A a \in DOMAIN memory' : memory'[a] \in Nat \X (0 .. W - 1)
    BY <2>2 DEF TypeOK, Zero, W
  <2>5. Fresh'
    <3>1. Zero[1] <= words
      BY <1>0 DEF Zero
    <3> QED
      BY <2>1, <2>2, <3>1 DEF Fresh
  <2>6. NoByteReused'
    BY <2>2 DEF NoByteReused, Zero
  <2> QED
    BY <1>0, <1>2, <1>6, <2>3, <2>4, <2>5, <2>6
    DEF Failed, WordBlock, TypeOK, Result, PrefixWritten, StaysInBuffer, FillsExactly
<1> QED
  BY <1>4, <1>5, <1>6 DEF WordBlock

LEMMA TailStep == ASSUME IInv, TailBlock PROVE IInv'
<1> USE DEF IInv
<1>0. /\ start \in Nat /\ n \in Nat /\ words \in Nat /\ i \in Nat
      /\ start' = start /\ n' = n /\ i' = i /\ i >= length(start, n) /\ i <= length(start, n)
      /\ DOMAIN memory = start .. Frontier - 1
      /\ \A a \in DOMAIN memory : memory[a] # Zero
  BY DEF TailBlock, TypeOK, PrefixWritten
<1>1. /\ startlen(start) \in 0 .. 3 /\ blockstart(start) = start + startlen(start)
      /\ length(start, n) \in Nat /\ residual(start, n) \in 0 .. 3
      /\ residualstart(start, n) \in Nat
      /\ residualstart(start, n) + residual(start, n) = start + n
  BY <1>0, Blocks
<1>2. Fits(start, n)'
  BY <1>0 DEF Fits, startlen, blockstart, W
<1>3. Frontier = residualstart(start, n) /\ Frontier \in Nat /\ Frontier >= start
  <2>1. Fits(start, n) /\ i = length(start, n)
    BY <1>0, <1>1
  <2> QED
    BY <1>0, <2>1, WordFits DEF Frontier
<1>4. CASE /\ Drawn(residual(start, n)) /\ Store(residualstart(start, n), residual(start, n), words')
           /\ pc' = "idle" /\ result' = "SUCCESS"
  <2>1. /\ words' \in Nat /\ (words' = words \/ words' = words + 1)
        /\ residual(start, n) > 0 => words' = words + 1
    BY <1>0, <1>1, <1>4 DEF Drawn
  <2>2. /\ DOMAIN memory' = DOMAIN memory \cup Frontier .. Frontier + residual(start, n) - 1
        /\ \A a \in DOMAIN memory' :
             memory'[a] = IF a \in Frontier .. Frontier + residual(start, n) - 1
                            THEN <<words', a - Frontier>> ELSE memory[a]
        /\ DOMAIN memory' \subseteq Nat
        /\ \A a \in DOMAIN memory' : memory'[a] \in Nat \X (0 .. W - 1)
        /\ Fresh' /\ NoByteReused'
    <3>1. /\ TypeOK /\ Fresh /\ NoByteReused
          /\ Frontier \in Nat /\ residual(start, n) \in 0 .. 4
          /\ Store(Frontier, residual(start, n), words')
      BY <1>0, <1>1, <1>3, <1>4
    <3> HIDE DEF IInv
    <3> QED
      BY <2>1, <3>1, StoreFresh
  <2>3. DOMAIN memory' = Buffer'
    <3>1. Frontier + residual(start, n) = start + n /\ residual(start, n) \in 0 .. 3
      BY <1>1, <1>3
    <3>2. start .. Frontier - 1 \cup Frontier .. Frontier + residual(start, n) - 1 = start .. start + n - 1
      BY <1>0, <1>3, <3>1
    <3> QED
      BY <1>0, <2>2, <3>2 DEF Buffer
  <2>4. \A a \in DOMAIN memory' : memory'[a] # Zero
    <3> SUFFICES ASSUME NEW a \in DOMAIN memory' PROVE memory'[a] # Zero
      OBVIOUS
    <3>1. CASE a \in Frontier .. Frontier + residual(start, n) - 1
      <4>0. residual(start, n) > 0
        BY <1>1, <1>3, <3>1
      <4>1. memory'[a] = <<words', a - Frontier>> /\ words' = words + 1
        BY <2>1, <2>2, <3>1, <4>0
      <4> QED
        BY <1>0, <4>1 DEF Zero
    <3>2. CASE a \notin Frontier .. Frontier + residual(start, n) - 1
      BY <1>0, <2>2, <3>2
    <3> QED
      BY <3>1, <3>2
  <2>5. TypeOK'
    BY <1>0, <1>4, <2>1, <2>2 DEF TypeOK, TailBlock, Result
  <2> QED
    BY <1>2, <1>4, <2>2, <2>3, <2>4, <2>5 DEF StaysInBuffer, FillsExactly, PrefixWritten, Zero
<1>5. CASE Failed /\ memory' = memory
  BY <1>0, <1>2, <1>5
  DEF Failed, TailBlock, TypeOK, Result, PrefixWritten, Fresh, StaysInBuffer, FillsExactly, NoByteReused, Buffer
<1> QED
  BY <1>4, <1>5 DEF TailBlock

LEMMA InvStep == IInv /\ [Next]_vars => IInv'
<1> SUFFICES ASSUME IInv, [Next]_vars PROVE IInv'
  OBVIOUS
<1>1. CASE rdrand_get_bytes
  BY <1>1, HeadStep, WordStep, TailStep DEF rdrand_get_bytes
<1>2. CASE \E m \in 0 .. MSG_SIZE - 1 : put_in_buffer(m)
  BY <1>2, CallersFit, EnterStep DEF put_in_buffer
<1>3. CASE \E s \in Base .. Base + MSG_SIZE : keygen(s)
  BY <1>3, CallersFit, EnterStep DEF keygen
<1>4. CASE UNCHANGED vars
  BY <1>4 DEF vars, IInv, TypeOK, Fits, startlen, blockstart, PrefixWritten, length, count, Unsigned,
              Frontier, Fresh, StaysInBuffer, FillsExactly, NoByteReused, Buffer, W
<1> QED
  BY <1>1, <1>2, <1>3, <1>4 DEF Next

\* Padding and key generation never write outside their buffers, for every
\* size of message, placement and word range (rdrand.c 478-554).
THEOREM NeverOverruns == Spec => []StaysInBuffer
<1>1. IInv => StaysInBuffer
  BY DEF IInv
<1> QED
  BY <1>1, InvInit, InvStep, PTL DEF Spec

\* A successful call has filled the buffer and nothing else with random bytes.
THEOREM FillTheorem == Spec => []FillsExactly
<1>1. IInv => FillsExactly
  BY DEF IInv
<1> QED
  BY <1>1, InvInit, InvStep, PTL DEF Spec

\* No byte of a random word is stored twice.
THEOREM FreshBytes == Spec => []NoByteReused
<1>1. IInv => NoByteReused
  BY DEF IInv
<1> QED
  BY <1>1, InvInit, InvStep, PTL DEF Spec

\* The variables of the call keep their types.
THEOREM TypeCorrect == Spec => []TypeOK
<1>1. IInv => TypeOK
  BY DEF IInv
<1> QED
  BY <1>1, InvInit, InvStep, PTL DEF Spec

-----------------------------------------------------------------------------
(* The boundary check, for every width and every place of SMRAM. *)

\* An interval that is not empty lies in SMRAM exactly if its ends do.
LEMMA IntervalInSmram ==
  ASSUME NEW a \in Int, NEW b \in Int, a <= b
  PROVE  a .. b \subseteq Smram
           <=> SMRAM_START <= a /\ b <= SMRAM_START + SMRAM_SIZE - 1
<1>1. a \in a .. b /\ b \in a .. b
  OBVIOUS
<1> QED
  BY <1>1, SmramAssumption DEF Smram

\* One call: the sum wraps only to an end below the start, because size is signed
\* and so less than half of the address space, and the test refuses that.
LEMMA CallCorrect ==
  ASSUME NEW a \in Address, NEW k \in Size
  PROVE  is_within_smram(a, k) <=> Bytes(a, k) \subseteq Smram
<1>1. CASE k > 0
  <2>1. a + k - 1 \in Int /\ a <= a + k - 1
    BY <1>1 DEF Address, Size
  <2>2. (a .. (a + k - 1)) \subseteq Smram
          <=> SMRAM_START <= a /\ a + k - 1 <= SMRAM_START + SMRAM_SIZE - 1
    <3> DEFINE b == a + k - 1
    <3>1. a \in Int /\ b \in Int /\ a <= b
      BY <2>1 DEF Address
    <3> HIDE DEF b
    <3>2. (a .. b) \subseteq Smram
            <=> SMRAM_START <= a /\ b <= SMRAM_START + SMRAM_SIZE - 1
      BY <3>1, IntervalInSmram
    <3> QED
      BY <3>2 DEF b
  <2>3. InBounds(a, Wrap(a + k - 1))
          <=> SMRAM_START <= a /\ a + k - 1 <= SMRAM_START + SMRAM_SIZE - 1
    BY <1>1, SmramAssumption DEF InBounds, Wrap, Address, Size
  <2> QED
    BY <1>1, <2>2, <2>3 DEF is_within_smram, Bytes
<1>2. CASE ~(k > 0)
  <2>1. (a .. a) \subseteq Smram
          <=> SMRAM_START <= a /\ a <= SMRAM_START + SMRAM_SIZE - 1
    BY IntervalInSmram DEF Address
  <2> QED
    BY <1>2, <2>1 DEF is_within_smram, Bytes, InBounds, Address
<1> QED
  BY <1>1, <1>2

\* For every width, every place of SMRAM and all arguments, is_within_smram accepts
\* exactly the buffers in SMRAM.
THEOREM SmramCheckCorrect == Arguments => AcceptsExactlySmram
BY CallCorrect DEF Arguments, AcceptsExactlySmram

-----------------------------------------------------------------------------
(* Random numbers below a bound. *)

\* A greater factor makes a product greater by a whole multiple at least.
LEMMA MulLess ==
  ASSUME NEW u \in Nat, NEW a \in Int, NEW b \in Int, a < b
  PROVE  u * a \in Int /\ u * b \in Int /\ u * a + u <= u * b
<1>1. u * (b - a - 1) >= 0
  OBVIOUS
<1>2. u * (b - a - 1) = u * b - u * a - u
  OBVIOUS
<1> QED
  BY <1>1, <1>2

\* Quotient and remainder.
LEMMA DivMod ==
  ASSUME NEW u \in Nat \ {0}, NEW a \in Nat
  PROVE  /\ a \div u \in Nat /\ a % u \in 0 .. u - 1 /\ u * (a \div u) \in Int
         /\ a = u * (a \div u) + (a % u)
OBVIOUS

\* They are the only ones.
LEMMA DivModUnique ==
  ASSUME NEW u \in Nat \ {0}, NEW j \in Nat, NEW v \in 0 .. u - 1
  PROVE  /\ u * j + v \in Nat
         /\ (u * j + v) % u = v
         /\ (u * j + v) \div u = j
<1> DEFINE a == u * j + v
<1>1. u * j \in Nat
  OBVIOUS
<1>2. a \in Nat
  BY <1>1
<1>3. /\ a \div u \in Nat /\ a % u \in 0 .. u - 1 /\ u * (a \div u) \in Int
      /\ a = u * (a \div u) + (a % u)
  <2> HIDE DEF a
  <2> QED
    BY <1>2, DivMod
<1>4. ASSUME a \div u < j PROVE FALSE
  <2>1. u * (a \div u) + u <= u * j
    BY <1>3, <1>4, MulLess
  <2> QED
    BY <1>1, <1>3, <2>1
<1>5. ASSUME j < a \div u PROVE FALSE
  <2>1. u * j + u <= u * (a \div u)
    BY <1>3, <1>5, MulLess
  <2> QED
    BY <1>1, <1>3, <2>1
<1>6. a \div u = j
  BY <1>3, <1>4, <1>5
<1>7. a % u = v
  BY <1>1, <1>3, <1>6
<1> QED
  BY <1>2, <1>6, <1>7

\* The words of the last incomplete round are as many as the two's complement
\* leaves: min is the remainder of the whole range.
LEMMA MinIsRemainder ==
  ASSUME upper_bound \in 2 .. Modulus - 1
  PROVE  /\ min = Modulus % upper_bound /\ Modulus \div upper_bound \in Nat \ {0}
         /\ min \in 0 .. upper_bound - 1
         /\ upper_bound * (Modulus \div upper_bound) \in Int
         /\ Modulus = upper_bound * (Modulus \div upper_bound) + min
<1> DEFINE u == upper_bound
           q == Modulus \div u
           m == Modulus % u
<1>0. u \in Nat \ {0} /\ Modulus \in Nat /\ u < Modulus
  BY MessageAssumption
<1>1. q \in Nat /\ m \in 0 .. u - 1 /\ u * q \in Int /\ Modulus = u * q + m
  BY <1>0, DivMod
<1> HIDE DEF q, m
<1>2. q # 0
  BY <1>0, <1>1
<1>3. q - 1 \in Nat /\ u * (q - 1) = u * q - u
  BY <1>0, <1>1, <1>2
<1>4. Modulus - u = u * (q - 1) + m
  BY <1>0, <1>1, <1>3
<1>5. (Modulus - u) % u = m
  <2> HIDE DEF u
  <2> QED
    BY <1>0, <1>1, <1>3, <1>4, DivModUnique
<1>6. min = m
  BY <1>5 DEF min
<1> QED
  BY <1>1, <1>2, <1>6 DEF q, m

\* The words that give v are v plus the multiples of the bound, from the first that is
\* accepted: numbered from 0 on, one for each round.
LEMMA WordsOfValue ==
  ASSUME upper_bound \in 2 .. Modulus - 1, NEW v \in 0 .. upper_bound - 1
  PROVE  Cardinality({r \in Accepted : randombytes_uniform(r) = v}) = Modulus \div upper_bound
<1> DEFINE u == upper_bound
           q == Modulus \div u
           R == {r \in Accepted : randombytes_uniform(r) = v}
           first == IF v >= min THEN 0 ELSE 1
           word(j) == u * (j + first) + v
           w == [j \in 0 .. q - 1 |-> word(j)]
<1>0. /\ u \in Nat \ {0} /\ Modulus \in Nat /\ q \in Nat \ {0} /\ min \in 0 .. u - 1
      /\ u * q \in Int /\ Modulus = u * q + min /\ first \in 0 .. 1
      /\ v \in 0 .. u - 1
  BY MinIsRemainder, MessageAssumption
<1>1. \A r : r \in R <=> r \in min .. Modulus - 1 /\ r % u = v
  BY DEF Accepted, randombytes_uniform
<1>2. (v >= min /\ first = 0) \/ (v < min /\ first = 1)
  BY <1>0
<1> HIDE DEF R, first, u, q
<1>3. ASSUME NEW j \in 0 .. q - 1 PROVE word(j) \in R
  <2>0. j + first \in Nat /\ j + first < q + first
    BY <1>0, <1>3
  <2>1. word(j) \in Nat /\ word(j) % u = v
    BY <1>0, <2>0, DivModUnique
  <2>2. u * (j + first) + u <= u * (q + first) /\ u * (j + first) \in Int
    BY <1>0, <2>0, MulLess
  <2>3. u * (q + first) = u * q + u * first /\ u * first = (IF first = 0 THEN 0 ELSE u)
    BY <1>0
  <2>4. word(j) <= Modulus - 1
    BY <1>0, <1>2, <2>2, <2>3
  <2>5. u * (j + first) >= u * first
    <3>1. u * (j + first) = u * j + u * first /\ u * j >= 0 /\ u * j \in Int
      BY <1>0
    <3> QED
      BY <1>0, <2>3, <3>1
  <2>6. word(j) >= min
    BY <1>0, <1>2, <2>2, <2>3, <2>5
  <2> HIDE DEF word
  <2> QED
    BY <1>0, <1>1, <2>1, <2>4, <2>6
<1>4. ASSUME NEW r \in R PROVE \E j \in 0 .. q - 1 : word(j) = r
  <2>1. r \in Nat /\ r >= min /\ r <= Modulus - 1 /\ r % u = v
    BY <1>0, <1>1, <1>4
  <2>2. r \div u \in Nat /\ u * (r \div u) \in Int /\ r = u * (r \div u) + v
    BY <1>0, <2>1, DivMod
  <2> DEFINE k == r \div u
  <2> HIDE DEF k
  <2>3. k \in Nat /\ u * k \in Int /\ r = u * k + v
    BY <2>2 DEF k
  <2>4. k >= first
    <3>1. CASE first = 0
      BY <2>3, <3>1
    <3>2. CASE first = 1
      <4>1. u * k > 0
        BY <1>0, <1>2, <2>1, <2>3, <3>2
      <4> QED
        BY <1>0, <2>3, <3>2, <4>1
    <3> QED
      BY <1>2, <3>1, <3>2
  <2>5. k - first < q
    <3> SUFFICES ASSUME q + first <= k PROVE FALSE
      BY <1>0, <2>3
    <3>1. u * (q + first) = u * q + u * first /\ u * first = (IF first = 0 THEN 0 ELSE u)
      BY <1>0
    <3>2. u * (q + first) <= u * k
      <4>1. CASE q + first < k
        BY <1>0, <2>3, <4>1, MulLess
      <4>2. CASE q + first = k
        BY <2>3, <4>2
      <4> QED
        BY <1>0, <2>3, <4>1, <4>2
    <3> QED
      BY <1>0, <1>2, <2>1, <2>3, <3>1, <3>2
  <2>6. k - first \in 0 .. q - 1 /\ (k - first) + first = k
    BY <1>0, <2>3, <2>4, <2>5
  <2>7. word(k - first) = r
    BY <2>3, <2>6
  <2> HIDE DEF word
  <2> QED
    BY <2>6, <2>7
<1>5. ASSUME NEW j \in 0 .. q - 1, NEW k \in 0 .. q - 1, word(j) = word(k) PROVE j = k
  <2>1. j + first \in Nat /\ k + first \in Nat
    BY <1>0
  <2>2. word(j) \div u = j + first /\ word(k) \div u = k + first
    BY <1>0, <2>1, DivModUnique
  <2> HIDE DEF word
  <2> QED
    BY <1>0, <1>5, <2>2
<1> HIDE DEF word
<1>6. w \in Bijection(0 .. q - 1, R)
  <2> DEFINE S == 0 .. q - 1
  <2>1. w \in [S -> R]
    BY <1>3
  <2>2. \A j, k \in S : w[j] = w[k] => j = k
    BY <1>5
  <2>3. \A r \in R : \E j \in S : w[j] = r
    BY <1>4
  <2> HIDE DEF w, S
  <2>4. w \in Bijection(S, R)
    BY <2>1, <2>2, <2>3 DEF Bijection, Injection, Surjection, IsInjective
  <2> QED
    BY <2>4 DEF S
<1> HIDE DEF w
<1>7. IsFiniteSet(0 .. q - 1) /\ Cardinality(0 .. q - 1) = q
  <2>1. q - 1 \in Int /\ q > 0
    BY <1>0
  <2>2. /\ IsFiniteSet(0 .. q - 1)
        /\ Cardinality(0 .. q - 1) = IF 0 > q - 1 THEN 0 ELSE q - 1 - 0 + 1
    BY <2>1, FS_Interval
  <2> QED
    BY <1>0, <2>1, <2>2
<1>8. Cardinality(R) = q
  BY <1>6, <1>7, FS_Bijection DEF ExistsBijection
<1> QED
  BY <1>8 DEF R, q, u

\* For every word size and every bound that needs a draw, randombytes_uniform returns
\* all values below the bound for the same number of accepted words.
THEOREM UniformTheorem == upper_bound \in 2 .. Modulus - 1 => NoModuloBias
BY WordsOfValue DEF NoModuloBias

-----------------------------------------------------------------------------
(* MD5. *)

\* The blocks of the message before off, or the padded message.
HashInv ==
  /\ len \in Nat /\ off \in Nat /\ off <= len
  /\ \E q \in Nat : off = BLOCK_LEN * q
  /\ hashed \in BOOLEAN
  /\ ~hashed => compressed = [j \in 1 .. off |-> MessageByte(j - 1)]
  /\ CompressesPadding

\* The bytes of the length: five bits and then eight at a time are the bytes of
\* the number of bits.
LEMMA LengthBytes ==
  ASSUME len \in Nat, NEW k \in 0 .. LENGTH_SIZE - 1
  PROVE  ((len * 8) \div Weight[k]) % 256 = LengthByte(k) /\ LengthByte(k) \in Nat
<1>0. LENGTH_SIZE \in Nat
  BY Md5Assumption
<1>1. CASE k = 0
  <2>1. Weight[k] = 1
    BY <1>1, Md5Assumption
  <2>2. ((len * 8) \div 1) % 256 = (len % 32) * 8 /\ (len % 32) * 8 \in Nat
    OBVIOUS
  <2> QED
    BY <1>1, <2>1, <2>2 DEF LengthByte
<1>2. CASE k # 0
  <2> DEFINE c == Weight[k - 1]
  <2>1. k \in 1 .. LENGTH_SIZE - 1 /\ k - 1 \in 0 .. LENGTH_SIZE - 1
    BY <1>0, <1>2
  <2>2. Weight[k] = 256 * c /\ c \in Nat \ {0}
    BY <2>1, Md5Assumption
  <2> HIDE DEF c
  <2>3. (len * 8) \div (256 * c) = len \div (32 * c) /\ (len \div (32 * c)) % 256 \in Nat
    BY <2>2
  <2> QED
    BY <1>2, <2>2, <2>3 DEF LengthByte, c
<1> QED
  BY <1>1, <1>2

\* A function on 1 .. a is a sequence.
LEMMA FcnIsSeq ==
  ASSUME NEW a \in Nat, NEW f \in [1 .. a -> Nat]
  PROVE  f \in Seq(Nat) /\ Len(f) = a
OBVIOUS

\* The bytes of two sequences of bytes after one another.
LEMMA ConcatBytes ==
  ASSUME NEW f \in Seq(Nat), NEW g \in Seq(Nat)
  PROVE  /\ f \o g \in Seq(Nat) /\ Len(f \o g) = Len(f) + Len(g)
         /\ \A k \in 1 .. Len(f) : (f \o g)[k] = f[k]
         /\ \A k \in 1 .. Len(g) : (f \o g)[Len(f) + k] = g[k]
<1>1. f \o g \in Seq(Nat) /\ Len(f \o g) = Len(f) + Len(g)
  OBVIOUS
<1>2. \A k \in 1 .. Len(f) : (f \o g)[k] = f[k]
  OBVIOUS
<1>3. ASSUME NEW k \in 1 .. Len(g) PROVE (f \o g)[Len(f) + k] = g[k]
  <2>1. /\ Len(f) + k \in 1 .. Len(f) + Len(g) /\ Len(f) + k > Len(f)
        /\ (Len(f) + k) - Len(f) = k
    OBVIOUS
  <2> QED
    BY <2>1
<1> QED
  BY <1>1, <1>2, <1>3

\* The padded message is one block longer than its whole blocks, or two if there is no
\* room for the length.
LEMMA TotalLength ==
  ASSUME HashInv, len - off < BLOCK_LEN
  PROVE  Total(len) = IF NoRoom(len - off + 1) THEN off + 2 * BLOCK_LEN ELSE off + BLOCK_LEN
<1> DEFINE B == BLOCK_LEN
           rem == len - off
<1>0. /\ B \in Nat \ {0} /\ LENGTH_SIZE \in 1 .. B - 1
      /\ len \in Nat /\ off \in Nat /\ rem \in 0 .. B - 1
  BY Md5Assumption DEF HashInv
<1>1. PICK q \in Nat : off = B * q
  BY DEF HashInv
<1>2. B * (q + 1) = off + B /\ B * (q + 2) = off + 2 * B
  BY <1>0, <1>1
<1>3. CASE NoRoom(rem + 1)
  <2>1. rem + LENGTH_SIZE - B \in 0 .. B - 1
    BY <1>0, <1>3 DEF NoRoom
  <2>2. (B * (q + 2) + (rem + LENGTH_SIZE - B)) \div B = q + 2
    <3> HIDE DEF B, rem
    <3> QED
      BY <1>0, <2>1, DivModUnique
  <2>3. B * (q + 2) + (rem + LENGTH_SIZE - B) = len + LENGTH_SIZE + B
    BY <1>0, <1>2
  <2>4. Total(len) = B * (q + 2)
    BY <2>2, <2>3 DEF Total
  <2> QED
    BY <1>2, <1>3, <2>4
<1>4. CASE ~NoRoom(rem + 1)
  <2>1. rem + LENGTH_SIZE \in 0 .. B - 1
    BY <1>0, <1>4 DEF NoRoom
  <2>2. (B * (q + 1) + (rem + LENGTH_SIZE)) \div B = q + 1
    <3> HIDE DEF B, rem
    <3> QED
      BY <1>0, <2>1, DivModUnique
  <2>3. B * (q + 1) + (rem + LENGTH_SIZE) = len + LENGTH_SIZE + B
    BY <1>0, <1>2
  <2>4. Total(len) = B * (q + 1)
    BY <2>2, <2>3 DEF Total
  <2> QED
    BY <1>2, <1>4, <2>4
<1> QED
  BY <1>3, <1>4

\* The padded message, byte by byte.
LEMMA PaddedByte ==
  ASSUME len \in Nat, Total(len) \in Nat, Total(len) - LENGTH_SIZE > len
  PROVE  /\ Padded(len) \in Seq(Nat) /\ Len(Padded(len)) = Total(len)
         /\ \A j \in 1 .. Total(len) :
              /\ j <= len => Padded(len)[j] = MessageByte(j - 1)
              /\ j = len + 1 => Padded(len)[j] = MarkByte
              /\ j > Total(len) - LENGTH_SIZE =>
                   Padded(len)[j] = LengthByte(j - 1 - (Total(len) - LENGTH_SIZE))
              /\ j > len + 1 /\ j <= Total(len) - LENGTH_SIZE => Padded(len)[j] = 0
<1> DEFINE T == Total(len)
           P == Padded(len)
<1>0. LENGTH_SIZE \in Nat \ {0} /\ T \in Nat /\ T - LENGTH_SIZE > len
  BY Md5Assumption
<1> DEFINE digit(j) == ((len * 8) \div Weight[j - 1 - (T - LENGTH_SIZE)]) % 256
<1>1. P = [j \in 1 .. T |->
             CASE j <= len -> MessageByte(j - 1)
               [] j = len + 1 -> MarkByte
               [] j > T - LENGTH_SIZE -> digit(j)
               [] OTHER -> 0]
  BY Zenon DEF Padded, digit
<1> HIDE DEF T, P, digit
<1>2. ASSUME NEW j \in 1 .. T
      PROVE  /\ P[j] \in Nat
             /\ j <= len => P[j] = MessageByte(j - 1)
             /\ j = len + 1 => P[j] = MarkByte
             /\ j > T - LENGTH_SIZE => P[j] = LengthByte(j - 1 - (T - LENGTH_SIZE))
             /\ j > len + 1 /\ j <= T - LENGTH_SIZE => P[j] = 0
  <2>1. CASE j <= len
    <3>1. P[j] = MessageByte(j - 1)
      BY <1>0, <1>1, <2>1
    <3> QED
      BY <1>0, <2>1, <3>1 DEF MessageByte
  <2>2. CASE j = len + 1
    <3>1. P[j] = MarkByte
      BY <1>0, <1>1, <2>2
    <3> QED
      BY <1>0, <2>2, <3>1 DEF MarkByte
  <2>3. CASE j > T - LENGTH_SIZE
    <3> DEFINE k == j - 1 - (T - LENGTH_SIZE)
    <3>1. k \in 0 .. LENGTH_SIZE - 1
      BY <1>0, <2>3
    <3>2. P[j] = ((len * 8) \div Weight[k]) % 256
      <4>1. P[j] = digit(j)
        BY <1>0, <1>1, <2>3
      <4> QED
        BY <4>1, Zenon DEF digit
    <3>3. P[j] = LengthByte(k) /\ P[j] \in Nat
      <4> HIDE DEF k
      <4> QED
        BY <3>1, <3>2, LengthBytes, Zenon
    <3> QED
      BY <1>0, <2>3, <3>3
  <2>4. CASE j > len + 1 /\ j <= T - LENGTH_SIZE
    <3>1. P[j] = 0
      BY <1>0, <1>1, <2>4
    <3> QED
      BY <1>0, <2>4, <3>1
  <2> QED
    BY <1>0, <2>1, <2>2, <2>3, <2>4
<1>3. P \in [1 .. T -> Nat]
  BY <1>1, <1>2
<1>4. P \in Seq(Nat) /\ Len(P) = T
  BY <1>0, <1>3, FcnIsSeq
<1> QED
  BY <1>2, <1>4 DEF P, T

\* The last block or two are what the padded message has from off on.
LEMMA LastBytes ==
  ASSUME HashInv, len - off < BLOCK_LEN
  PROVE  /\ Total(len) \in Nat /\ Total(len) >= off /\ Total(len) - LENGTH_SIZE > len
         /\ LastBlocks \in Seq(Nat) /\ Len(LastBlocks) = Total(len) - off
         /\ \A k \in 1 .. Total(len) - off : LastBlocks[k] = Padded(len)[off + k]
<1> DEFINE B == BLOCK_LEN
           L == LENGTH_SIZE
           T == Total(len)
           P == Padded(len)
           w(b) == WithLength(b)
<1>n. B \in Nat
  BY Md5Assumption
<1>0. /\ B \in Nat \ {0} /\ L \in 1 .. B - 1
      /\ len \in Nat /\ off \in Nat /\ off <= len /\ len - off < B
  BY Md5Assumption DEF HashInv
<1>1. T = IF NoRoom(len - off + 1) THEN off + 2 * B ELSE off + B
  BY TotalLength
<1>2. T \in Nat /\ T >= off /\ T - L > len
  BY <1>0, <1>1 DEF NoRoom
<1>3. /\ P \in Seq(Nat) /\ Len(P) = T
      /\ \A j \in 1 .. T :
           /\ j <= len => P[j] = MessageByte(j - 1)
           /\ j = len + 1 => P[j] = MarkByte
           /\ j > T - L => P[j] = LengthByte(j - 1 - (T - L))
           /\ j > len + 1 /\ j <= T - L => P[j] = 0
  BY <1>0, <1>2, PaddedByte
<1>4. \A j \in 1 .. T : P[j] \in Nat
  BY <1>2, <1>3, ElementOfSeq
<1> HIDE DEF P, T
<1>5. \A k \in 1 .. B : off + k \in 1 .. T
  BY <1>0, <1>1
<1>a. ASSUME NEW j \in 1 .. T, j <= len PROVE P[j] = MessageByte(j - 1)
  BY <1>3, <1>a
<1>b. ASSUME NEW j \in 1 .. T, j > T - L PROVE P[j] = LengthByte(j - 1 - (T - L))
  BY <1>3, <1>b
<1>6. ASSUME NEW k \in 1 .. B, off + k <= T - L PROVE Marked[k] = P[off + k]
  <2>1. Marked[k] = CASE k <= len - off -> MessageByte(off + k - 1)
                      [] k = len - off + 1 -> MarkByte
                      [] OTHER -> 0
    BY <1>0 DEF Marked, MessageByte
  <2>2. CASE k <= len - off
    <3>1. Marked[k] = MessageByte(off + k - 1)
      BY <1>0, <2>1, <2>2
    <3>2. off + k \in 1 .. T /\ off + k <= len /\ (off + k) - 1 = off + k - 1
      BY <1>0, <1>5, <2>2
    <3> QED
      BY <1>a, <3>1, <3>2, Zenon
  <2>3. CASE k = len - off + 1
    <3>1. Marked[k] = MarkByte
      BY <1>0, <2>1, <2>3
    <3>2. off + k \in 1 .. T /\ off + k = len + 1
      BY <1>0, <1>5, <2>3
    <3> QED
      BY <1>3, <3>1, <3>2
  <2>4. CASE k > len - off + 1
    <3>1. Marked[k] = 0
      BY <1>0, <2>1, <2>4
    <3>2. off + k \in 1 .. T /\ off + k > len + 1
      BY <1>0, <1>5, <2>4
    <3> QED
      BY <1>3, <1>6, <3>1, <3>2
  <2> QED
    BY <1>0, <2>2, <2>3, <2>4
<1>7. CASE NoRoom(len - off + 1)
  <2>0. T = off + 2 * B
    BY <1>1, <1>7
  <2>1. /\ Marked \in [1 .. B -> Nat]
        /\ \A k \in 1 .. B : Marked[k] = P[off + k]
    <3>1. \A k \in 1 .. B : Marked[k] = P[off + k]
      BY <1>0, <1>6, <2>0
    <3>2. \A k \in 1 .. B : Marked[k] \in Nat
      BY <1>4, <1>5, <3>1
    <3>3. DOMAIN Marked = 1 .. B /\ Marked = [k \in 1 .. B |-> Marked[k]]
      BY DEF Marked
    <3> QED
      BY <3>1, <3>2, <3>3
  <2>2. /\ w(Zeros) \in [1 .. B -> Nat]
        /\ \A k \in 1 .. B : w(Zeros)[k] = P[off + B + k]
    <3>1. ASSUME NEW k \in 1 .. B PROVE w(Zeros)[k] = P[off + B + k]
      <4>0. off + B + k \in 1 .. T
        BY <1>0, <2>0
      <4>1. CASE k > B - L
        <5>1. w(Zeros)[k] = LengthByte(k - 1 - (B - L))
          BY <4>1 DEF WithLength
        <5>2. off + B + k > T - L /\ (off + B + k) - 1 - (T - L) = k - 1 - (B - L)
          BY <1>0, <2>0, <4>1
        <5>3. P[off + B + k] = LengthByte((off + B + k) - 1 - (T - L))
          BY <1>b, <4>0, <5>2, Zenon
        <5> QED
          BY <5>1, <5>2, <5>3, Zenon
      <4>2. CASE k <= B - L
        <5>1. w(Zeros)[k] = 0
          BY <1>0, <4>2 DEF WithLength, Zeros
        <5>2. off + B + k <= T - L /\ off + B + k > len + 1
          BY <1>0, <2>0, <4>2
        <5> QED
          BY <1>3, <4>0, <5>1, <5>2
      <4> QED
        BY <1>0, <4>1, <4>2
    <3>2. \A k \in 1 .. B : w(Zeros)[k] \in Nat
      <4>1. \A k \in 1 .. B : off + B + k \in 1 .. T
        BY <1>0, <2>0
      <4> QED
        BY <1>4, <3>1, <4>1
    <3>3. w(Zeros) = [k \in 1 .. B |-> w(Zeros)[k]]
      BY DEF WithLength
    <3> QED
      BY <3>1, <3>2, <3>3
  <2> DEFINE s == Marked
             t == w(Zeros)
  <2>3. LastBlocks = s \o t
    BY <1>7 DEF LastBlocks
  <2> HIDE DEF s, t
  <2>4. s \in Seq(Nat) /\ Len(s) = B /\ t \in Seq(Nat) /\ Len(t) = B
    <3>1. s \in [1 .. B -> Nat] /\ t \in [1 .. B -> Nat]
      BY <2>1, <2>2, Zenon DEF s, t
    <3> HIDE DEF B
    <3> QED
      BY <1>0, <3>1, FcnIsSeq
  <2>5. /\ s \o t \in Seq(Nat) /\ Len(s \o t) = B + B
        /\ \A k \in 1 .. B : (s \o t)[k] = s[k]
        /\ \A k \in 1 .. B : (s \o t)[B + k] = t[k]
    <3>a. /\ s \o t \in Seq(Nat) /\ Len(s \o t) = Len(s) + Len(t)
          /\ \A k \in 1 .. Len(s) : (s \o t)[k] = s[k]
          /\ \A k \in 1 .. Len(t) : (s \o t)[Len(s) + k] = t[k]
      BY <2>4, ConcatBytes, Zenon
    <3> QED
      BY <2>4, <3>a, Zenon
  <2>6. ASSUME NEW k \in 1 .. B + B PROVE (s \o t)[k] = P[off + k]
    <3>1. CASE k <= B
      <4>1. k \in 1 .. B
        BY <1>0, <3>1
      <4>2. s[k] = P[off + k]
        BY <2>1, <4>1, Zenon DEF s
      <4> QED
        BY <2>5, <4>1, <4>2, Zenon
    <3>2. CASE k > B
      <4>1. k - B \in 1 .. B /\ off + B + (k - B) = off + k /\ B + (k - B) = k
        BY <1>0, <3>2
      <4>2. t[k - B] = P[off + B + (k - B)]
        BY <2>2, <4>1, Zenon DEF t
      <4>3. (s \o t)[B + (k - B)] = t[k - B]
        BY <2>5, <4>1, Zenon
      <4> QED
        BY <4>1, <4>2, <4>3, Zenon
    <3>3. k <= B \/ k > B
      BY <1>n
    <3> QED
      BY <3>1, <3>2, <3>3, Zenon
  <2>7. T - off = B + B
    BY <1>0, <2>0
  <2> QED
    BY <1>2, <2>3, <2>5, <2>6, <2>7 DEF P, T
<1>8. CASE ~NoRoom(len - off + 1)
  <2>0. T = off + B /\ T - off = B
    BY <1>0, <1>1, <1>8
  <2>1. ASSUME NEW k \in 1 .. B PROVE w(Marked)[k] = P[off + k]
    <3>1. CASE k > B - L
      <4>1. w(Marked)[k] = LengthByte(k - 1 - (B - L))
        BY <3>1 DEF WithLength
      <4>2. off + k \in 1 .. T /\ off + k > T - L /\ (off + k) - 1 - (T - L) = k - 1 - (B - L)
        BY <1>0, <2>0, <3>1
      <4>3. P[off + k] = LengthByte((off + k) - 1 - (T - L))
        BY <1>b, <4>2, Zenon
      <4> QED
        BY <4>1, <4>2, <4>3, Zenon
    <3>2. CASE k <= B - L
      <4>1. w(Marked)[k] = Marked[k]
        BY <1>0, <3>2 DEF WithLength
      <4>2. off + k <= T - L
        BY <1>0, <2>0, <3>2
      <4> QED
        BY <1>6, <4>1, <4>2
    <3> QED
      BY <1>0, <3>1, <3>2
  <2>2. \A k \in 1 .. B : w(Marked)[k] \in Nat
    BY <1>4, <1>5, <2>1
  <2>3. w(Marked) = [k \in 1 .. B |-> w(Marked)[k]]
    BY DEF WithLength
  <2>4. LastBlocks = w(Marked)
    BY <1>8 DEF LastBlocks
  <2>5. LastBlocks \in [1 .. B -> Nat]
    BY <2>2, <2>3, <2>4
  <2>6. LastBlocks \in Seq(Nat) /\ Len(LastBlocks) = B
    <3> HIDE DEF B
    <3> QED
      BY <1>0, <2>5, FcnIsSeq
  <2> QED
    BY <1>2, <2>0, <2>1, <2>4, <2>6 DEF P, T
<1> QED
  BY <1>7, <1>8

\* What was compressed before a block is the message up to off.
LEMMA Prefix ==
  ASSUME HashInv, ~hashed
  PROVE  /\ compressed \in Seq(Nat) /\ Len(compressed) = off
         /\ \A k \in 1 .. off : compressed[k] = MessageByte(k - 1)
<1>1. off \in Nat /\ compressed = [j \in 1 .. off |-> MessageByte(j - 1)]
  BY DEF HashInv
<1>2. compressed \in [1 .. off -> Nat]
  BY <1>1 DEF MessageByte
<1>3. compressed \in Seq(Nat) /\ Len(compressed) = off
  BY <1>1, <1>2, FcnIsSeq
<1> QED
  BY <1>1, <1>3

\* A round of the loop appends the next block of the message.
LEMMA BlockStep == ASSUME HashInv, CompressBlock PROVE HashInv'
<1> DEFINE B == BLOCK_LEN
           b == [k \in 1 .. B |-> MessageByte(off + k - 1)]
<1>0. /\ B \in Nat \ {0} /\ len \in Nat /\ off \in Nat /\ off + B <= len
      /\ len' = len /\ off' = off + B /\ ~hashed /\ hashed' = hashed
      /\ compressed' = compressed \o b
  BY Md5Assumption DEF HashInv, CompressBlock, md5_compress
<1>1. /\ compressed \in Seq(Nat) /\ Len(compressed) = off
      /\ \A k \in 1 .. off : compressed[k] = MessageByte(k - 1)
  BY <1>0, Prefix
<1>2. b \in Seq(Nat) /\ Len(b) = B /\ \A k \in 1 .. B : b[k] = MessageByte(off + k - 1)
  <2>1. b \in [1 .. B -> Nat]
    BY <1>0 DEF MessageByte
  <2>2. \A k \in 1 .. B : b[k] = MessageByte(off + k - 1)
    OBVIOUS
  <2> HIDE DEF B, b
  <2> QED
    BY <1>0, <2>1, <2>2, FcnIsSeq
<1> HIDE DEF b
<1>n. B \in Nat /\ off \in Nat
  BY <1>0
<1>3. /\ compressed \o b \in Seq(Nat) /\ Len(compressed \o b) = off + B
      /\ \A k \in 1 .. off : (compressed \o b)[k] = compressed[k]
      /\ \A k \in 1 .. B : (compressed \o b)[off + k] = b[k]
  <2>a. /\ compressed \o b \in Seq(Nat) /\ Len(compressed \o b) = Len(compressed) + Len(b)
        /\ \A k \in 1 .. Len(compressed) : (compressed \o b)[k] = compressed[k]
        /\ \A k \in 1 .. Len(b) : (compressed \o b)[Len(compressed) + k] = b[k]
    BY <1>1, <1>2, ConcatBytes, Zenon
  <2> QED
    BY <1>1, <1>2, <2>a, Zenon
<1>4. \A k \in 1 .. off + B : (compressed \o b)[k] = MessageByte(k - 1)
  <2> SUFFICES ASSUME NEW k \in 1 .. off + B PROVE (compressed \o b)[k] = MessageByte(k - 1)
    OBVIOUS
  <2>1. CASE k <= off
    <3>1. k \in 1 .. off
      BY <1>n, <2>1
    <3> QED
      BY <1>1, <1>3, <3>1, Zenon
  <2>2. CASE k > off
    <3>1. k - off \in 1 .. B /\ off + (k - off) = k /\ off + (k - off) - 1 = k - 1
      BY <1>n, <2>2
    <3>2. (compressed \o b)[off + (k - off)] = MessageByte(off + (k - off) - 1)
      BY <1>2, <1>3, <3>1, Zenon
    <3> QED
      BY <3>1, <3>2
  <2>3. k <= off \/ k > off
    BY <1>n
  <2> QED
    BY <2>1, <2>2, <2>3, Zenon
<1>5. compressed' = [j \in 1 .. off' |-> MessageByte(j - 1)]
  <2> DEFINE c == compressed \o b
  <2>1. DOMAIN c = 1 .. off + B /\ c = [j \in DOMAIN c |-> c[j]]
    <3>1. c \in Seq(Nat) /\ Len(c) = off + B
      BY <1>3, Zenon
    <3> HIDE DEF c
    <3> QED
      BY <3>1
  <2>2. c = [j \in 1 .. off + B |-> MessageByte(j - 1)]
    BY <1>4, <2>1
  <2> QED
    BY <1>0, <2>2, Zenon
<1>6. \E q \in Nat : off' = B * q
  <2>1. PICK q \in Nat : off = B * q
    BY DEF HashInv
  <2>2. B * (q + 1) = off + B /\ q + 1 \in Nat
    BY <1>0, <2>1
  <2> QED
    BY <1>0, <2>2
<1> QED
  BY <1>0, <1>5, <1>6 DEF HashInv, CompressesPadding

\* What follows the loop appends the rest of the padded message.
LEMMA RestStep == ASSUME HashInv, CompressRest PROVE HashInv'
<1> DEFINE T == Total(len)
           P == Padded(len)
           s == LastBlocks
<1>0. /\ len \in Nat /\ off \in Nat /\ off <= len /\ len - off < BLOCK_LEN
      /\ len' = len /\ off' = off /\ ~hashed /\ hashed' = TRUE
      /\ compressed' = compressed \o s
  BY DEF HashInv, CompressRest, md5_compress
<1>1. /\ compressed \in Seq(Nat) /\ Len(compressed) = off
      /\ \A k \in 1 .. off : compressed[k] = MessageByte(k - 1)
  BY <1>0, Prefix
<1>2. /\ T \in Nat /\ T >= off /\ T - LENGTH_SIZE > len
      /\ s \in Seq(Nat) /\ Len(s) = T - off
      /\ \A k \in 1 .. T - off : s[k] = P[off + k]
  BY <1>0, LastBytes
<1>3. /\ P \in Seq(Nat) /\ Len(P) = T
      /\ \A j \in 1 .. T : j <= len => P[j] = MessageByte(j - 1)
  BY <1>0, <1>2, PaddedByte
<1>4. T \in Nat /\ LENGTH_SIZE \in Nat
  BY <1>2, Md5Assumption
<1> HIDE DEF T, P, s
<1>n. off \in Nat /\ off <= len /\ len \in Nat
  BY <1>0
<1>m. off <= T /\ T - off \in Nat /\ off + (T - off) = T
  BY <1>n, <1>2, <1>4
<1> DEFINE c == compressed \o s
<1>5. /\ c \in Seq(Nat) /\ Len(c) = T
      /\ \A k \in 1 .. off : c[k] = compressed[k]
      /\ \A k \in 1 .. T - off : c[off + k] = s[k]
  <2>1. /\ c \in Seq(Nat) /\ Len(c) = off + (T - off)
        /\ \A k \in 1 .. off : c[k] = compressed[k]
        /\ \A k \in 1 .. T - off : c[off + k] = s[k]
    <3>1. /\ c \in Seq(Nat) /\ Len(c) = Len(compressed) + Len(s)
          /\ \A k \in 1 .. Len(compressed) : c[k] = compressed[k]
          /\ \A k \in 1 .. Len(s) : c[Len(compressed) + k] = s[k]
      BY <1>1, <1>2, ConcatBytes, Zenon
    <3> QED
      BY <1>1, <1>2, <3>1, Zenon
  <2> QED
    BY <1>m, <2>1, Zenon
<1> HIDE DEF c
<1>6. \A k \in 1 .. T : c[k] = P[k]
  <2> SUFFICES ASSUME NEW k \in 1 .. T PROVE c[k] = P[k]
    OBVIOUS
  <2>1. CASE k <= off
    <3>1. k \in 1 .. off /\ k <= len
      BY <1>n, <1>4, <2>1
    <3> QED
      BY <1>1, <1>3, <1>5, <3>1, Zenon
  <2>2. CASE k > off
    <3>1. k - off \in 1 .. T - off /\ off + (k - off) = k
      BY <1>n, <1>4, <2>2
    <3>2. c[off + (k - off)] = P[off + (k - off)]
      BY <1>2, <1>5, <3>1, Zenon
    <3> QED
      BY <3>1, <3>2, Zenon
  <2> QED
    BY <1>n, <1>4, <2>1, <2>2
<1>7. compressed' = P
  <2>1. c = P
    BY <1>3, <1>5, <1>6, SeqEqual
  <2> QED
    BY <1>0, <2>1, Zenon DEF c
<1>8. P = Padded(len)' 
  BY <1>0 DEF P, Padded, Total
<1> QED
  BY <1>0, <1>7, <1>8 DEF HashInv, CompressesPadding

\* md5_hash compresses the padded message and nothing else (md5.c 125-153), for every
\* length of the message and every size of a block that holds mark and length.
THEOREM PaddingTheorem == HashSpec => []CompressesPadding
<1>1. HashInit => HashInv
  <2> SUFFICES ASSUME HashInit PROVE HashInv
    OBVIOUS
  <2>1. off = BLOCK_LEN * 0
    BY Md5Assumption DEF HashInit
  <2>2. compressed = [j \in 1 .. off |-> MessageByte(j - 1)]
    BY DEF HashInit
  <2>3. hashed \in BOOLEAN /\ ~hashed
    BY Zenon DEF HashInit
  <2> QED
    BY <2>1, <2>2, <2>3 DEF HashInit, HashInv, CompressesPadding
<1>2. HashInv /\ [md5_hash]_hashVars => HashInv'
  <2> SUFFICES ASSUME HashInv, [md5_hash]_hashVars PROVE HashInv'
    OBVIOUS
  <2>1. CASE CompressBlock
    BY <2>1, BlockStep
  <2>2. CASE CompressRest
    BY <2>2, RestStep
  <2>3. CASE UNCHANGED hashVars
    BY <2>3 DEF hashVars, HashInv, CompressesPadding, Padded, Total
  <2> QED
    BY <2>1, <2>2, <2>3 DEF md5_hash
<1>3. HashInv => CompressesPadding
  BY DEF HashInv
<1> QED
  BY <1>1, <1>2, <1>3, PTL DEF HashSpec
=============================================================================
