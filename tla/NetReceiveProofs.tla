--------------------------- MODULE NetReceiveProofs ---------------------------
(***************************************************************************)
(* Proofs about NetReceive for every number of frames, descriptors and IN  *)
(* entries.                                                                *)
(*                                                                         *)
(* OnePlace counts places; the inductive invariant PlaceInv says the same  *)
(* without counting: no two places hold one frame, and one that two sides  *)
(* got was taken by the OS when the scan met it.  The scan of the          *)
(* receive ring pairs descriptors and free entries by their rank, so the   *)
(* proofs rest on what ranks are: a numbering of a finite set of numbers   *)
(* from 0 on (RankBelow, RankInjective, RankOnto).                         *)
(*                                                                         *)
(* OsWillLook needs two more facts: the descriptors that wait for the OS   *)
(* are contiguous (WindowInv), and an unacknowledged interrupt is always   *)
(* on its way (SignalInv).                                                 *)
(***************************************************************************)
EXTENDS NetReceive, FiniteSetTheorems, TLAPS

\* No two places hold one frame.
RingsDistinct ==
  /\ \A d, c \in Rx : rx_ring[d] \in Frame /\ rx_ring[d] = rx_ring[c] => d = c
  /\ \A e, c \in Entry : in_ring[e] \in Frame /\ in_ring[e] = in_ring[c] => e = c
  /\ \A d \in Rx, e \in Entry : rx_ring[d] \in Frame => in_ring[e] # rx_ring[d]

\* How often the OS has got a frame that the scan took.
Shared(f) == IF f \in both THEN 1 ELSE 0

\* A frame in a descriptor was given to nobody, except to the OS if it holds the descriptor.
ReceivedInv ==
  \A d \in Rx : rx_ring[d] \in Frame =>
    /\ sgx_got[rx_ring[d]] = 0 /\ rx_ring[d] \notin dropped /\ rx_ring[d] \notin both
    /\ os_got[rx_ring[d]] = IF OsHas(d) THEN 1 ELSE 0

\* A frame in the IN ring was given to nobody, except to the OS if it shared it.
QueuedInv ==
  \A e \in Entry : in_ring[e] \in Frame =>
    /\ sgx_got[in_ring[e]] = 0 /\ in_ring[e] \notin dropped
    /\ os_got[in_ring[e]] = Shared(in_ring[e])

\* Nobody gets a frame twice, and who has got one has it alone unless it was shared.
GotInv ==
  /\ \A f \in Frame : os_got[f] \in {0, 1} /\ sgx_got[f] \in {0, 1}
  /\ \A f \in Frame : sgx_got[f] = 1 => f \notin dropped /\ os_got[f] = Shared(f)
  /\ \A f \in dropped : os_got[f] = Shared(f)
  /\ \A f \in both : (\E e \in Entry : in_ring[e] = f) \/ sgx_got[f] = 1 \/ f \in dropped

\* Before the first SMI the IN ring is empty, and the OS holds no descriptor of the NIC.
HeldInv ==
  /\ isFirstPhrase => \A e \in Entry : in_ring[e] = None
  /\ os_pc = "rearm" => rx_ring[os_next] # Nic

PlaceInv == RingsDistinct /\ ReceivedInv /\ QueuedInv /\ GotInv /\ HeldInv

places == <<rx_ring, in_ring, os_got, sgx_got, dropped, both>>

-----------------------------------------------------------------------------
(* Ranks. *)

\* The numbers of S below one of its members are fewer than S.
LEMMA RankBelow ==
  ASSUME NEW S \in SUBSET Nat, IsFiniteSet(S), NEW x \in S
  PROVE  Rank(S, x) \in 0 .. Cardinality(S) - 1
<1> DEFINE B == {y \in S : y < x}
<1>1. IsFiniteSet(S \ {x}) /\ Cardinality(S \ {x}) = Cardinality(S) - 1
  BY FS_RemoveElement
<1>2. B \in SUBSET (S \ {x})
  OBVIOUS
<1>3. IsFiniteSet(B) /\ Cardinality(B) <= Cardinality(S) - 1
  BY <1>1, <1>2, FS_Subset
<1>4. Cardinality(B) \in Nat /\ Cardinality(S) \in Nat
  BY <1>3, FS_CardinalityType
<1> QED
  BY <1>3, <1>4 DEF Rank

\* A smaller member has a smaller rank.
LEMMA RankLess ==
  ASSUME NEW S \in SUBSET Nat, IsFiniteSet(S), NEW x \in S, NEW z \in S, x < z
  PROVE  Rank(S, x) < Rank(S, z)
<1> DEFINE B == {y \in S : y < z}
<1>1. B \in SUBSET Nat /\ IsFiniteSet(B) /\ x \in B
  BY FS_Subset
<1>2. {y \in B : y < x} = {y \in S : y < x}
  <2>1. \A y \in S : y < x => y < z
    OBVIOUS
  <2> QED
    BY <2>1, Zenon
<1>3. Rank(B, x) = Rank(S, x)
  BY <1>2 DEF Rank
<1>4. Rank(B, x) \in 0 .. Cardinality(B) - 1
  <2> HIDE DEF B
  <2> QED
    BY <1>1, RankBelow
<1>5. Cardinality(B) \in Nat
  BY <1>1, FS_CardinalityType
<1>6. Cardinality(B) = Rank(S, z)
  BY DEF Rank
<1> HIDE DEF B
<1> QED
  BY <1>3, <1>4, <1>5, <1>6

\* No two members have one rank.
LEMMA RankInjective ==
  ASSUME NEW S \in SUBSET Nat, IsFiniteSet(S), NEW x \in S, NEW z \in S, Rank(S, x) = Rank(S, z)
  PROVE  x = z
<1>1. Rank(S, x) \in Int
  BY RankBelow
<1>2. CASE x < z
  BY <1>1, <1>2, RankLess
<1>3. CASE z < x
  BY <1>1, <1>3, RankLess
<1> QED
  BY <1>2, <1>3

\* Every number below the size of S is the rank of a member.
LEMMA RankOnto ==
  ASSUME NEW S \in SUBSET Nat, IsFiniteSet(S), NEW k \in 0 .. Cardinality(S) - 1
  PROVE  \E x \in S : Rank(S, x) = k
<1> DEFINE T == 0 .. Cardinality(S) - 1
           r == [x \in S |-> Rank(S, x)]
<1>0. Cardinality(S) \in Nat
  BY FS_CardinalityType
<1>1. IsFiniteSet(T) /\ Cardinality(T) = Cardinality(S)
  <2>1. 0 \in Int /\ Cardinality(S) - 1 \in Int
    BY <1>0
  <2>2. IsFiniteSet(T) /\ Cardinality(T) = IF 0 > Cardinality(S) - 1 THEN 0 ELSE Cardinality(S) - 1 - 0 + 1
    BY <2>1, FS_Interval
  <2> HIDE DEF T
  <2> QED
    BY <1>0, <2>2
<1>2. r \in Injection(S, T)
  <2>1. r \in [S -> T]
    BY RankBelow
  <2>2. \A x, z \in S : r[x] = r[z] => x = z
    BY RankInjective
  <2> HIDE DEF r, T
  <2> QED
    BY <2>1, <2>2 DEF Injection, IsInjective
<1>3. r \in Surjection(S, T)
  <2> HIDE DEF r, T
  <2> QED
    BY <1>1, <1>2, FS_Injection
<1>4. \E x \in S : r[x] = k
  <2> HIDE DEF r
  <2> QED
    BY <1>3 DEF Surjection
<1> QED
  BY <1>4

-----------------------------------------------------------------------------
(* The scan of the receive ring. *)

\* The free entries that get a frame, the descriptor each gets it from, and the
\* descriptors whose frames get none, or were taken by the OS before.
Filled == {e \in Free : \E d \in Hits : Rank(Hits, d) = Rank(Free, e)}
Taken(e) == CHOOSE d \in Hits : Rank(Hits, d) = Rank(Free, e)
Overflow == {h \in Hits : Rank(Hits, h) >= Cardinality(Free)}
HeldHits == {h \in Hits : OsHas(h)}

\* Descriptors and entries are finite sets of numbers.
LEMMA RingsFinite ==
  /\ Free \in SUBSET Nat /\ IsFiniteSet(Free) /\ Cardinality(Free) \in Nat
  /\ Hits \in SUBSET Nat /\ IsFiniteSet(Hits) /\ Cardinality(Hits) \in Nat
<1>1. IsFiniteSet(Entry) /\ IsFiniteSet(Rx)
  BY RingAssumption, FS_Interval DEF Entry, Rx
<1>2. Free \in SUBSET Entry /\ Hits \in SUBSET Rx
  BY DEF Free, Hits
<1>3. IsFiniteSet(Free) /\ IsFiniteSet(Hits)
  BY <1>1, <1>2, FS_Subset
<1>4. Entry \subseteq Nat /\ Rx \subseteq Nat
  BY RingAssumption DEF Entry, Rx
<1> QED
  BY <1>2, <1>3, <1>4, FS_CardinalityType

\* Each marked frame goes to an entry of its own or overflows, and it overflows only if
\* every free entry gets a frame.
LEMMA Dispatch ==
  /\ \A e \in Filled : Taken(e) \in Hits /\ e \in Free
  /\ \A e, c \in Filled : Taken(e) = Taken(c) => e = c
  /\ \A e \in Filled : Taken(e) \notin Overflow
  /\ \A d \in Hits \ Overflow : \E e \in Filled : Taken(e) = d
  /\ Overflow # {} => Filled = Free
<1>1. \A e \in Filled : Taken(e) \in Hits /\ e \in Free /\ Rank(Hits, Taken(e)) = Rank(Free, e)
  BY DEF Filled, Taken
<1>2. \A e, c \in Filled : Taken(e) = Taken(c) => e = c
  BY <1>1, RingsFinite, RankInjective
<1>3. ASSUME NEW e \in Filled, Taken(e) \in Overflow PROVE FALSE
  <2>1. Rank(Free, e) \in 0 .. Cardinality(Free) - 1
    BY <1>1, RingsFinite, RankBelow
  <2>2. Rank(Free, e) >= Cardinality(Free)
    BY <1>1, <1>3 DEF Overflow
  <2> QED
    BY <2>1, <2>2, RingsFinite
<1>4. ASSUME NEW d \in Hits, d \notin Overflow PROVE \E e \in Filled : Taken(e) = d
  <2>1. Rank(Hits, d) \in 0 .. Cardinality(Hits) - 1
    BY RingsFinite, RankBelow
  <2>2. Rank(Hits, d) \in 0 .. Cardinality(Free) - 1
    BY <1>4, <2>1, RingsFinite DEF Overflow
  <2>3. PICK e \in Free : Rank(Free, e) = Rank(Hits, d)
    BY <2>2, RingsFinite, RankOnto
  <2>4. e \in Filled
    BY <2>3 DEF Filled
  <2>5. Taken(e) = d
    <3>1. Taken(e) \in Hits /\ Rank(Hits, Taken(e)) = Rank(Hits, d)
      BY <1>1, <2>3, <2>4
    <3> QED
      BY <3>1, RingsFinite, RankInjective
  <2> QED
    BY <2>4, <2>5
<1>5. ASSUME NEW h \in Overflow, NEW e \in Free PROVE e \in Filled
  <2>1. h \in Hits /\ Rank(Hits, h) >= Cardinality(Free)
    BY <1>5 DEF Overflow
  <2>2. Rank(Hits, h) \in 0 .. Cardinality(Hits) - 1 /\ Rank(Free, e) \in 0 .. Cardinality(Free) - 1
    BY <2>1, RingsFinite, RankBelow
  <2>3. Rank(Free, e) \in 0 .. Cardinality(Hits) - 1
    BY <2>1, <2>2, RingsFinite
  <2>4. \E d \in Hits : Rank(Hits, d) = Rank(Free, e)
    BY <2>3, RingsFinite, RankOnto
  <2> QED
    BY <2>4 DEF Filled
<1>6. Overflow # {} => Filled = Free
  BY <1>5 DEF Filled
<1> QED
  BY <1>1, <1>2, <1>3, <1>4, <1>6

\* What one scan does to the two rings.
LEMMA ScanStep ==
  ASSUME TypeOK, process_rx_packets
  PROVE  /\ \A d \in Hits : d \in Rx /\ rx_ring[d] \in EnclaveFrame /\ rx_ring'[d] = Cleared
         /\ \A d \in Rx : d \notin Hits => rx_ring'[d] = rx_ring[d]
         /\ \A e \in Filled : e \in Entry /\ in_ring[e] = None /\ in_ring'[e] = rx_ring[Taken(e)]
         /\ \A e \in Entry : e \notin Filled => in_ring'[e] = in_ring[e]
         /\ dropped' = dropped \cup {rx_ring[d] : d \in Overflow}
         /\ both' = both \cup {rx_ring[d] : d \in HeldHits}
         /\ rx_ring' \in [Rx -> Frame \cup {Nic, Cleared}]
         /\ in_ring' \in [Entry -> EnclaveFrame \cup {None}]
         /\ dropped' \subseteq EnclaveFrame /\ both' \subseteq EnclaveFrame
<1>1. rx_ring' = [d \in Rx |-> IF d \in Hits THEN Cleared ELSE rx_ring[d]]
  BY DEF process_rx_packets, ClearDescriptors
<1>2. in_ring' = [e \in Entry |-> IF e \in Filled THEN rx_ring[Taken(e)] ELSE in_ring[e]]
  <2>1. \A e : (e \in Filled) <=> (e \in Free /\ \E d \in Hits : Rank(Hits, d) = Rank(Free, e))
    BY Zenon DEF Filled
  <2> QED
    BY <2>1, Zenon DEF process_rx_packets, Taken
<1>3. dropped' = dropped \cup {rx_ring[d] : d \in Overflow}
  BY Zenon DEF process_rx_packets, Overflow
<1>4. \A d \in Hits : d \in Rx /\ rx_ring[d] \in EnclaveFrame
  BY DEF Hits
<1>5. \A e \in Filled : e \in Entry /\ in_ring[e] = None /\ Taken(e) \in Hits
  BY Dispatch DEF Free
<1>6. \A d \in Overflow : d \in Hits
  BY DEF Overflow
<1>11. both' = both \cup {rx_ring[d] : d \in HeldHits}
  BY Zenon DEF process_rx_packets, HeldHits
<1>12. \A d \in HeldHits : d \in Hits
  BY DEF HeldHits
<1> HIDE DEF Taken, Filled, Overflow, Hits, HeldHits
<1>7. rx_ring' \in [Rx -> Frame \cup {Nic, Cleared}]
  BY <1>1 DEF TypeOK
<1>8. in_ring' \in [Entry -> EnclaveFrame \cup {None}]
  BY <1>2, <1>4, <1>5 DEF TypeOK
<1>9. dropped' \subseteq EnclaveFrame
  BY <1>3, <1>4, <1>6 DEF TypeOK
<1>10. both' \subseteq EnclaveFrame
  BY <1>4, <1>11, <1>12 DEF TypeOK
<1> QED
  BY <1>1, <1>2, <1>3, <1>4, <1>5, <1>11, <1>7, <1>8, <1>9, <1>10

\* The scan puts no frame in two places, loses none without counting it, and drops frames
\* only into a full ring.
LEMMA ScanKeeps ==
  ASSUME TypeOK, PlaceInv, process_rx_packets, UNCHANGED <<os_got, sgx_got, os_pc, os_next>>, ~isFirstPhrase'
  PROVE  /\ PlaceInv'
         /\ \A f \in Frame : Arrived(f) => Arrived(f)'
         /\ dropped' # dropped => \A e \in Entry : in_ring'[e] # None
<1>1. /\ \A d \in Hits : d \in Rx /\ rx_ring[d] \in Frame /\ rx_ring'[d] = Cleared
      /\ \A d \in Rx : d \notin Hits => rx_ring'[d] = rx_ring[d]
      /\ \A e \in Filled : e \in Entry /\ in_ring[e] = None /\ in_ring'[e] = rx_ring[Taken(e)]
      /\ \A e \in Entry : e \notin Filled => in_ring'[e] = in_ring[e]
      /\ dropped' = dropped \cup {rx_ring[d] : d \in Overflow}
      /\ both' = both \cup {rx_ring[d] : d \in HeldHits}
      /\ dropped \subseteq Frame /\ both \subseteq Frame
  BY ScanStep DEF Frame, TypeOK
<1>2. /\ \A e \in Filled : Taken(e) \in Hits /\ e \in Free
      /\ \A e, c \in Filled : Taken(e) = Taken(c) => e = c
      /\ \A e \in Filled : Taken(e) \notin Overflow
      /\ \A d \in Hits \ Overflow : \E e \in Filled : Taken(e) = d
      /\ Overflow # {} => Filled = Free
      /\ Overflow \subseteq Hits
      /\ \A d : d \in HeldHits <=> d \in Hits /\ OsHas(d)
  BY Dispatch DEF Overflow, HeldHits
<1>3. Cleared \notin Frame /\ None \notin Frame /\ Cleared # Nic
  BY FrameAssumption
<1>4. \A e \in Entry : in_ring[e] = None <=> e \in Free
  BY DEF Free
<1>40. \A d : OsHas(d)' <=> OsHas(d)
  BY DEF OsHas
<1> HIDE DEF Taken, Filled, Overflow, Hits, Free, Frame, HeldHits, OsHas
<1>5. \A d \in Rx : rx_ring'[d] \in Frame => d \notin Hits /\ rx_ring'[d] = rx_ring[d]
  BY <1>1, <1>3
<1>6. \A e \in Entry : in_ring'[e] \in Frame =>
        \/ e \in Filled /\ Taken(e) \in Rx /\ Taken(e) \in Hits /\ in_ring'[e] = rx_ring[Taken(e)]
        \/ e \notin Filled /\ in_ring'[e] = in_ring[e]
  BY <1>1, <1>2
\* What the scan does to the history of a frame in a descriptor, and of one in none.
<1>41. \A d \in Hits : rx_ring[d] \in both' <=> OsHas(d)
  <2>1. \A d \in Hits : d \in Rx /\ rx_ring[d] \in Frame /\ rx_ring[d] \notin both
    BY <1>1 DEF PlaceInv, ReceivedInv
  <2>2. \A d \in Hits, h \in Hits : rx_ring[d] = rx_ring[h] => d = h
    BY <1>1 DEF PlaceInv, RingsDistinct
  <2> QED
    BY <1>1, <1>2, <2>1, <2>2
<1>42. \A f \in Frame : (\A d \in Hits : rx_ring[d] # f) => (f \in both' <=> f \in both) /\ (f \in dropped' <=> f \in dropped)
  BY <1>1, <1>2
<1>43. \A d \in Hits : sgx_got[rx_ring[d]] = 0 /\ os_got[rx_ring[d]] = IF OsHas(d) THEN 1 ELSE 0
  BY <1>1 DEF PlaceInv, ReceivedInv
<1>44. \A d \in Hits : rx_ring[d] \in dropped' <=> d \in Overflow
  <2>1. \A d \in Hits : rx_ring[d] \notin dropped
    BY <1>1 DEF PlaceInv, ReceivedInv
  <2>2. \A d \in Hits, h \in Hits : rx_ring[d] = rx_ring[h] => d = h
    BY <1>1 DEF PlaceInv, RingsDistinct
  <2> QED
    BY <1>1, <1>2, <2>1, <2>2
<1>7. PlaceInv'
  <2>1. RingsDistinct'
    <3>1. \A d, c \in Rx : rx_ring'[d] \in Frame /\ rx_ring'[d] = rx_ring'[c] => d = c
      BY <1>5 DEF PlaceInv, RingsDistinct
    <3>2. \A e, c \in Entry : in_ring'[e] \in Frame /\ in_ring'[e] = in_ring'[c] => e = c
      BY <1>1, <1>2, <1>6 DEF PlaceInv, RingsDistinct
    <3>3. \A d \in Rx, e \in Entry : rx_ring'[d] \in Frame => in_ring'[e] # rx_ring'[d]
      BY <1>5, <1>6 DEF PlaceInv, RingsDistinct
    <3> QED
      BY <3>1, <3>2, <3>3 DEF RingsDistinct, Frame
  <2>2. ReceivedInv'
    <3> SUFFICES ASSUME NEW d \in Rx, rx_ring'[d] \in Frame
                 PROVE  /\ sgx_got[rx_ring[d]] = 0 /\ rx_ring[d] \notin dropped' /\ rx_ring[d] \notin both'
                        /\ os_got[rx_ring[d]] = IF OsHas(d) THEN 1 ELSE 0
      BY <1>5, <1>40 DEF ReceivedInv, Frame
    <3>1. d \notin Hits /\ rx_ring[d] \in Frame /\ \A h \in Hits : rx_ring[h] # rx_ring[d]
      BY <1>1, <1>5 DEF PlaceInv, RingsDistinct
    <3>2. rx_ring[d] \notin dropped' /\ rx_ring[d] \notin both'
      BY <1>42, <3>1 DEF PlaceInv, ReceivedInv
    <3> QED
      BY <3>1, <3>2 DEF PlaceInv, ReceivedInv
  <2>3. QueuedInv'
    <3> SUFFICES ASSUME NEW e \in Entry, in_ring'[e] \in Frame
                 PROVE  /\ sgx_got[in_ring'[e]] = 0 /\ in_ring'[e] \notin dropped'
                        /\ os_got[in_ring'[e]] = IF in_ring'[e] \in both' THEN 1 ELSE 0
      BY DEF QueuedInv, Shared, Frame
    <3>1. CASE e \in Filled
      <4>1. Taken(e) \in Hits /\ Taken(e) \notin Overflow /\ in_ring'[e] = rx_ring[Taken(e)]
        BY <1>2, <1>6, <3>1
      <4> QED
        BY <1>41, <1>43, <1>44, <4>1
    <3>2. CASE e \notin Filled
      <4>1. in_ring'[e] = in_ring[e] /\ in_ring[e] \in Frame
        BY <1>6, <3>2
      <4>2. \A d \in Hits : rx_ring[d] # in_ring[e]
        BY <1>1, <4>1 DEF PlaceInv, RingsDistinct
      <4> QED
        BY <1>42, <4>1, <4>2 DEF PlaceInv, QueuedInv, Shared
    <3> QED
      BY <3>1, <3>2
  <2>4. GotInv'
    <3>1. ASSUME NEW f \in Frame, sgx_got[f] = 1
          PROVE  f \notin dropped' /\ os_got[f] = IF f \in both' THEN 1 ELSE 0
      <4>1. \A d \in Hits : rx_ring[d] # f
        BY <1>43, <3>1
      <4> QED
        BY <1>42, <3>1, <4>1 DEF PlaceInv, GotInv, Shared
    <3>2. ASSUME NEW f \in dropped' PROVE os_got[f] = IF f \in both' THEN 1 ELSE 0
      <4>1. CASE \E d \in Hits : rx_ring[d] = f
        BY <1>41, <1>43, <4>1
      <4>2. CASE \A d \in Hits : rx_ring[d] # f
        <5>1. f \in dropped /\ f \in Frame
          BY <1>1, <1>2, <3>2, <4>2
        <5> QED
          BY <1>42, <4>2, <5>1 DEF PlaceInv, GotInv, Shared
      <4> QED
        BY <4>1, <4>2
    <3>3. ASSUME NEW f \in both'
          PROVE  (\E e \in Entry : in_ring'[e] = f) \/ sgx_got[f] = 1 \/ f \in dropped'
      <4>1. CASE \E d \in Hits : rx_ring[d] = f
        BY <1>1, <1>2, <1>44, <4>1
      <4>2. CASE \A d \in Hits : rx_ring[d] # f
        <5>1. f \in both /\ f \in Frame
          BY <1>1, <1>2, <3>3, <4>2
        <5>2. CASE \E e \in Entry : in_ring[e] = f
          BY <1>1, <1>3, <5>1, <5>2
        <5>3. CASE sgx_got[f] = 1 \/ f \in dropped
          BY <1>1, <5>3
        <5> QED
          BY <5>1, <5>2, <5>3 DEF PlaceInv, GotInv
      <4> QED
        BY <4>1, <4>2
    <3>4. \A f \in Frame : os_got[f] \in {0, 1} /\ sgx_got[f] \in {0, 1}
      BY DEF PlaceInv, GotInv
    <3> QED
      BY <3>1, <3>2, <3>3, <3>4 DEF GotInv, Shared, Frame
  <2>5. HeldInv'
    <3>1. os_next \in Rx
      BY DEF TypeOK
    <3> QED
      BY <1>1, <1>3, <3>1 DEF PlaceInv, HeldInv
  <2> QED
    BY <2>1, <2>2, <2>3, <2>4, <2>5 DEF PlaceInv
<1>8. ASSUME NEW f \in Frame, Arrived(f) PROVE Arrived(f)'
  <2>1. CASE \E d \in Rx : rx_ring[d] = f
    <3>1. PICK d \in Rx : rx_ring[d] = f
      BY <2>1
    <3>2. CASE d \notin Hits
      BY <1>1, <3>1, <3>2 DEF Arrived
    <3>3. CASE d \in Overflow
      BY <1>1, <3>1, <3>3 DEF Arrived
    <3>4. CASE d \in Hits \ Overflow
      BY <1>1, <1>2, <3>1, <3>4 DEF Arrived
    <3> QED
      BY <3>2, <3>3, <3>4
  <2>2. CASE \E e \in Entry : in_ring[e] = f
    BY <1>1, <1>3, <2>2 DEF Arrived
  <2>3. CASE f \in dropped \/ os_got[f] + sgx_got[f] > 0
    BY <1>1, <2>3 DEF Arrived
  <2> QED
    BY <1>8, <2>1, <2>2, <2>3 DEF Arrived
<1>9. ASSUME dropped' # dropped, NEW e \in Entry PROVE in_ring'[e] # None
  <2>1. Filled = Free
    BY <1>1, <1>2, <1>9
  <2> QED
    BY <1>1, <1>2, <1>3, <1>4, <1>9, <2>1
<1> QED
  BY <1>7, <1>8, <1>9
-----------------------------------------------------------------------------
(* Types. *)

\* The type invariant in two parts, one for each prover: the flags and the values.
FlagsOK ==
  /\ rxint \in BOOLEAN /\ txint \in BOOLEAN
  /\ smi \in BOOLEAN /\ nic_irq \in BOOLEAN /\ ipi \in BOOLEAN /\ event \in BOOLEAN
  /\ isFirstPhrase \in BOOLEAN

ValuesOK ==
  /\ rx_ring \in [Rx -> Frame \cup {Nic, Cleared}]
  /\ nic_next \in Rx /\ os_next \in Rx /\ tx \in 0 .. MaxTx
  /\ route \in {"OS", "SMI"} /\ os_pc \in {"idle", "drain", "rearm"}
  /\ in_ring \in [Entry -> EnclaveFrame \cup {None}]
  /\ out_free \in 0 .. MaxEntry
  /\ pc \in {"output", "poll", "get"}
  /\ os_got \in [Frame -> Nat] /\ sgx_got \in [Frame -> Nat]
  /\ dropped \subseteq EnclaveFrame /\ both \subseteq EnclaveFrame

LEMMA TypeParts == TypeOK <=> FlagsOK /\ ValuesOK
BY DEF TypeOK, FlagsOK, ValuesOK

\* The indices of the two drivers stay in the ring.
LEMMA RingIndex == \A k \in Rx : (k + 1) % RxRingSize \in Rx
BY RingAssumption DEF Rx

LEMMA TypeInit == Init => TypeOK
<1> SUFFICES ASSUME Init PROVE TypeOK
  OBVIOUS
<1>1. FlagsOK
  BY Zenon DEF Init, FlagsOK
<1>2. 0 \in Rx /\ 0 \in 0 .. MaxTx /\ 0 \in 0 .. MaxEntry
  BY RingAssumption, MaxTxAssumption DEF Rx
<1>3. ValuesOK
  BY <1>2 DEF Init, ValuesOK
<1> QED
  BY <1>1, <1>3, TypeParts

LEMMA FlagsStep == FlagsOK /\ [Next]_vars => FlagsOK'
<1> SUFFICES ASSUME FlagsOK, [Next]_vars PROVE FlagsOK'
  OBVIOUS
<1> USE DEF FlagsOK
<1>1. ASSUME NEW f \in Frame, NicReceive(f) PROVE FlagsOK'
  BY <1>1, Zenon DEF NicReceive, Raise, smm
<1>2. CASE NicTransmit
  BY <1>2, Zenon DEF NicTransmit, Raise, smm
<1>3. CASE OsIsr
  BY <1>3, Zenon DEF OsIsr, smm
<1>4. CASE OsTake \/ OsRearm
  BY <1>4, Zenon DEF OsTake, OsRearm, nic, smm
<1>5. CASE supervisor
  <2>1. CASE FirstPhrase
    BY <1>5, <2>1, Zenon DEF supervisor, FirstPhrase
  <2>2. CASE NicPhrase
    <3>1. ipi' \in BOOLEAN
      BY <2>2, Zenon DEF NicPhrase, process_rx_packets
    <3> QED
      BY <1>5, <2>2, <3>1, Zenon DEF supervisor, NicPhrase, Forward
  <2> QED
    BY <1>5, <2>1, <2>2, Zenon DEF supervisor
<1>6. CASE irq_handler
  BY <1>6, Zenon DEF irq_handler, uio_event_notify, smm, nic
<1>7. CASE low_level_output
  BY <1>7, Zenon DEF low_level_output, smm, nic
<1>8. CASE uio_poll \/ uio_poll_error
  BY <1>8, Zenon DEF uio_poll, uio_poll_error, smm, nic
<1>9. CASE waiting_fn_get
  BY <1>9, Zenon DEF waiting_fn_get, smm, nic
<1>10. CASE UNCHANGED vars
  BY <1>10, Zenon DEF vars, smm, nic
<1> QED
  BY <1>1, <1>2, <1>3, <1>4, <1>5, <1>6, <1>7, <1>8, <1>9, <1>10 DEF Next

LEMMA ValuesStep == TypeOK /\ [Next]_vars => ValuesOK'
<1> SUFFICES ASSUME TypeOK, [Next]_vars PROVE ValuesOK'
  OBVIOUS
<1>0. ValuesOK
  BY TypeParts
<1> USE DEF ValuesOK
<1>1. ASSUME NEW f \in Frame, NicReceive(f) PROVE ValuesOK'
  BY <1>0, <1>1, RingIndex DEF NicReceive, os, smm, shm, client
<1>2. CASE NicTransmit
  BY <1>0, <1>2, MaxTxAssumption DEF NicTransmit, os, smm, shm, client
<1>3. CASE OsIsr
  BY <1>0, <1>3 DEF OsIsr, smm, shm, client
<1>4. CASE OsTake
  BY <1>0, <1>4 DEF OsTake, nic, smm, shm, client
<1>11. CASE OsRearm
  BY <1>0, <1>11, RingIndex DEF OsRearm, smm, shm, client
<1>5. CASE supervisor
  <2>1. CASE FirstPhrase
    BY <1>0, <1>5, <2>1, RingAssumption DEF supervisor, FirstPhrase, os, client
  <2>2. CASE NicPhrase
    <3>1. /\ rx_ring' \in [Rx -> Frame \cup {Nic, Cleared}]
          /\ in_ring' \in [Entry -> EnclaveFrame \cup {None}]
          /\ dropped' \subseteq EnclaveFrame /\ both' \subseteq EnclaveFrame
      <4>1. CASE rxint
        BY <2>2, <4>1, ScanStep DEF NicPhrase
      <4>2. CASE ~rxint
        BY <1>0, <2>2, <4>2 DEF NicPhrase
      <4> QED
        BY <4>1, <4>2
    <3> QED
      BY <1>0, <1>5, <2>2, <3>1 DEF supervisor, NicPhrase, os, client
  <2> QED
    BY <1>5, <2>1, <2>2 DEF supervisor
<1>6. CASE irq_handler
  BY <1>0, <1>6 DEF irq_handler, nic, os, smm, shm, client
<1>7. CASE low_level_output
  BY <1>0, <1>7, RingAssumption DEF low_level_output, put_out_buffer, nic, os, smm
<1>8. CASE uio_poll \/ uio_poll_error
  BY <1>0, <1>8 DEF uio_poll, uio_poll_error, nic, os, smm, shm
<1>9. CASE waiting_fn_get
  <2>1. /\ in_ring' \in [Entry -> EnclaveFrame \cup {None}] /\ sgx_got' \in [Frame -> Nat]
        /\ pc' \in {"output", "poll", "get"}
    <3>1. CASE pc' = "poll" /\ UNCHANGED <<in_ring, sgx_got>>
      BY <1>0, <3>1
    <3>2. ASSUME NEW e \in Ready, in_ring' = [in_ring EXCEPT ![e] = None],
                 sgx_got' = [sgx_got EXCEPT ![in_ring[e]] = @ + 1], pc' \in {"output", "poll"}
          PROVE  /\ in_ring' \in [Entry -> EnclaveFrame \cup {None}] /\ sgx_got' \in [Frame -> Nat]
                 /\ pc' \in {"output", "poll", "get"}
      <4>1. e \in Entry /\ in_ring[e] \in Frame
        BY <1>0, <3>2 DEF Ready, Frame
      <4> QED
        BY <1>0, <3>2, <4>1
    <3> QED
      BY <1>9, <3>1, <3>2 DEF waiting_fn_get
  <2> QED
    BY <1>0, <1>9, <2>1 DEF waiting_fn_get, nic, os, smm
<1>10. CASE UNCHANGED vars
  BY <1>0, <1>10 DEF vars, nic, os, smm, shm, client
<1> QED
  BY <1>1, <1>2, <1>3, <1>4, <1>5, <1>6, <1>7, <1>8, <1>9, <1>10, <1>11 DEF Next

LEMMA TypeStep == TypeOK /\ [Next]_vars => TypeOK'
<1> SUFFICES ASSUME TypeOK, [Next]_vars PROVE TypeOK'
  OBVIOUS
<1>1. FlagsOK'
  BY TypeParts, FlagsStep
<1>2. ValuesOK'
  BY ValuesStep
<1> QED
  BY <1>1, <1>2 DEF TypeOK, FlagsOK, ValuesOK

\* Every register, ring and index keeps its type, for every ring size.
THEOREM TypeCorrect == Spec => []TypeOK
BY TypeInit, TypeStep, PTL DEF Spec

-----------------------------------------------------------------------------
(* One step. *)

\* What the step properties say of one step.
StepSafe ==
  /\ \A f \in Frame : Arrived(f) => Arrived(f)'
  /\ dropped' # dropped => \A e \in Entry : in_ring'[e] # None

LEMMA PlaceInit == Init => PlaceInv
BY FrameAssumption DEF Init, PlaceInv, RingsDistinct, ReceivedInv, QueuedInv, GotInv, HeldInv

\* A step that moves no frame.
LEMMA PlaceSame ==
  ASSUME PlaceInv, UNCHANGED <<places, os_next>>, isFirstPhrase' => isFirstPhrase,
         os_pc' = "rearm" <=> os_pc = "rearm"
  PROVE  PlaceInv' /\ StepSafe
<1>0. \A d : OsHas(d)' <=> OsHas(d)
  BY DEF OsHas
<1>1. PlaceInv'
  <2>1. RingsDistinct' /\ QueuedInv' /\ GotInv' /\ HeldInv'
    BY DEF PlaceInv, RingsDistinct, QueuedInv, GotInv, HeldInv, Shared, places
  <2>2. ReceivedInv'
    <3> HIDE DEF OsHas
    <3> QED
      BY <1>0 DEF PlaceInv, ReceivedInv, places
  <2> QED
    BY <2>1, <2>2 DEF PlaceInv
<1>2. StepSafe
  BY DEF StepSafe, places, Arrived
<1> QED
  BY <1>1, <1>2

\* The NIC puts a frame that is nowhere into a descriptor of its own.
LEMMA ReceiveStep ==
  ASSUME TypeOK, PlaceInv, NEW f \in Frame, NicReceive(f)
  PROVE  PlaceInv' /\ StepSafe
<1>1. /\ \A d \in Rx : rx_ring[d] # f
      /\ \A e \in Entry : in_ring[e] # f
      /\ ~(os_got[f] + sgx_got[f] > 0)
      /\ f \notin dropped
  BY DEF NicReceive, Arrived
<1>2. os_got[f] = 0 /\ sgx_got[f] = 0
  <2>1. os_got[f] \in Nat /\ sgx_got[f] \in Nat
    BY DEF TypeOK
  <2> QED
    BY <1>1, <2>1
<1>3. /\ \A d \in Rx : rx_ring'[d] = IF d = nic_next THEN f ELSE rx_ring[d]
      /\ nic_next \in Rx /\ rx_ring[nic_next] = Nic /\ Nic \notin Frame
  BY FrameAssumption DEF NicReceive, TypeOK
<1>4. UNCHANGED <<in_ring, os_got, sgx_got, dropped, both, isFirstPhrase, os_pc, os_next>>
  BY DEF NicReceive, os, smm, shm, client
<1>5. f \notin both
  BY <1>1, <1>2 DEF PlaceInv, GotInv
<1>6. ~OsHas(nic_next) /\ \A d : OsHas(d)' <=> OsHas(d)
  BY <1>3, <1>4 DEF PlaceInv, HeldInv, OsHas
<1> HIDE DEF Frame, OsHas
<1>7. PlaceInv'
  <2>1. RingsDistinct'
    BY <1>1, <1>3, <1>4 DEF PlaceInv, RingsDistinct
  <2>2. ReceivedInv'
    BY <1>1, <1>2, <1>3, <1>4, <1>5, <1>6 DEF PlaceInv, ReceivedInv
  <2>3. QueuedInv' /\ GotInv'
    BY <1>4 DEF PlaceInv, QueuedInv, GotInv, Shared
  <2>4. HeldInv'
    BY <1>3, <1>4 DEF PlaceInv, HeldInv, TypeOK
  <2> QED
    BY <2>1, <2>2, <2>3, <2>4 DEF PlaceInv
<1>8. \A g \in Frame : Arrived(g) => Arrived(g)'
  BY <1>3, <1>4 DEF Arrived
<1> QED
  BY <1>4, <1>7, <1>8 DEF StepSafe

\* The OS takes the frame of its descriptor, or finds it zeroed or with the NIC.
LEMMA TakeStep ==
  ASSUME TypeOK, PlaceInv, OsTake
  PROVE  PlaceInv' /\ StepSafe
<1>0. UNCHANGED <<rx_ring, in_ring, sgx_got, dropped, both, isFirstPhrase, os_next>> /\ os_pc = "drain"
  BY DEF OsTake, nic, smm, shm, client
<1>1. CASE os_pc' = "idle" /\ UNCHANGED os_got
  BY <1>0, <1>1, PlaceSame DEF places
<1>2. CASE /\ rx_ring[os_next] # Nic /\ os_pc' = "rearm"
           /\ os_got' = [f \in Frame |-> IF f = rx_ring[os_next] THEN os_got[f] + 1 ELSE os_got[f]]
  <2>1. /\ \A f \in Frame : os_got'[f] = IF f = rx_ring[os_next] THEN os_got[f] + 1 ELSE os_got[f]
        /\ os_next \in Rx
    BY <1>2 DEF TypeOK
  <2>2. /\ \A f \in Frame : os_got[f] \in Nat /\ sgx_got[f] \in Nat
        /\ dropped \subseteq Frame /\ both \subseteq Frame
    BY DEF TypeOK, Frame
  <2>3. \A d : ~OsHas(d) /\ (OsHas(d)' <=> d = os_next)
    BY <1>0, <1>2 DEF OsHas
  <2> HIDE DEF Frame, OsHas
  <2>4. RingsDistinct' /\ HeldInv'
    BY <1>0, <1>2 DEF PlaceInv, RingsDistinct, HeldInv
  <2>5. ReceivedInv'
    <3> SUFFICES ASSUME NEW d \in Rx, rx_ring[d] \in Frame
                 PROVE  /\ sgx_got[rx_ring[d]] = 0 /\ rx_ring[d] \notin dropped /\ rx_ring[d] \notin both
                        /\ os_got'[rx_ring[d]] = IF d = os_next THEN 1 ELSE 0
      BY <1>0, <2>3 DEF ReceivedInv
    <3>1. /\ sgx_got[rx_ring[d]] = 0 /\ rx_ring[d] \notin dropped /\ rx_ring[d] \notin both
          /\ os_got[rx_ring[d]] = 0
      BY <2>3 DEF PlaceInv, ReceivedInv
    <3>2. rx_ring[d] = rx_ring[os_next] => d = os_next
      BY <2>1 DEF PlaceInv, RingsDistinct
    <3> QED
      BY <2>1, <3>1, <3>2
  <2>6. \A f \in Frame : (f \in dropped \/ f \in both \/ sgx_got[f] = 1) => os_got'[f] = os_got[f]
    <3>1. \A f \in Frame : (f \in dropped \/ f \in both \/ sgx_got[f] = 1) => f # rx_ring[os_next]
      BY <2>1 DEF PlaceInv, ReceivedInv
    <3> QED
      BY <2>1, <3>1
  <2>7. QueuedInv'
    <3> SUFFICES ASSUME NEW e \in Entry, in_ring[e] \in Frame
                 PROVE  /\ sgx_got[in_ring[e]] = 0 /\ in_ring[e] \notin dropped
                        /\ os_got'[in_ring[e]] = Shared(in_ring[e])
      BY <1>0 DEF QueuedInv, Shared
    <3>1. in_ring[e] # rx_ring[os_next]
      BY <2>1 DEF PlaceInv, RingsDistinct
    <3> QED
      BY <2>1, <3>1 DEF PlaceInv, QueuedInv
  <2>8. GotInv'
    <3>1. \A f \in Frame : os_got'[f] \in {0, 1}
      <4> SUFFICES ASSUME NEW f \in Frame PROVE os_got'[f] \in {0, 1}
        OBVIOUS
      <4>1. CASE f = rx_ring[os_next]
        BY <2>1, <2>3, <4>1 DEF PlaceInv, ReceivedInv
      <4>2. CASE f # rx_ring[os_next]
        BY <2>1, <4>2 DEF PlaceInv, GotInv
      <4> QED
        BY <4>1, <4>2
    <3> QED
      BY <1>0, <2>2, <2>6, <3>1 DEF PlaceInv, GotInv, Shared
  <2>9. PlaceInv'
    BY <2>4, <2>5, <2>7, <2>8 DEF PlaceInv
  <2>10. ASSUME NEW f \in Frame, Arrived(f) PROVE Arrived(f)'
    <3>1. os_got[f] + sgx_got[f] > 0 => os_got'[f] + sgx_got'[f] > 0
      BY <1>0, <2>1, <2>2
    <3> QED
      BY <1>0, <2>10, <3>1 DEF Arrived
  <2> QED
    BY <1>0, <2>9, <2>10 DEF StepSafe
<1> QED
  BY <1>1, <1>2 DEF OsTake

\* The OS gives the descriptor back: it has the frame, unless the scan took that too.
LEMMA RearmStep ==
  ASSUME TypeOK, PlaceInv, OsRearm
  PROVE  PlaceInv' /\ StepSafe
<1>0. UNCHANGED <<in_ring, os_got, sgx_got, dropped, both, isFirstPhrase>>
  BY DEF OsRearm, smm, shm, client
<1>1. /\ \A d \in Rx : rx_ring'[d] = IF d = os_next THEN Nic ELSE rx_ring[d]
      /\ os_next \in Rx /\ Nic \notin Frame
  BY FrameAssumption DEF OsRearm, TypeOK
<1>2. \A d : ~OsHas(d)' /\ (OsHas(d) <=> d = os_next)
  BY DEF OsRearm, OsHas
<1>3. os_pc' = "drain"
  BY DEF OsRearm
<1> HIDE DEF Frame, OsHas
<1>4. RingsDistinct'
  BY <1>0, <1>1 DEF PlaceInv, RingsDistinct
<1>5. ReceivedInv'
  <2> SUFFICES ASSUME NEW d \in Rx, rx_ring'[d] \in Frame
               PROVE  /\ sgx_got[rx_ring'[d]] = 0 /\ rx_ring'[d] \notin dropped /\ rx_ring'[d] \notin both
                      /\ os_got[rx_ring'[d]] = 0
    BY <1>0, <1>2 DEF ReceivedInv
  <2>1. d # os_next /\ rx_ring'[d] = rx_ring[d]
    BY <1>1
  <2> QED
    BY <1>2, <2>1 DEF PlaceInv, ReceivedInv
<1>6. QueuedInv' /\ GotInv' /\ HeldInv'
  BY <1>0, <1>3 DEF PlaceInv, QueuedInv, GotInv, HeldInv, Shared
<1>7. ASSUME NEW f \in Frame, Arrived(f) PROVE Arrived(f)'
  <2>1. CASE f = rx_ring[os_next]
    <3>1. os_got'[f] + sgx_got'[f] > 0
      BY <1>0, <1>1, <1>2, <2>1 DEF PlaceInv, ReceivedInv
    <3> QED
      BY <3>1 DEF Arrived
  <2>2. CASE f # rx_ring[os_next]
    BY <1>0, <1>1, <1>7, <2>2 DEF Arrived
  <2> QED
    BY <2>1, <2>2
<1> QED
  BY <1>0, <1>4, <1>5, <1>6, <1>7 DEF StepSafe, PlaceInv

\* The enclave takes the packet out of its IN entry.
LEMMA GetStep ==
  ASSUME TypeOK, PlaceInv, waiting_fn_get
  PROVE  PlaceInv' /\ StepSafe
<1>0. UNCHANGED <<rx_ring, os_got, dropped, both, isFirstPhrase, os_pc, os_next>>
  BY DEF waiting_fn_get, nic, os, smm
<1>1. CASE UNCHANGED <<in_ring, sgx_got>>
  BY <1>0, <1>1, PlaceSame DEF places
<1>2. ASSUME NEW e \in Ready, in_ring' = [in_ring EXCEPT ![e] = None],
             sgx_got' = [sgx_got EXCEPT ![in_ring[e]] = @ + 1]
      PROVE  PlaceInv' /\ StepSafe
  <2>1. e \in Entry /\ in_ring[e] \in Frame /\ None \notin Frame
    BY <1>2, FrameAssumption DEF Ready, TypeOK, Frame
  <2>2. /\ \A c \in Entry : in_ring'[c] = IF c = e THEN None ELSE in_ring[c]
        /\ \A f \in Frame : sgx_got'[f] = IF f = in_ring[e] THEN sgx_got[f] + 1 ELSE sgx_got[f]
    BY <1>2, <2>1 DEF TypeOK
  <2>3. /\ \A f \in Frame : os_got[f] \in Nat /\ sgx_got[f] \in Nat
        /\ dropped \subseteq Frame /\ both \subseteq Frame
    BY DEF TypeOK, Frame
  <2>4. \A d : OsHas(d)' <=> OsHas(d)
    BY <1>0 DEF OsHas
  <2>5. sgx_got[in_ring[e]] = 0 /\ in_ring[e] \notin dropped /\ os_got[in_ring[e]] = Shared(in_ring[e])
    BY <2>1 DEF PlaceInv, QueuedInv
  <2> HIDE DEF Frame, OsHas
  <2>6. RingsDistinct'
    BY <1>0, <2>1, <2>2 DEF PlaceInv, RingsDistinct
  <2>7. ReceivedInv'
    <3> SUFFICES ASSUME NEW d \in Rx, rx_ring[d] \in Frame
                 PROVE  /\ sgx_got'[rx_ring[d]] = 0 /\ rx_ring[d] \notin dropped /\ rx_ring[d] \notin both
                        /\ os_got[rx_ring[d]] = IF OsHas(d) THEN 1 ELSE 0
      BY <1>0, <2>4 DEF ReceivedInv
    <3>1. rx_ring[d] # in_ring[e]
      BY <2>1 DEF PlaceInv, RingsDistinct
    <3> QED
      BY <2>2, <3>1 DEF PlaceInv, ReceivedInv
  <2>8. QueuedInv'
    <3> SUFFICES ASSUME NEW c \in Entry, in_ring'[c] \in Frame
                 PROVE  /\ sgx_got'[in_ring'[c]] = 0 /\ in_ring'[c] \notin dropped
                        /\ os_got[in_ring'[c]] = Shared(in_ring'[c])
      BY <1>0 DEF QueuedInv, Shared
    <3>1. c # e /\ in_ring'[c] = in_ring[c] /\ in_ring[c] # in_ring[e]
      BY <2>1, <2>2 DEF PlaceInv, RingsDistinct
    <3> QED
      BY <2>2, <3>1 DEF PlaceInv, QueuedInv
  <2>9. GotInv'
    <3>1. \A f \in Frame : sgx_got'[f] = IF f = in_ring[e] THEN 1 ELSE sgx_got[f]
      BY <2>2, <2>5
    <3>2. ASSUME NEW f \in both
          PROVE  (\E c \in Entry : in_ring'[c] = f) \/ sgx_got'[f] = 1 \/ f \in dropped
      <4>1. CASE f = in_ring[e]
        BY <2>1, <3>1, <4>1
      <4>2. CASE f # in_ring[e]
        BY <2>2, <2>3, <3>1, <3>2, <4>2 DEF PlaceInv, GotInv
      <4> QED
        BY <4>1, <4>2
    <3>3. ASSUME NEW f \in Frame, sgx_got'[f] = 1 PROVE f \notin dropped /\ os_got[f] = Shared(f)
      BY <2>5, <3>1, <3>3 DEF PlaceInv, GotInv
    <3>4. \A f \in Frame : os_got[f] \in {0, 1} /\ sgx_got'[f] \in {0, 1}
      BY <3>1 DEF PlaceInv, GotInv
    <3>5. \A f \in dropped : os_got[f] = Shared(f)
      BY DEF PlaceInv, GotInv
    <3> QED
      BY <1>0, <3>2, <3>3, <3>4, <3>5 DEF GotInv, Shared
  <2>10. HeldInv'
    BY <1>0, <2>2 DEF PlaceInv, HeldInv
  <2>11. PlaceInv'
    BY <2>6, <2>7, <2>8, <2>9, <2>10 DEF PlaceInv
  <2>12. ASSUME NEW f \in Frame, Arrived(f) PROVE Arrived(f)'
    <3>1. CASE f = in_ring[e]
      <4>1. os_got'[f] + sgx_got'[f] > 0
        BY <1>0, <2>2, <2>3, <3>1
      <4> QED
        BY <4>1 DEF Arrived
    <3>2. CASE f # in_ring[e]
      <4>1. os_got'[f] + sgx_got'[f] = os_got[f] + sgx_got[f]
        BY <1>0, <2>2, <3>2
      <4> QED
        BY <1>0, <2>2, <2>12, <3>2, <4>1 DEF Arrived
    <3> QED
      BY <3>1, <3>2
  <2> QED
    BY <1>0, <2>11, <2>12 DEF StepSafe
<1> QED
  BY <1>1, <1>2 DEF waiting_fn_get

\* One SMI: the first formats an IN ring that is empty, the others may scan.
LEMMA SupervisorStep ==
  ASSUME TypeOK, PlaceInv, supervisor
  PROVE  PlaceInv' /\ StepSafe
<1>0. UNCHANGED <<os_got, sgx_got, os_pc, os_next>>
  BY DEF supervisor, os, client
<1>1. CASE FirstPhrase
  <2>1. in_ring' = in_ring
    <3>1. \A e \in Entry : in_ring[e] = None
      BY <1>1 DEF FirstPhrase, PlaceInv, HeldInv
    <3> QED
      BY <1>1, <3>1 DEF FirstPhrase, TypeOK
  <2> QED
    BY <1>0, <1>1, <2>1, PlaceSame DEF FirstPhrase, places
<1>2. CASE NicPhrase /\ rxint
  BY <1>0, <1>2, ScanKeeps DEF NicPhrase, StepSafe
<1>3. CASE NicPhrase /\ ~rxint
  BY <1>0, <1>3, PlaceSame DEF NicPhrase, places
<1> QED
  BY <1>1, <1>2, <1>3 DEF supervisor

LEMMA PlaceStep == TypeOK /\ PlaceInv /\ [Next]_vars => PlaceInv' /\ StepSafe
<1> SUFFICES ASSUME TypeOK, PlaceInv, [Next]_vars PROVE PlaceInv' /\ StepSafe
  OBVIOUS
<1>1. CASE \E f \in Frame : NicReceive(f)
  BY <1>1, ReceiveStep
<1>2. CASE OsTake \/ OsRearm
  BY <1>2, TakeStep, RearmStep
<1>3. CASE supervisor
  BY <1>3, SupervisorStep
<1>4. CASE waiting_fn_get
  BY <1>4, GetStep
<1>5. CASE \/ NicTransmit \/ OsIsr \/ irq_handler \/ low_level_output
           \/ uio_poll \/ uio_poll_error \/ UNCHANGED vars
  <2>1. UNCHANGED <<places, os_next>> /\ UNCHANGED isFirstPhrase
    BY <1>5 DEF NicTransmit, OsIsr, irq_handler, low_level_output, uio_poll, uio_poll_error,
                vars, nic, os, smm, shm, client, places
  <2>2. os_pc' = "rearm" <=> os_pc = "rearm"
    BY <1>5 DEF NicTransmit, OsIsr, irq_handler, low_level_output, uio_poll, uio_poll_error, vars, os
  <2> QED
    BY <2>1, <2>2, PlaceSame
<1> QED
  BY <1>1, <1>2, <1>3, <1>4, <1>5 DEF Next

-----------------------------------------------------------------------------
(* The theorems. *)

\* The inductive invariant holds: no two of the places that the NIC, the OS driver, the
\* SMI handler and the enclave move frames between hold one frame.
THEOREM PlaceInvariance == Spec => [](TypeOK /\ PlaceInv)
<1>1. Init => TypeOK /\ PlaceInv
  BY TypeInit, PlaceInit
<1>2. TypeOK /\ PlaceInv /\ [Next]_vars => TypeOK' /\ PlaceInv'
  BY TypeStep, PlaceStep
<1> QED
  BY <1>1, <1>2, PTL DEF Spec

\* A set with at most one member has 0 or 1 of them.
LEMMA AtMostOne ==
  ASSUME NEW S, \A x, y \in S : x = y
  PROVE  Cardinality(S) = IF S = {} THEN 0 ELSE 1
<1>1. CASE S = {}
  BY <1>1, FS_EmptySet
<1>2. CASE S # {}
  <2>1. PICK x : x \in S
    BY <1>2
  <2>2. S = {x}
    BY <2>1
  <2> QED
    BY <1>2, <2>2, FS_Singleton
<1> QED
  BY <1>1, <1>2

LEMMA PlacesCounted == TypeOK /\ PlaceInv => OnePlace
<1> SUFFICES ASSUME TypeOK, PlaceInv, NEW f \in Frame, Arrived(f)
             PROVE  Cardinality({d \in Rx : rx_ring[d] = f /\ ~OsHas(d)})
                    + Cardinality({e \in Entry : in_ring[e] = f})
                    + os_got[f] + sgx_got[f] + (IF f \in dropped THEN 1 ELSE 0)
                    = IF f \in both THEN 2 ELSE 1
  BY DEF OnePlace
<1> DEFINE R == {d \in Rx : rx_ring[d] = f /\ ~OsHas(d)}
           I == {e \in Entry : in_ring[e] = f}
<1> HIDE DEF OsHas
<1>1. Cardinality(R) = IF R = {} THEN 0 ELSE 1
  <2>1. \A x, y \in R : x = y
    BY DEF PlaceInv, RingsDistinct
  <2> HIDE DEF R
  <2> QED
    BY <2>1, AtMostOne
<1>2. Cardinality(I) = IF I = {} THEN 0 ELSE 1
  <2>1. \A x, y \in I : x = y
    BY DEF PlaceInv, RingsDistinct
  <2> HIDE DEF I
  <2> QED
    BY <2>1, AtMostOne
\* A frame in a descriptor that the OS has not taken, in one that it has, and in the IN ring.
<1>3. R # {} => I = {} /\ os_got[f] = 0 /\ sgx_got[f] = 0 /\ f \notin dropped /\ f \notin both
  BY DEF PlaceInv, RingsDistinct, ReceivedInv
<1>4. (\E d \in Rx : rx_ring[d] = f /\ OsHas(d)) =>
        R = {} /\ I = {} /\ os_got[f] = 1 /\ sgx_got[f] = 0 /\ f \notin dropped /\ f \notin both
  BY DEF PlaceInv, RingsDistinct, ReceivedInv
<1>5. I # {} => R = {} /\ os_got[f] = Shared(f) /\ sgx_got[f] = 0 /\ f \notin dropped
  BY DEF PlaceInv, RingsDistinct, QueuedInv
<1>6. /\ os_got[f] \in {0, 1} /\ sgx_got[f] \in {0, 1}
      /\ sgx_got[f] = 1 => f \notin dropped /\ os_got[f] = Shared(f)
      /\ f \in dropped => os_got[f] = Shared(f)
      /\ f \in both => I # {} \/ sgx_got[f] = 1 \/ f \in dropped
  BY DEF PlaceInv, GotInv
<1>7. R # {} \/ (\E d \in Rx : rx_ring[d] = f /\ OsHas(d)) \/ I # {} \/ os_got[f] + sgx_got[f] > 0 \/ f \in dropped
  BY DEF Arrived
<1> HIDE DEF R, I
<1>8. Cardinality(R) + Cardinality(I) + os_got[f] + sgx_got[f] + (IF f \in dropped THEN 1 ELSE 0)
      = IF f \in both THEN 2 ELSE 1
  <2>1. CASE R # {}
    BY <1>1, <1>2, <1>3, <2>1
  <2>2. CASE \E d \in Rx : rx_ring[d] = f /\ OsHas(d)
    BY <1>1, <1>2, <1>4, <2>2
  <2>3. CASE I # {}
    BY <1>1, <1>2, <1>5, <2>3 DEF Shared
  <2>4. CASE R = {} /\ I = {} /\ ~(\E d \in Rx : rx_ring[d] = f /\ OsHas(d))
    <3>1. Cardinality(R) = 0 /\ Cardinality(I) = 0
      BY <1>1, <1>2, <2>4
    <3>2. CASE f \in dropped
      BY <1>6, <3>1, <3>2 DEF Shared
    <3>3. CASE sgx_got[f] = 1
      BY <1>6, <3>1, <3>3 DEF Shared
    <3>4. CASE f \notin dropped /\ sgx_got[f] = 0
      BY <1>6, <1>7, <2>4, <3>1, <3>4
    <3> QED
      BY <1>6, <3>2, <3>3, <3>4
  <2> QED
    BY <2>1, <2>2, <2>3, <2>4
<1> QED
  BY <1>8 DEF R, I

\* A frame that arrived is in exactly one place, and no scan delivers it twice (pcnet32.c
\* 186-232); the two drivers that share the receive ring both get it only if the SMI falls
\* between the OS driver's taking it and giving its descriptor back.
THEOREM OnePlaceTheorem == Spec => []OnePlace
BY PlaceInvariance, PlacesCounted, PTL

LEMMA NextSafe == TypeOK /\ PlaceInv /\ [Next]_vars => StepSafe
BY PlaceStep

\* No step makes a frame disappear: neither clearing descriptors nor formatting the
\* shared page loses one that is not counted as dropped.
THEOREM VanishTheorem == Spec => NoFrameVanishes
<1>1. StepSafe => [\A f \in Frame : Arrived(f) => Arrived(f)']_vars
  BY DEF StepSafe
<1> QED
  BY <1>1, PlaceInvariance, NextSafe, PTL DEF Spec, NoFrameVanishes

\* A frame for the enclave is dropped only by an SMI that leaves every IN entry taken.
THEOREM DropTheorem == Spec => DropOnlyWhenFull
<1>1. StepSafe => [dropped' # dropped => \A e \in Entry : in_ring'[e] # None]_vars
  BY DEF StepSafe
<1> QED
  BY <1>1, PlaceInvariance, NextSafe, PTL DEF Spec, DropOnlyWhenFull

-----------------------------------------------------------------------------
(* The OS driver and its signals. *)

\* c lies on the way round the ring from a to d.
Between(a, c, d) == IF a <= d THEN a <= c /\ c <= d ELSE a <= c \/ c <= d

Succ(k) == IF k + 1 = RxRingSize THEN 0 ELSE k + 1

\* The descriptors that wait for the OS are those from its index up to the NIC's: it
\* stops at the NIC's first descriptor without leaving one behind.
WindowInv ==
  /\ \A d, c \in Rx : rx_ring[d] # Nic /\ Between(os_next, c, d) => rx_ring[c] # Nic
  /\ \A c \in Rx : Between(os_next, c, nic_next) /\ c # nic_next => rx_ring[c] # Nic
  /\ rx_ring[nic_next] # Nic => os_next = nic_next /\ \A c \in Rx : rx_ring[c] # Nic

\* An unacknowledged interrupt is on its way, to the OS itself before the first SMI, and
\* descriptors that wait have one or are being looked at.
SignalInv ==
  /\ rxint \/ txint => smi \/ nic_irq
  /\ (rxint \/ txint) /\ isFirstPhrase => nic_irq
  /\ isFirstPhrase => route = "OS"
  /\ (\E d \in Rx : rx_ring[d] # Nic) => rxint \/ os_pc # "idle"

LookInv == WindowInv /\ SignalInv

LEMMA SuccIsNext == \A k \in Rx : (k + 1) % RxRingSize = Succ(k) /\ Succ(k) \in Rx
BY RingAssumption DEF Rx, Succ

LEMMA LookInit == Init => LookInv
<1> SUFFICES ASSUME Init PROVE LookInv
  OBVIOUS
<1>1. 0 \in Rx /\ \A c \in Rx : Between(0, c, 0) => c = 0
  BY RingAssumption DEF Rx, Between
<1>2. WindowInv
  BY <1>1 DEF Init, WindowInv
<1>3. SignalInv
  BY DEF Init, SignalInv
<1> QED
  BY <1>2, <1>3 DEF LookInv

\* A step that leaves the same descriptors to the NIC and both indices where they are.
LEMMA WindowSame ==
  ASSUME WindowInv, UNCHANGED <<nic_next, os_next>>, nic_next \in Rx,
         \A d \in Rx : rx_ring'[d] = Nic <=> rx_ring[d] = Nic
  PROVE  WindowInv'
BY DEF WindowInv, Between

\* The NIC fills its descriptor and goes on to the next.
LEMMA WindowReceive ==
  ASSUME TypeOK, WindowInv, NEW f \in Frame, NicReceive(f)
  PROVE  WindowInv'
<1>1. /\ os_next \in Rx /\ nic_next \in Rx /\ os_next' = os_next
      /\ nic_next' = Succ(nic_next) /\ nic_next' \in Rx
      /\ rx_ring[nic_next] = Nic /\ f # Nic
      /\ \A d \in Rx : rx_ring'[d] = IF d = nic_next THEN f ELSE rx_ring[d]
  BY SuccIsNext, FrameAssumption DEF TypeOK, NicReceive, os
<1>2. RxRingSize \in Nat /\ \A d \in Rx : d \in Nat /\ d < RxRingSize
  BY RingAssumption DEF Rx
<1>3. \A d \in Rx : rx_ring'[d] # Nic <=> d = nic_next \/ rx_ring[d] # Nic
  BY <1>1
<1>4. ASSUME NEW d \in Rx, NEW c \in Rx, rx_ring'[d] # Nic, Between(os_next, c, d)
      PROVE  rx_ring'[c] # Nic
  <2>1. CASE d = nic_next
    BY <1>1, <1>3, <1>4, <2>1 DEF WindowInv
  <2>2. CASE d # nic_next
    BY <1>1, <1>3, <1>4, <2>2 DEF WindowInv
  <2> QED
    BY <2>1, <2>2
<1>5. ASSUME NEW c \in Rx, Between(os_next, c, Succ(nic_next)), c # Succ(nic_next)
      PROVE  rx_ring'[c] # Nic
  <2>1. Between(os_next, c, nic_next)
    BY <1>1, <1>2, <1>5 DEF Between, Succ
  <2> QED
    BY <1>1, <1>3, <2>1 DEF WindowInv
<1>6. ASSUME rx_ring'[Succ(nic_next)] # Nic
      PROVE  os_next = Succ(nic_next) /\ \A c \in Rx : rx_ring'[c] # Nic
  <2>1. os_next = Succ(nic_next)
    <3>1. CASE Succ(nic_next) = nic_next
      BY <1>1, <1>2, <3>1 DEF Succ
    <3>2. CASE Succ(nic_next) # nic_next
      <4>1. rx_ring[Succ(nic_next)] # Nic
        BY <1>1, <1>3, <1>6, <3>2
      <4>2. os_next # Succ(nic_next) => Between(os_next, nic_next, Succ(nic_next))
        BY <1>1, <1>2, <3>2 DEF Between, Succ
      <4> QED
        BY <1>1, <4>1, <4>2 DEF WindowInv
    <3> QED
      BY <3>1, <3>2
  <2>2. \A c \in Rx : Between(os_next, c, nic_next)
    BY <1>1, <1>2, <2>1 DEF Between, Succ
  <2> QED
    BY <1>1, <1>3, <2>1, <2>2 DEF WindowInv
<1> QED
  BY <1>1, <1>4, <1>5, <1>6 DEF WindowInv, Between

\* The OS gives its descriptor back to the NIC and goes on to the next.
LEMMA WindowDrain ==
  ASSUME TypeOK, WindowInv, rx_ring[os_next] # Nic, nic_next' = nic_next,
         rx_ring' = [rx_ring EXCEPT ![os_next] = Nic], os_next' = (os_next + 1) % RxRingSize
  PROVE  WindowInv'
<1>1. /\ os_next \in Rx /\ nic_next \in Rx
      /\ os_next' = Succ(os_next) /\ os_next' \in Rx
      /\ \A d \in Rx : rx_ring'[d] = IF d = os_next THEN Nic ELSE rx_ring[d]
  BY SuccIsNext DEF TypeOK
<1>2. RxRingSize \in Nat /\ \A d \in Rx : d \in Nat /\ d < RxRingSize
  BY RingAssumption DEF Rx
<1>3. \A d \in Rx : rx_ring'[d] # Nic <=> d # os_next /\ rx_ring[d] # Nic
  BY <1>1
<1>4. ASSUME NEW d \in Rx, NEW c \in Rx, rx_ring'[d] # Nic, Between(Succ(os_next), c, d)
      PROVE  rx_ring'[c] # Nic
  <2>1. Between(os_next, c, d) /\ c # os_next
    <3>1. d # os_next
      BY <1>3, <1>4
    <3> QED
      BY <1>1, <1>2, <1>4, <3>1 DEF Between, Succ
  <2> QED
    BY <1>3, <1>4, <2>1 DEF WindowInv
<1>5. ASSUME NEW c \in Rx, Between(Succ(os_next), c, nic_next), c # nic_next
      PROVE  rx_ring'[c] # Nic
  <2>1. CASE nic_next = os_next
    BY <1>1, <1>3, <1>5, <2>1 DEF WindowInv
  <2>2. CASE nic_next # os_next
    <3>1. Between(os_next, c, nic_next) /\ c # os_next
      BY <1>1, <1>2, <1>5, <2>2 DEF Between, Succ
    <3> QED
      BY <1>3, <1>5, <3>1 DEF WindowInv
  <2> QED
    BY <2>1, <2>2
<1>6. rx_ring'[nic_next] = Nic
  BY <1>1, <1>3 DEF WindowInv
<1> QED
  BY <1>1, <1>4, <1>5, <1>6 DEF WindowInv, Between

\* The scan clears descriptors and gives none to the NIC.
LEMMA ScanWindow ==
  ASSUME TypeOK, process_rx_packets
  PROVE  \A d \in Rx : rx_ring'[d] = Nic <=> rx_ring[d] = Nic
<1>1. \A d \in Rx : rx_ring'[d] = IF d \in Hits THEN Cleared ELSE rx_ring[d]
  BY DEF process_rx_packets, ClearDescriptors
<1>2. \A d \in Hits : rx_ring[d] # Nic
  BY FrameAssumption DEF Hits, Frame
<1>3. Cleared # Nic
  BY FrameAssumption
<1> QED
  BY <1>1, <1>2, <1>3

LEMMA LookStep == TypeOK /\ PlaceInv /\ LookInv /\ [Next]_vars => LookInv'
<1> SUFFICES ASSUME TypeOK, PlaceInv, LookInv, [Next]_vars PROVE LookInv'
  OBVIOUS
<1>0. WindowInv /\ SignalInv /\ nic_next \in Rx /\ os_next \in Rx
  BY DEF LookInv, TypeOK
<1>1. ASSUME NEW f \in Frame, NicReceive(f) PROVE LookInv'
  <2>1. WindowInv'
    BY <1>0, <1>1, WindowReceive
  <2>2. SignalInv'
    BY <1>0, <1>1 DEF NicReceive, Raise, SignalInv, os, smm, TypeOK
  <2> QED
    BY <2>1, <2>2 DEF LookInv
<1>2. CASE OsTake
  <2>0. UNCHANGED <<rx_ring, nic_next, os_next, rxint, txint, smi, nic_irq, isFirstPhrase, route>>
    BY <1>2 DEF OsTake, nic, smm
  <2>1. WindowInv'
    BY <1>0, <2>0, WindowSame
  <2>2. CASE rx_ring[os_next] = Nic
    <3>1. \A d \in Rx : rx_ring[d] = Nic
      BY <1>0, <2>2 DEF WindowInv, Between, Rx
    <3> QED
      BY <1>0, <2>0, <2>1, <3>1 DEF SignalInv, LookInv
  <2>3. CASE os_pc' = "rearm"
    BY <1>0, <2>0, <2>1, <2>3 DEF SignalInv, LookInv
  <2> QED
    BY <1>2, <2>2, <2>3 DEF OsTake
<1>6. CASE OsRearm
  <2>0. UNCHANGED <<nic_next, rxint, txint, smi, nic_irq, isFirstPhrase, route>>
    BY <1>6 DEF OsRearm, smm
  <2>1. rx_ring[os_next] # Nic
    BY <1>6 DEF OsRearm, PlaceInv, HeldInv
  <2>2. WindowInv'
    BY <1>0, <1>6, <2>0, <2>1, WindowDrain DEF OsRearm
  <2>3. SignalInv'
    BY <1>0, <1>6, <2>0 DEF OsRearm, SignalInv
  <2> QED
    BY <2>2, <2>3 DEF LookInv
<1>3. CASE supervisor
  <2>0. UNCHANGED <<nic_next, os_next, os_pc, rxint, txint>>
    BY <1>3 DEF supervisor, os
  <2>1. \A d \in Rx : rx_ring'[d] = Nic <=> rx_ring[d] = Nic
    BY <1>3, ScanWindow DEF supervisor, FirstPhrase, NicPhrase
  <2>2. WindowInv'
    BY <1>0, <2>0, <2>1, WindowSame
  <2>3. CASE FirstPhrase
    BY <1>0, <2>0, <2>1, <2>2, <2>3 DEF FirstPhrase, SignalInv, LookInv
  <2>4. CASE NicPhrase
    BY <1>0, <2>0, <2>1, <2>2, <2>4 DEF NicPhrase, Forward, SignalInv, LookInv
  <2> QED
    BY <1>3, <2>3, <2>4 DEF supervisor
<1>4. CASE NicTransmit \/ OsIsr
  <2>1. UNCHANGED <<rx_ring, nic_next, os_next, isFirstPhrase, route>>
    BY <1>4 DEF NicTransmit, OsIsr, os, smm
  <2>2. WindowInv'
    BY <1>0, <2>1, WindowSame
  <2>3. CASE NicTransmit
    BY <1>0, <2>1, <2>2, <2>3 DEF NicTransmit, Raise, SignalInv, LookInv, os, TypeOK
  <2>4. CASE OsIsr
    BY <1>0, <2>1, <2>2, <2>4 DEF OsIsr, SignalInv, LookInv
  <2> QED
    BY <1>4, <2>3, <2>4
<1>5. CASE \/ irq_handler \/ low_level_output \/ uio_poll \/ uio_poll_error
           \/ waiting_fn_get \/ UNCHANGED vars
  <2>1. /\ UNCHANGED <<rx_ring, nic_next, os_next, rxint, txint, nic_irq, os_pc, isFirstPhrase, route>>
        /\ smi => smi'
    BY <1>5 DEF irq_handler, low_level_output, uio_poll, uio_poll_error, waiting_fn_get,
                vars, nic, os, smm
  <2>2. WindowInv'
    BY <1>0, <2>1, WindowSame
  <2>3. SignalInv'
    BY <1>0, <2>1 DEF SignalInv
  <2> QED
    BY <2>2, <2>3 DEF LookInv
<1> QED
  BY <1>1, <1>2, <1>3, <1>4, <1>5, <1>6 DEF Next

\* The OS never leaves a descriptor behind: whenever one waits, the OS driver is at work or
\* the signal that starts it is pending (supervisor.c 73-97, pcnet32.c 243-265).
THEOREM LookTheorem == Spec => []OsWillLook
<1>1. Init => LookInv
  BY LookInit
<1>2. TypeOK /\ PlaceInv /\ LookInv /\ [Next]_vars => LookInv'
  BY LookStep
<1>3. LookInv => OsWillLook
  BY DEF LookInv, SignalInv, OsWillLook
<1> QED
  BY <1>1, <1>2, <1>3, PlaceInvariance, PTL DEF Spec
=============================================================================
