--------------------------- MODULE QueueKeyProofs ---------------------------
(***************************************************************************)
(* Proofs about the queue keys of key.go, for every key width and every    *)
(* set of names, identifiers and properties: the scan prefix a reader      *)
(* derives from FirstMessage and LastMessage is exactly the queue's        *)
(* message-key header, and it selects that queue's message keys and no    *)
(* other key.  Queue names are assumed dot-free (spec 3: a key is four     *)
(* dot-separated segments); with a dot in a name the property fails.       *)
(***************************************************************************)
EXTENDS QueueKey, SequenceTheorems, WellFoundedInduction, TLAPS

(* key.Size is positive.  The rest of QueueKeyAssumption (the identifier *)
(* set) is cited where it is needed.                                       *)
LEMMA KeySizePositive == KeySize \in Nat \ {0}
BY SMTT(30), QueueKeyAssumption

USE KeySizePositive

(* Byte strings without the separator: the names spec 3 allows.            *)
DotFree == {n \in Seq(Nat) : \A i \in DOMAIN n : n[i] # Sep}

(* The bytes Bytes puts before a message identifier, and before a state   *)
(* property.                                                               *)
MsgHdr(q) == QueuesNamespace \o <<Sep>> \o MessagesBucket \o <<Sep>> \o q \o <<Sep>>
StateHdr(q) == QueuesNamespace \o <<Sep>> \o StateBucket \o <<Sep>> \o q \o <<Sep>>

-----------------------------------------------------------------------------
(* Lemmas about prefixes of sequences.                                     *)

LEMMA PrefixElems ==
  ASSUME NEW s \in Seq(Nat), NEW t \in Seq(Nat)
  PROVE  IsPrefix(s, t) <=> Len(s) <= Len(t) /\ \A i \in 1..Len(s) : s[i] = t[i]
<1>1. ASSUME IsPrefix(s, t) PROVE Len(s) <= Len(t) /\ \A i \in 1..Len(s) : s[i] = t[i]
  <2>1. Len(s) <= Len(t) /\ SubSeq(s, 1, Len(s)) = SubSeq(t, 1, Len(s))
    BY SMTT(30), <1>1 DEF IsPrefix
  <2>2. QED
    BY SMTT(30), <2>1
<1>2. ASSUME Len(s) <= Len(t), \A i \in 1..Len(s) : s[i] = t[i] PROVE IsPrefix(s, t)
  <2>1. SubSeq(s, 1, Len(s)) = SubSeq(t, 1, Len(s))
    BY <1>2
  <2>2. QED
    BY SMTT(30), <1>2, <2>1 DEF IsPrefix
<1>3. QED
  BY SMTT(30), <1>1, <1>2

(* The layout of a header: six fixed bytes, the name, the separator.      *)
LEMMA MsgHdrFacts ==
  ASSUME NEW q \in Seq(Nat)
  PROVE  /\ MsgHdr(q) \in Seq(Nat)
         /\ Len(MsgHdr(q)) = Len(q) + 7
         /\ MsgHdr(q)[5] = 109
         /\ \A i \in 1..Len(q) : MsgHdr(q)[6 + i] = q[i]
         /\ MsgHdr(q)[Len(q) + 7] = Sep
BY DEF MsgHdr, QueuesNamespace, MessagesBucket, Sep

LEMMA StateHdrFacts ==
  ASSUME NEW q \in Seq(Nat)
  PROVE  /\ StateHdr(q) \in Seq(Nat)
         /\ Len(StateHdr(q)) = Len(q) + 7
         /\ StateHdr(q)[5] = 115
BY SMTT(30) DEF StateHdr, QueuesNamespace, StateBucket, Sep

(* The bytes of the two kinds of key.                                      *)
LEMMA BytesLayout ==
  ASSUME NEW q, NEW id, id # Nil, NEW pr
  PROVE  /\ Bytes(NewQueueKeyForMessage(q, id)) = MsgHdr(q) \o id
         /\ Bytes(NewQueueKeyForState(q, pr)) = StateHdr(q) \o pr
BY SMTT(30) DEF Bytes, NewQueueKeyForMessage, NewQueueKeyForState, IsKey, MsgHdr, StateHdr


(* Indexing into a concatenation.                                          *)
LEMMA ConcatFacts ==
  ASSUME NEW s \in Seq(Nat), NEW t \in Seq(Nat)
  PROVE  /\ s \o t \in Seq(Nat)
         /\ Len(s \o t) = Len(s) + Len(t)
         /\ \A i \in 1..Len(s) : (s \o t)[i] = s[i]
         /\ \A i \in 1..Len(t) : (s \o t)[Len(s) + i] = t[i]
OBVIOUS

(* Two sequences that differ at an index of the first: no prefix.         *)
LEMMA DifferAt ==
  ASSUME NEW s \in Seq(Nat), NEW t \in Seq(Nat), NEW i \in 1..Len(s), s[i] # t[i]
  PROVE  ~IsPrefix(s, t)
BY PrefixElems, SMTT(30)

(* key.Min and key.Max appended to a byte string.                        *)
LEMMA BoundConcat ==
  ASSUME NEW h \in Seq(Nat)
  PROVE  /\ Len(h \o KeyMin) = Len(h) + KeySize
         /\ Len(h \o KeyMax) = Len(h) + KeySize
         /\ \A i \in 1..Len(h) : (h \o KeyMin)[i] = h[i] /\ (h \o KeyMax)[i] = h[i]
         /\ (h \o KeyMin)[Len(h) + 1] = 0
         /\ (h \o KeyMax)[Len(h) + 1] = 255
         /\ \A i \in 1..KeySize : (h \o KeyMin)[Len(h) + i] = 0
                                /\ (h \o KeyMax)[Len(h) + i] = 255
BY DEF KeyMin, KeyMax

(* The scan prefix: PrefixOf stops right after the name's separator,      *)
(* where key.Min's first byte 0 meets key.Max's first byte 255.           *)
LEMMA ScanPrefixIsHeader ==
  ASSUME NEW q \in Seq(Nat)
  PROVE  PrefixOf(MsgHdr(q) \o KeyMin, MsgHdr(q) \o KeyMax) = MsgHdr(q)
<1> DEFINE h == MsgHdr(q)
           seek == h \o KeyMin
           until == h \o KeyMax
           L == Len(h)
           length == IF Len(until) < Len(seek) THEN Len(until) ELSE Len(seek)
           P(n) == /\ \A i \in 1..n : seek[i] = until[i]
                   /\ n = length \/ seek[n + 1] # until[n + 1]
<1>1. h \in Seq(Nat) /\ L \in Nat
  BY MsgHdrFacts
<1>2. KeyMin \in Seq(Nat) /\ KeyMax \in Seq(Nat)
      /\ Len(KeyMin) = KeySize /\ Len(KeyMax) = KeySize
      /\ KeyMin[1] = 0 /\ KeyMax[1] = 255
  BY DEF KeyMin, KeyMax
<1>3. /\ Len(seek) = L + KeySize /\ Len(until) = L + KeySize
      /\ \A i \in 1..L : seek[i] = h[i] /\ until[i] = h[i]
      /\ seek[L + 1] = KeyMin[1] /\ until[L + 1] = KeyMax[1]
  BY <1>1, <1>2, BoundConcat, SMTT(30)
<1>4. length = L + KeySize /\ seek[L + 1] # until[L + 1]
  BY <1>2, <1>3
<1>5. L \in 0..length /\ P(L)
  BY <1>1, <1>3, <1>4
<1>6. ASSUME NEW n \in 0..length, P(n) PROVE n = L
  <2>1. CASE n < L
    <3>1. n + 1 \in 1..L /\ n # length
      <4>1. n + 1 \in 1..L
        BY SMTT(30), <1>1, <2>1
      <4>2. n # length
        BY SMTT(30), <1>1, <1>4, <2>1, KeySizePositive
      <4>3. QED
        BY SMTT(30), <4>1, <4>2
    <3>2. seek[n + 1] = until[n + 1]
      BY SMTT(30), <1>3, <3>1
    <3>3. QED
      BY SMTT(30), <1>6, <3>1, <3>2
  <2>2. CASE n > L
    <3>1. L + 1 \in 1..n
      BY SMTT(30), <1>1, <2>2
    <3>2. seek[L + 1] = until[L + 1]
      BY SMTT(30), <1>6, <3>1
    <3>3. QED
      BY SMTT(30), <1>4, <3>2
  <2>3. QED
    BY <2>1, <2>2, <1>1
<1>7. (CHOOSE n \in 0..length : P(n)) = L
  BY SMTT(30), <1>5, <1>6
<1>8. SubSeq(seek, 1, L) = h
  BY <1>1, <1>3
<1>9. QED
  BY <1>7, <1>8 DEF PrefixOf

(* A queue's header is a prefix of a message key exactly when the key is  *)
(* of the same queue: the separator after the name ends a dot-free name.  *)
LEMMA HeaderSelectsQueue ==
  ASSUME NEW q1 \in DotFree, NEW q2 \in DotFree, NEW id \in Seq(Nat)
  PROVE  IsPrefix(MsgHdr(q1), MsgHdr(q2) \o id) <=> q1 = q2
<1> DEFINE h1 == MsgHdr(q1)
           h2 == MsgHdr(q2)
           k == h2 \o id
<1>0. /\ q1 \in Seq(Nat) /\ q2 \in Seq(Nat)
      /\ \A i \in 1..Len(q1) : q1[i] # Sep
      /\ \A i \in 1..Len(q2) : q2[i] # Sep
  BY SMTT(30) DEF DotFree
<1>1. /\ h1 \in Seq(Nat) /\ Len(h1) = Len(q1) + 7
      /\ \A i \in 1..Len(q1) : h1[6 + i] = q1[i]
      /\ h1[Len(q1) + 7] = Sep
  BY <1>0, MsgHdrFacts
<1>2. /\ h2 \in Seq(Nat) /\ Len(h2) = Len(q2) + 7
      /\ \A i \in 1..Len(q2) : h2[6 + i] = q2[i]
      /\ h2[Len(q2) + 7] = Sep
  BY <1>0, MsgHdrFacts
<1>3. /\ k \in Seq(Nat) /\ Len(k) = Len(h2) + Len(id)
      /\ \A i \in 1..Len(h2) : k[i] = h2[i]
  BY <1>2, ConcatFacts
<1>4. ASSUME q1 = q2 PROVE IsPrefix(h1, k)
  <2>1. Len(h1) <= Len(k) /\ \A i \in 1..Len(h1) : h1[i] = k[i]
    BY <1>2, <1>3, <1>4
  <2>2. QED
    BY <1>1, <1>3, <2>1, PrefixElems
<1>5. ASSUME IsPrefix(h1, k) PROVE q1 = q2
  <2>1. Len(h1) <= Len(k) /\ \A i \in 1..Len(h1) : h1[i] = k[i]
    BY <1>1, <1>3, <1>5, PrefixElems
  <2>2. ~(Len(q1) < Len(q2))
    <3> SUFFICES ASSUME Len(q1) < Len(q2) PROVE FALSE
      OBVIOUS
    <3> DEFINE j == Len(q1) + 1
    <3>1. j \in 1..Len(q2) /\ Len(q1) + 7 = 6 + j /\ Len(q1) + 7 \in 1..Len(h1)
          /\ Len(q1) + 7 \in 1..Len(h2)
      BY SMTT(30), <1>0, <1>1, <1>2
    <3>2. k[Len(q1) + 7] = q2[j] /\ q2[j] # Sep
      BY SMTT(30), <1>0, <1>2, <1>3, <3>1
    <3>3. h1[Len(q1) + 7] = k[Len(q1) + 7]
      BY <2>1, <3>1
    <3>4. QED
      BY <1>1, <3>2, <3>3
  <2>3. ~(Len(q2) < Len(q1))
    <3> SUFFICES ASSUME Len(q2) < Len(q1) PROVE FALSE
      OBVIOUS
    <3> DEFINE j == Len(q2) + 1
    <3>1. j \in 1..Len(q1) /\ Len(q2) + 7 = 6 + j /\ Len(q2) + 7 \in 1..Len(h1)
          /\ Len(q2) + 7 \in 1..Len(h2)
      BY SMTT(30), <1>0, <1>1, <1>2
    <3>2. h1[Len(q2) + 7] = q1[j] /\ q1[j] # Sep
      BY <1>0, <1>1, <3>1
    <3>3. h1[Len(q2) + 7] = k[Len(q2) + 7] /\ k[Len(q2) + 7] = Sep
      BY SMTT(30), <1>2, <1>3, <2>1, <3>1
    <3>4. QED
      BY <3>2, <3>3
  <2>4. Len(q1) = Len(q2)
    BY SMTT(30), <1>0, <2>2, <2>3
  <2>5. ASSUME NEW i \in 1..Len(q1) PROVE q1[i] = q2[i]
    <3>1. 6 + i \in 1..Len(h1) /\ 6 + i \in 1..Len(h2) /\ i \in 1..Len(q2)
      BY SMTT(30), <1>0, <1>1, <1>2, <2>4
    <3>2. h1[6 + i] = q1[i] /\ h2[6 + i] = q2[i] /\ k[6 + i] = h2[6 + i]
      BY SMTT(30), <1>1, <1>2, <1>3, <3>1
    <3>3. QED
      BY SMTT(30), <2>1, <3>1, <3>2
  <2>6. DOMAIN q1 = 1..Len(q1) /\ DOMAIN q2 = 1..Len(q1)
    BY SMTT(30), <1>0, <2>4
  <2>7. q1 = [i \in 1..Len(q1) |-> q1[i]] /\ q2 = [i \in 1..Len(q1) |-> q2[i]]
    BY SMTT(30), <1>0, <2>6
  <2>8. QED
    BY <2>5, <2>7
<1>6. QED
  BY <1>4, <1>5

(* No message header is a prefix of a state key: the buckets differ.      *)
LEMMA HeaderMissesState ==
  ASSUME NEW q1 \in Seq(Nat), NEW q2 \in Seq(Nat), NEW pr \in Seq(Nat)
  PROVE  ~IsPrefix(MsgHdr(q1), StateHdr(q2) \o pr)
<1>1. MsgHdr(q1) \in Seq(Nat) /\ Len(MsgHdr(q1)) = Len(q1) + 7 /\ MsgHdr(q1)[5] = 109
  BY MsgHdrFacts
<1>2. StateHdr(q2) \in Seq(Nat) /\ Len(StateHdr(q2)) = Len(q2) + 7 /\ StateHdr(q2)[5] = 115
  BY StateHdrFacts
<1>3. (StateHdr(q2) \o pr)[5] = 115 /\ StateHdr(q2) \o pr \in Seq(Nat)
  BY <1>2, ConcatFacts
<1>4. 5 \in 1..Len(MsgHdr(q1))
  BY <1>1
<1>5. \A s, t \in Seq(Nat) : 5 \in 1..Len(s) /\ s[5] # t[5] => ~IsPrefix(s, t)
  BY DifferAt
<1>6. QED
  BY <1>1, <1>3, <1>4, <1>5, SMTT(60) DEF IsPrefix

-----------------------------------------------------------------------------
(* The scan prefix of one queue against the key of another.                *)
LEMMA ScanPrefixOfQueue ==
  ASSUME NEW q1 \in DotFree, NEW q2 \in DotFree, NEW id \in Seq(Nat), id # Nil,
         NEW P \in SUBSET Seq(Nat), Nil \notin Seq(Nat)
  PROVE  LET p == PrefixOf(Bytes(FirstMessage(q1)), Bytes(LastMessage(q1)))
         IN  /\ IsPrefix(p, Bytes(NewQueueKeyForMessage(q2, id))) <=> q1 = q2
             /\ \A pr \in P : ~IsPrefix(p, Bytes(NewQueueKeyForState(q2, pr)))
<1>1. q1 \in Seq(Nat) /\ q2 \in Seq(Nat)
  BY DEF DotFree
<1>2. KeyMin \in Seq(Nat) /\ KeyMax \in Seq(Nat)
  BY DEF KeyMin, KeyMax
<1>3. Bytes(FirstMessage(q1)) = MsgHdr(q1) \o KeyMin
      /\ Bytes(LastMessage(q1)) = MsgHdr(q1) \o KeyMax
  BY <1>2, BytesLayout DEF FirstMessage, LastMessage
<1>4. PrefixOf(Bytes(FirstMessage(q1)), Bytes(LastMessage(q1))) = MsgHdr(q1)
  BY <1>1, <1>3, ScanPrefixIsHeader
<1>5. IsPrefix(MsgHdr(q1), Bytes(NewQueueKeyForMessage(q2, id))) <=> q1 = q2
  <2>1. Bytes(NewQueueKeyForMessage(q2, id)) = MsgHdr(q2) \o id
    BY BytesLayout
  <2>2. QED
    BY <2>1, HeaderSelectsQueue
<1>6. ASSUME NEW pr \in P
      PROVE  ~IsPrefix(MsgHdr(q1), Bytes(NewQueueKeyForState(q2, pr)))
  <2>1. Bytes(NewQueueKeyForState(q2, pr)) = StateHdr(q2) \o pr
    BY <1>2, BytesLayout
  <2>2. QED
    BY SMTT(30), <1>1, <2>1, HeaderMissesState
<1>7. QED
  BY SMTT(30), <1>4, <1>5, <1>6

(* The scan prefix a reader derives from FirstMessage and LastMessage     *)
(* selects exactly its own queue's message keys and no state key, for     *)
(* every key width, when names are dot-free (spec 3), properties are byte *)
(* strings and a nil key.Key is not a byte string.                         *)
THEOREM ScanPrefixSelectsQueueHolds ==
  ASSUME Names \subseteq DotFree, Props \subseteq Seq(Nat), Nil \notin Seq(Nat)
  PROVE  Spec => []ScanPrefixSelectsQueue
<1>1. Init /\ [Next]_probe => Init'
  BY DEF Init, Next
<1>2. Init => ScanPrefixSelectsQueue
  <2> SUFFICES ASSUME probe \in Probes, probe.kind = "queues"
               PROVE  ScanPrefixSelectsQueue
    BY DEF Init, ScanPrefixSelectsQueue
  <2>1. probe \in [kind : {"queues"}, q1 : Names, q2 : Names, id : Ids]
    BY DEF Probes
  <2>2. probe.id \in Seq(Nat) /\ probe.id # Nil
    <3>1. probe.id \in Seq(0..255)
      BY SMTT(30), <2>1, QueueKeyAssumption
    <3>2. probe.id \in Seq(Nat)
      <4>1. 0..255 \subseteq Nat
        OBVIOUS
      <4>2. QED
        BY ZenonT(40), <3>1, <4>1, SeqMonotonic
    <3>3. QED
      BY <3>2
  <2>3. probe.q1 \in DotFree /\ probe.q2 \in DotFree
    BY <2>1
  <2>4. QED
    BY <2>2, <2>3, ScanPrefixOfQueue DEF ScanPrefixSelectsQueue
<1>3. QED
  BY <1>1, <1>2, PTL DEF Spec

-----------------------------------------------------------------------------
(* Lemmas about bytes.Compare (LexLess).                                   *)

(* A nonempty set of naturals has a least element (from the well-founded *)
(* order on Nat): the first index where two byte strings differ.          *)
LEMMA LeastIndex ==
  ASSUME NEW S \in SUBSET Nat, S # {}
  PROVE  \E m \in S : \A k \in S : m <= k
<1>1. \E x \in S : \A y \in S : ~(<<y, x>> \in OpToRel(<, Nat))
  BY NatLessThanWellFounded, WFMin, Zenon
<1>2. \A x, y \in Nat : y < x => <<y, x>> \in OpToRel(<, Nat)
  BY Zenon DEF OpToRel
<1>3. PICK x \in S : \A y \in S : ~(<<y, x>> \in OpToRel(<, Nat))
  BY <1>1, Zenon
<1>4. \A y \in S : ~(y < x)
  BY <1>2, <1>3, Zenon
<1>5. QED
  BY <1>4

(* a < b when they agree before index i and a's byte is smaller at i.      *)
LEMMA LexLessAt ==
  ASSUME NEW a \in Seq(Nat), NEW b \in Seq(Nat), NEW i \in 1..Len(a), i <= Len(b),
         \A j \in 1..(i - 1) : a[j] = b[j], a[i] < b[i]
  PROVE  LexLess(a, b)
<1>1. SubSeq(a, 1, i - 1) = SubSeq(b, 1, i - 1)
  OBVIOUS
<1>2. QED
  BY <1>1 DEF LexLess

(* a is not below b when they have one length and a is bytewise >= b.      *)
LEMMA NotLexLess ==
  ASSUME NEW a \in Seq(Nat), NEW b \in Seq(Nat), Len(a) = Len(b),
         \A j \in 1..Len(a) : b[j] <= a[j]
  PROVE  ~LexLess(a, b)
<1>1. ~IsStrictPrefix(a, b)
  <2> SUFFICES ASSUME IsPrefix(a, b) PROVE a = b
    BY DEF IsStrictPrefix
  <2>1. \A j \in 1..Len(a) : a[j] = b[j]
    BY PrefixElems
  <2>2. QED
    BY SMTT(30), <2>1, SeqEqual
<1>2. ~\E i \in 1..Len(a) : i <= Len(b) /\ a[i] < b[i]
  OBVIOUS
<1>3. QED
  BY SMTT(30), <1>1, <1>2 DEF LexLess

(* Two different dot-free names give headers with a first differing byte *)
(* inside both.                                                            *)
LEMMA HeadersDiffer ==
  ASSUME NEW q1 \in DotFree, NEW q2 \in DotFree, q1 # q2
  PROVE  \E d \in 1..Len(MsgHdr(q1)) :
            /\ d <= Len(MsgHdr(q2))
            /\ MsgHdr(q1)[d] # MsgHdr(q2)[d]
            /\ \A j \in 1..(d - 1) : MsgHdr(q1)[j] = MsgHdr(q2)[j]
<1> DEFINE h1 == MsgHdr(q1)
           h2 == MsgHdr(q2)
           n == IF Len(h1) <= Len(h2) THEN Len(h1) ELSE Len(h2)
           D == {i \in 1..n : h1[i] # h2[i]}
<1>1. q1 \in Seq(Nat) /\ q2 \in Seq(Nat)
  BY DEF DotFree
<1>2. h1 \in Seq(Nat) /\ h2 \in Seq(Nat) /\ <<>> \in Seq(Nat)
  BY SMTT(30), <1>1, MsgHdrFacts
<1>3. h1 \o <<>> = h1 /\ h2 \o <<>> = h2
  BY <1>2
<1>4. D # {}
  <2> SUFFICES ASSUME D = {} PROVE FALSE
    OBVIOUS
  <2>1. CASE Len(h1) <= Len(h2)
    <3>1. IsPrefix(h1, h2 \o <<>>)
      BY <1>2, <1>3, <2>1, PrefixElems
    <3>2. QED
      BY <1>2, <3>1, HeaderSelectsQueue
  <2>2. CASE Len(h2) < Len(h1)
    <3>0. \A i \in 1..Len(h2) : h2[i] = h1[i]
      <4>1. n = Len(h2)
        BY <1>2, <2>2
      <4>2. QED
        BY <4>1
    <3>1. IsPrefix(h2, h1 \o <<>>)
      BY SMTT(30), <1>2, <1>3, <2>2, <3>0, PrefixElems
    <3>2. QED
      BY <1>2, <3>1, HeaderSelectsQueue
  <2>3. QED
    BY SMTT(30), <1>2, <2>1, <2>2
<1>5. PICK d \in D : \A k \in D : d <= k
  <2>1. D \in SUBSET Nat
    OBVIOUS
  <2>2. QED
    BY <1>4, <2>1, LeastIndex
<1>6. QED
  BY SMTT(30), <1>2, <1>5

(* Two different byte strings of one length have a first differing byte. *)
LEMMA FirstDifference ==
  ASSUME NEW a \in Seq(Nat), NEW b \in Seq(Nat), Len(a) = Len(b), a # b
  PROVE  \E f \in 1..Len(a) : a[f] # b[f] /\ \A j \in 1..(f - 1) : a[j] = b[j]
<1> DEFINE D == {i \in 1..Len(a) : a[i] # b[i]}
<1>1. D # {}
  <2> SUFFICES ASSUME D = {} PROVE FALSE
    OBVIOUS
  <2>1. QED
    BY SeqEqual
<1>2. PICK m \in D : \A k \in D : m <= k
  <2>1. D \in SUBSET Nat
    OBVIOUS
  <2>2. QED
    BY <1>1, <2>1, LeastIndex
<1>3. \A j \in 1..(m - 1) : a[j] = b[j]
  <2> SUFFICES ASSUME NEW j \in 1..(m - 1) PROVE a[j] = b[j]
    BY Zenon
  <2>1. j \in 1..Len(a) /\ ~(m <= j)
    BY <1>2
  <2>2. j \notin D
    BY SMTT(30), <1>2, <2>1
  <2>3. QED
    BY <2>1, <2>2
<1>4. m \in 1..Len(a) /\ a[m] # b[m]
  BY <1>2
<1>5. QED
  BY <1>3, <1>4, SMTT(30)

(* key.Min and key.Max are byte strings of width key.Size.                *)
LEMMA BoundsAreSeqs ==
  /\ KeyMin \in Seq(Nat) /\ Len(KeyMin) = KeySize
  /\ KeyMax \in Seq(Nat) /\ Len(KeyMax) = KeySize
  /\ \A i \in 1..KeySize : KeyMin[i] = 0 /\ KeyMax[i] = 255
BY DEF KeyMin, KeyMax

(* An identifier other than key.Min has a first nonzero byte.            *)
LEMMA FirstNotMin ==
  ASSUME NEW id \in Seq(Nat), Len(id) = KeySize, id # KeyMin
  PROVE  \E f \in 1..KeySize : id[f] # 0 /\ \A j \in 1..(f - 1) : id[j] = 0
<1>1. \E f \in 1..Len(id) : id[f] # KeyMin[f] /\ \A j \in 1..(f - 1) : id[j] = KeyMin[j]
  <2>1. KeyMin \in Seq(Nat) /\ Len(id) = Len(KeyMin)
    BY BoundsAreSeqs
  <2>2. QED
    BY <2>1, FirstDifference
<1>2. PICK f \in 1..Len(id) : id[f] # KeyMin[f] /\ \A j \in 1..(f - 1) : id[j] = KeyMin[j]
  BY <1>1
<1>3. f \in 1..KeySize /\ \A j \in 1..(f - 1) : j \in 1..KeySize
  BY <1>2
<1>4. QED
  BY SMTT(30), <1>2, <1>3, BoundsAreSeqs

(* An identifier other than key.Max has a first byte other than 255.      *)
LEMMA FirstNotMax ==
  ASSUME NEW id \in Seq(Nat), Len(id) = KeySize, id # KeyMax
  PROVE  \E f \in 1..KeySize : id[f] # 255 /\ \A j \in 1..(f - 1) : id[j] = 255
<1>1. \E f \in 1..Len(id) : id[f] # KeyMax[f] /\ \A j \in 1..(f - 1) : id[j] = KeyMax[j]
  <2>1. KeyMax \in Seq(Nat) /\ Len(id) = Len(KeyMax)
    BY SMTT(30), BoundsAreSeqs
  <2>2. QED
    BY <2>1, FirstDifference
<1>2. PICK f \in 1..Len(id) : id[f] # KeyMax[f] /\ \A j \in 1..(f - 1) : id[j] = KeyMax[j]
  BY <1>1
<1>3. f \in 1..KeySize /\ \A j \in 1..(f - 1) : j \in 1..KeySize
  BY <1>2
<1>4. QED
  BY <1>2, <1>3, BoundsAreSeqs

(* A key between the bounds of its own header: h \o id against h \o       *)
(* key.Min and h \o key.Max.                                               *)
LEMMA SameHeaderInside ==
  ASSUME NEW h \in Seq(Nat), NEW id \in Seq(0..255), Len(id) = KeySize
  PROVE  /\ ~LexLess(h \o id, h \o KeyMin) /\ ~LexLess(h \o KeyMax, h \o id)
         /\ id \notin {KeyMin, KeyMax} =>
               LexLess(h \o KeyMin, h \o id) /\ LexLess(h \o id, h \o KeyMax)
<1> DEFINE lo == h \o KeyMin
           hi == h \o KeyMax
           k == h \o id
           L == Len(h)
<1>0. id \in Seq(Nat) /\ \A p \in 1..KeySize : id[p] \in Nat /\ id[p] <= 255
  <2>1. 0..255 \subseteq Nat
    OBVIOUS
  <2>2. id \in Seq(Nat)
    BY <2>1, SeqMonotonic, Zenon
  <2>3. \A p \in 1..Len(id) : id[p] \in 0..255
    BY ElementOfSeq
  <2>4. \A x \in 0..255 : x \in Nat /\ x <= 255
    OBVIOUS
  <2>5. QED
    BY <2>2, <2>3, <2>4, Zenon
<1>1. lo \in Seq(Nat) /\ hi \in Seq(Nat) /\ k \in Seq(Nat)
  BY <1>0 DEF KeyMin, KeyMax
<1>2. Len(lo) = L + KeySize /\ Len(hi) = L + KeySize /\ Len(k) = L + KeySize
  <2>1. Len(lo) = L + KeySize /\ Len(hi) = L + KeySize
    BY BoundConcat
  <2>2. Len(k) = L + Len(id)
    BY <1>0, ConcatFacts, SMTT(30)
  <2>3. QED
    BY <2>1, <2>2
<1>3. \A i \in 1..L : lo[i] = h[i] /\ hi[i] = h[i] /\ k[i] = h[i] /\ h[i] \in Nat
  <2>1. \A i \in 1..L : lo[i] = h[i] /\ hi[i] = h[i]
    BY BoundConcat
  <2>2. \A i \in 1..L : k[i] = h[i]
    BY SMTT(30), <1>0, ConcatFacts
  <2>3. \A i \in 1..L : h[i] \in Nat
    BY ElementOfSeq
  <2>4. QED
    BY <2>1, <2>2, <2>3
<1>4. \A i \in 1..KeySize : lo[L + i] = 0 /\ hi[L + i] = 255 /\ k[L + i] = id[i]
  <2>1. \A i \in 1..KeySize : lo[L + i] = 0 /\ hi[L + i] = 255
    BY BoundConcat
  <2>2. \A i \in 1..Len(id) : k[L + i] = id[i]
    BY <1>0, ConcatFacts
  <2>3. QED
    BY ZenonT(40), <2>1, <2>2
<1> HIDE DEF lo, hi, k
<1>5. \A j \in 1..Len(k) : lo[j] <= k[j] /\ k[j] <= hi[j]
  <2> SUFFICES ASSUME NEW j \in 1..Len(k) PROVE lo[j] <= k[j] /\ k[j] <= hi[j]
    BY Zenon
  <2>1. CASE j <= L
    BY SMTT(30), <1>2, <1>3, <2>1
  <2>2. CASE j > L
    <3>1. PICK p \in 1..KeySize : j = L + p
      <4>1. j - L \in 1..KeySize /\ j = L + (j - L)
        BY <1>2, <2>2
      <4>2. QED
        BY <4>1
    <3>2. lo[j] = 0 /\ hi[j] = 255 /\ k[j] = id[p]
      BY <1>4, <3>1
    <3>3. id[p] \in Nat /\ id[p] <= 255
      BY SMTT(30), <1>0, <3>1
    <3>4. QED
      BY SMTT(30), <3>2, <3>3
  <2>3. QED
    BY SMTT(30), <2>1, <2>2
<1>6. ~LexLess(k, lo) /\ ~LexLess(hi, k)
  BY <1>1, <1>2, <1>5, NotLexLess
<1>7. ASSUME id \notin {KeyMin, KeyMax} PROVE LexLess(lo, k) /\ LexLess(k, hi)
  <2>0. id \in Seq(Nat) /\ id # KeyMin /\ id # KeyMax
    BY <1>0, <1>7, Zenon
  <2>1. PICK m \in 1..KeySize : id[m] # 0 /\ \A j \in 1..(m - 1) : id[j] = 0
    BY <2>0, FirstNotMin, Zenon
  <2>2. PICK n \in 1..KeySize : id[n] # 255 /\ \A j \in 1..(n - 1) : id[j] = 255
    BY <2>0, FirstNotMax, SMTT(30)
  <2>3. LexLess(lo, k)
    <3>1. \A j \in 1..(L + m - 1) : lo[j] = k[j]
      <4> SUFFICES ASSUME NEW j \in 1..(L + m - 1) PROVE lo[j] = k[j]
        BY Zenon
      <4>1. CASE j <= L
        BY SMTT(30), <1>3, <4>1
      <4>2. CASE j > L
        <5>1. PICK p \in 1..(m - 1) : j = L + p
          <6>1. j - L \in 1..(m - 1) /\ j = L + (j - L)
            BY <4>2
          <6>2. QED
            BY <6>1
        <5>2. p \in 1..KeySize /\ id[p] = 0
          BY <2>1, <5>1
        <5>3. QED
          BY SMTT(30), <1>4, <5>1, <5>2
      <4>3. QED
        BY SMTT(30), <4>1, <4>2
    <3>2. lo[L + m] < k[L + m]
      BY SMTT(30), <1>0, <1>4, <2>1
    <3>3. L + m \in 1..Len(lo) /\ L + m <= Len(k)
      BY SMTT(30), <1>2
    <3>4. QED
      BY SMTT(30), <1>1, <3>1, <3>2, <3>3, LexLessAt
  <2>4. LexLess(k, hi)
    <3>1. \A j \in 1..(L + n - 1) : k[j] = hi[j]
      <4> SUFFICES ASSUME NEW j \in 1..(L + n - 1) PROVE k[j] = hi[j]
        BY Zenon
      <4>1. CASE j <= L
        BY SMTT(30), <1>3, <4>1
      <4>2. CASE j > L
        <5>1. PICK p \in 1..(n - 1) : j = L + p
          <6>1. j - L \in 1..(n - 1) /\ j = L + (j - L)
            BY <4>2
          <6>2. QED
            BY <6>1
        <5>2. p \in 1..KeySize /\ id[p] = 255
          BY <2>2, <5>1
        <5>3. QED
          BY SMTT(30), <1>4, <5>1, <5>2
      <4>3. QED
        BY SMTT(30), <4>1, <4>2
    <3>2. k[L + n] < hi[L + n]
      <4>1. id[n] \in Nat /\ id[n] <= 255
        BY SMTT(30), <1>0, <2>2
      <4>2. QED
        BY SMTT(30), <1>4, <2>2, <4>1
    <3>3. L + n \in 1..Len(k) /\ L + n <= Len(hi)
      BY SMTT(30), <1>2
    <3>4. QED
      BY SMTT(30), <1>1, <3>1, <3>2, <3>3, LexLessAt
  <2>5. QED
    BY <2>3, <2>4
<1>8. QED
  BY SMTT(30), <1>6, <1>7 DEF lo, hi, k

(* A key whose header first differs from h1 inside both headers is below *)
(* h1 \o key.Min or above h1 \o key.Max.                                   *)
LEMMA DifferentHeaderOutside ==
  ASSUME NEW h1 \in Seq(Nat), NEW h2 \in Seq(Nat), NEW id \in Seq(Nat),
         NEW d \in 1..Len(h1), d <= Len(h2), h1[d] # h2[d],
         \A j \in 1..(d - 1) : h1[j] = h2[j]
  PROVE  LexLess(h2 \o id, h1 \o KeyMin) \/ LexLess(h1 \o KeyMax, h2 \o id)
<1> DEFINE lo == h1 \o KeyMin
           hi == h1 \o KeyMax
           k == h2 \o id
<1>1. lo \in Seq(Nat) /\ hi \in Seq(Nat) /\ k \in Seq(Nat)
  BY DEF KeyMin, KeyMax
<1>2. d \in 1..Len(k) /\ d <= Len(lo) /\ d \in 1..Len(hi) /\ d <= Len(k)
  <2>1. Len(lo) = Len(h1) + KeySize /\ Len(hi) = Len(h1) + KeySize
    BY BoundConcat
  <2>2. Len(k) = Len(h2) + Len(id)
    BY ConcatFacts
  <2>3. QED
    BY SMTT(30), <2>1, <2>2
<1>3. \A j \in 1..d : lo[j] = h1[j] /\ hi[j] = h1[j] /\ k[j] = h2[j]
  <2>1. \A j \in 1..Len(h1) : lo[j] = h1[j] /\ hi[j] = h1[j]
    BY BoundConcat
  <2>2. \A j \in 1..Len(h2) : k[j] = h2[j]
    BY ConcatFacts
  <2>3. QED
    BY SMTT(30), <2>1, <2>2
<1>4. \A j \in 1..(d - 1) : k[j] = lo[j] /\ hi[j] = k[j]
  BY <1>3
<1> HIDE DEF lo, hi, k
<1>5. h1[d] \in Nat /\ h2[d] \in Nat
  BY SMTT(30), ElementOfSeq
<1>6. CASE h2[d] < h1[d]
  <2>1. k[d] < lo[d]
    BY SMTT(30), <1>3, <1>6
  <2>2. LexLess(k, lo)
    BY SMTT(30), <1>1, <1>2, <1>4, <2>1, LexLessAt
  <2>3. QED
    BY <2>2 DEF lo, hi, k
<1>7. CASE h1[d] < h2[d]
  <2>1. hi[d] < k[d]
    BY SMTT(30), <1>3, <1>7
  <2>2. LexLess(hi, k)
    BY SMTT(30), <1>1, <1>2, <1>4, <2>1, LexLessAt
  <2>3. QED
    BY <2>2 DEF lo, hi, k
<1>8. QED
  BY SMTT(30), <1>5, <1>6, <1>7

(* The ordering of one probe: the bounds FirstMessage(q1), LastMessage(q1) *)
(* enclose the message keys of q1 and of no other dot-free queue, and     *)
(* strictly so for an identifier other than the two sentinels.            *)
LEMMA RangeOfQueue ==
  ASSUME NEW q1 \in DotFree, NEW q2 \in DotFree, NEW id \in Seq(0..255),
         Len(id) = KeySize, id # Nil, Nil \notin Seq(Nat)
  PROVE  LET lo == Bytes(FirstMessage(q1))
             hi == Bytes(LastMessage(q1))
             k  == Bytes(NewQueueKeyForMessage(q2, id))
             inside == ~LexLess(k, lo) /\ ~LexLess(hi, k)
         IN  /\ inside <=> q1 = q2
             /\ q1 = q2 /\ id \notin {KeyMin, KeyMax}
                    => LexLess(lo, k) /\ LexLess(k, hi)
<1>1. q1 \in Seq(Nat) /\ q2 \in Seq(Nat)
  BY DEF DotFree
<1>2. MsgHdr(q1) \in Seq(Nat) /\ MsgHdr(q2) \in Seq(Nat)
  BY SMTT(30), <1>1, MsgHdrFacts
<1>3. id \in Seq(Nat)
  <2>1. 0..255 \subseteq Nat
    OBVIOUS
  <2>2. QED
    BY <2>1, SeqMonotonic, Zenon
<1>4. /\ Bytes(FirstMessage(q1)) = MsgHdr(q1) \o KeyMin
      /\ Bytes(LastMessage(q1)) = MsgHdr(q1) \o KeyMax
      /\ Bytes(NewQueueKeyForMessage(q2, id)) = MsgHdr(q2) \o id
  <2>1. KeyMin \in Seq(Nat) /\ KeyMax \in Seq(Nat)
    BY BoundsAreSeqs
  <2>2. KeyMin # Nil /\ KeyMax # Nil
    BY <2>1
  <2>3. QED
    BY <2>2, BytesLayout DEF FirstMessage, LastMessage
<1>5. CASE q1 = q2
  BY <1>2, <1>4, <1>5, SameHeaderInside
<1>6. CASE q1 # q2
  <2>1. PICK d \in 1..Len(MsgHdr(q1)) :
            /\ d <= Len(MsgHdr(q2))
            /\ MsgHdr(q1)[d] # MsgHdr(q2)[d]
            /\ \A j \in 1..(d - 1) : MsgHdr(q1)[j] = MsgHdr(q2)[j]
    BY SMTT(30), <1>6, HeadersDiffer
  <2>2. \/ LexLess(MsgHdr(q2) \o id, MsgHdr(q1) \o KeyMin)
        \/ LexLess(MsgHdr(q1) \o KeyMax, MsgHdr(q2) \o id)
    BY SMTT(30), <1>2, <1>3, <2>1, DifferentHeaderOutside
  <2>3. QED
    BY SMTT(30), <1>4, <1>6, <2>2
<1>7. QED
  BY SMTT(30), <1>5, <1>6

(* bytes.Compare orders the message keys of a queue between FirstMessage *)
(* and LastMessage, strictly for every identifier but the sentinels, and *)
(* puts no message key of another queue between them (spec 8.2), for     *)
(* every key width, when names are dot-free (spec 3) and a nil key.Key   *)
(* is not a byte string.                                                  *)
THEOREM QueueRangeOrderedHolds ==
  ASSUME Names \subseteq DotFree, Nil \notin Seq(Nat)
  PROVE  Spec => []QueueRangeOrdered
<1>1. Init /\ [Next]_probe => Init'
  BY SMTT(30) DEF Init, Next
<1>2. Init => QueueRangeOrdered
  <2> SUFFICES ASSUME probe \in Probes, probe.kind = "queues"
               PROVE  QueueRangeOrdered
    BY DEF Init, QueueRangeOrdered
  <2>1. probe \in [kind : {"queues"}, q1 : Names, q2 : Names, id : Ids]
    BY DEF Probes
  <2>2. probe.id \in Seq(0..255) /\ Len(probe.id) = KeySize
    BY SMTT(30), <2>1, QueueKeyAssumption
  <2>3. probe.id # Nil
    <3>1. 0..255 \subseteq Nat
      OBVIOUS
    <3>2. probe.id \in Seq(Nat)
      BY ZenonT(40), <2>2, <3>1, SeqMonotonic
    <3>3. QED
      BY SMTT(30), <3>2
  <2>4. probe.q1 \in DotFree /\ probe.q2 \in DotFree
    BY <2>1
  <2>5. Nil \notin Seq(Nat)
    OBVIOUS
  <2>6. QED
    BY SMTT(30), <2>2, <2>3, <2>4, <2>5, RangeOfQueue DEF QueueRangeOrdered
<1>3. QED
  BY <1>1, <1>2, PTL DEF Spec

-----------------------------------------------------------------------------
(* PrefixOf against the community LongestCommonPrefix.                     *)

(* PrefixOf of two byte strings is their longest common prefix: the      *)
(* loop stops at the first differing byte or at the end of the shorter,  *)
(* and no common prefix reaches past that byte.                          *)
LEMMA PrefixOfLCP ==
  ASSUME NEW a \in Seq(Nat), NEW b \in Seq(Nat)
  PROVE  PrefixOf(a, b) = LongestCommonPrefix({a, b})
<1> DEFINE length == IF Len(b) < Len(a) THEN Len(b) ELSE Len(a)
           P(n) == /\ \A i \in 1..n : a[i] = b[i]
                   /\ n = length \/ a[n + 1] # b[n + 1]
           D == {i \in 1..length : a[i] # b[i]}
           CP == CommonPrefixes({a, b})
<1>1. length \in Nat /\ length <= Len(a) /\ length <= Len(b)
  OBVIOUS
<1>2. PICK st \in 0..length : P(st)
  <2>1. CASE D = {}
    <3>1. P(length)
      BY SMTT(30), <2>1
    <3>2. length \in 0..length
      BY <1>1
    <3>3. QED
      BY <3>1, <3>2, Zenon
  <2>2. CASE D # {}
    <3>1. PICK m \in D : \A k \in D : m <= k
      <4>1. D \in SUBSET Nat
        OBVIOUS
      <4>2. QED
        BY <2>2, <4>1, LeastIndex
    <3>2. \A i \in 1..(m - 1) : a[i] = b[i]
      <4> SUFFICES ASSUME NEW i \in 1..(m - 1) PROVE a[i] = b[i]
        BY Zenon
      <4>1. i \in 1..length /\ ~(m <= i)
        BY SMTT(30), <3>1
      <4>2. i \notin D
        BY <3>1, <4>1
      <4>3. QED
        BY SMTT(30), <4>1, <4>2
    <3>3. m - 1 \in 0..length /\ m - 1 + 1 = m /\ a[m] # b[m]
      BY SMTT(30), <3>1
    <3>4. P(m - 1)
      BY SMTT(30), <3>2, <3>3
    <3>5. QED
      BY <3>3, <3>4
  <2>3. QED
    BY <2>1, <2>2
<1>3. ASSUME NEW n \in 0..length, P(n) PROVE n = st
  <2>1. CASE n < st
    <3>1. n + 1 \in 1..st /\ n # length
      BY SMTT(30), <1>1, <2>1
    <3>2. a[n + 1] = b[n + 1]
      BY SMTT(30), <1>2, <3>1
    <3>3. QED
      BY SMTT(30), <1>3, <3>1, <3>2
  <2>2. CASE st < n
    <3>1. st + 1 \in 1..n /\ st # length
      BY SMTT(30), <1>1, <2>2
    <3>2. a[st + 1] = b[st + 1]
      BY SMTT(30), <1>3, <3>1
    <3>3. QED
      BY SMTT(30), <1>2, <3>1, <3>2
  <2>3. QED
    BY SMTT(30), <1>1, <2>1, <2>2
<1>4. PrefixOf(a, b) = SubSeq(a, 1, st)
  <2>1. (CHOOSE n \in 0..length : P(n)) = st
    BY <1>2, <1>3
  <2>2. QED
    BY <2>1 DEF PrefixOf
<1> DEFINE p == SubSeq(a, 1, st)
<1>5. /\ p \in Seq(Nat) /\ Len(p) = st
      /\ \A i \in 1..st : p[i] = a[i] /\ p[i] = b[i]
  BY SMTT(30), <1>1, <1>2
<1>6. p \in CP
  <2>1. p \in Prefixes(a)
    BY SMTT(30), <1>1 DEF Prefixes
  <2>2. IsPrefix(p, a) /\ IsPrefix(p, b)
    <3>1. Len(p) <= Len(a) /\ Len(p) <= Len(b)
      BY <1>1, <1>5
    <3>2. \A i \in 1..Len(p) : p[i] = a[i] /\ p[i] = b[i]
      BY SMTT(30), <1>5
    <3>3. QED
      BY <1>5, <3>1, <3>2, PrefixElems
  <2>3. QED
    BY SMTT(30), <2>1, <2>2 DEF CommonPrefixes
<1>7. ASSUME NEW o \in CP
      PROVE  o \in Seq(Nat) /\ Len(o) <= st /\ (Len(o) = st => o = p)
  <2>1. o \in Seq(Nat)
    <3>1. PICK s \in {a, b} : o \in Prefixes(s)
      BY DEF CommonPrefixes
    <3>2. PICK l \in 0..Len(s) : o = SubSeq(s, 1, l)
      BY SMTT(30), <3>1 DEF Prefixes
    <3>3. QED
      BY SMTT(30), <3>2
  <2>2. IsPrefix(o, a) /\ IsPrefix(o, b)
    BY DEF CommonPrefixes
  <2>3. /\ Len(o) <= Len(a) /\ Len(o) <= Len(b)
        /\ \A i \in 1..Len(o) : o[i] = a[i] /\ o[i] = b[i]
    BY SMTT(30), <2>1, <2>2, PrefixElems
  <2>4. Len(o) <= st
    <3> SUFFICES ASSUME st < Len(o) PROVE FALSE
      BY SMTT(30), <2>1
    <3>1. st # length /\ st + 1 \in 1..Len(o)
      BY SMTT(30), <1>1, <2>1, <2>3
    <3>2. a[st + 1] # b[st + 1]
      BY SMTT(30), <1>2, <3>1
    <3>3. QED
      BY SMTT(30), <2>3, <3>1, <3>2
  <2>5. Len(o) = st => o = p
    BY SMTT(30), <1>5, <2>1, <2>3, SeqEqual
  <2>6. QED
    BY SMTT(30), <2>1, <2>4, <2>5
<1>8. LongestCommonPrefix({a, b}) = p
  <2> DEFINE c == CHOOSE x \in CP : \A y \in CP : Len(y) <= Len(x)
  <2>1. \E x \in CP : \A y \in CP : Len(y) <= Len(x)
    BY <1>5, <1>6, <1>7
  <2>2. c \in CP /\ \A y \in CP : Len(y) <= Len(c)
    BY <2>1
  <2>3. Len(c) = st
    <3>1. Len(c) <= st
      BY <1>7, <2>2
    <3>2. st <= Len(c)
      BY <1>5, <1>6, <2>2
    <3>3. c \in Seq(Nat)
      <4> HIDE DEF c
      <4>1. QED
        BY <1>7, <2>2
    <3>4. QED
      BY <3>1, <3>2, <3>3
  <2>4. c = p
    BY <1>7, <2>2, <2>3
  <2>5. QED
    BY <2>4 DEF LongestCommonPrefix
<1>9. QED
  BY ZenonT(40), <1>4, <1>8

(* PrefixOf, the loop of key.go that breaks at the first difference,     *)
(* returns the longest common prefix of its two arguments (spec 4.2), for *)
(* all byte strings.                                                      *)
THEOREM PrefixOfIsLCPHolds ==
  ASSUME Strs \subseteq Seq(Nat)
  PROVE  Spec => []PrefixOfIsLCP
<1>1. Init /\ [Next]_probe => Init'
  BY DEF Init, Next
<1>2. Init => PrefixOfIsLCP
  <2> SUFFICES ASSUME probe \in Probes, probe.kind = "prefix"
               PROVE  PrefixOfIsLCP
    BY DEF Init, PrefixOfIsLCP
  <2>1. probe \in [kind : {"prefix"}, a : Strs, b : Strs]
    BY DEF Probes
  <2>2. probe.a \in Seq(Nat) /\ probe.b \in Seq(Nat)
    BY <2>1
  <2>3. QED
    BY SMTT(30), <2>2, PrefixOfLCP DEF PrefixOfIsLCP
<1>3. QED
  BY <1>1, <1>2, PTL DEF Spec

=============================================================================
