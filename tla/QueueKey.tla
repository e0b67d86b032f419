------------------------------ MODULE QueueKey ------------------------------
(***************************************************************************)
(* The queue keys of src/internal/queue/key.go and the ingress key built   *)
(* by processIngressMessage.  Keys are byte strings: sequences of byte     *)
(* codes, with the real codes of '.', '_', 'q', 'm' and 's' so that the    *)
(* lexicographic order of bytes.Compare is the order of the model.  The    *)
(* functions are pure; the specification at the end only enumerates       *)
(* their inputs (one probe per state) so that TLC checks every property    *)
(* on every input of the bounded sets.                                     *)
(***************************************************************************)
EXTENDS Naturals, Sequences, FiniteSets, SequencesExt

CONSTANTS
    KeySize,    \* key.Size, the width of a message identifier
    Names,      \* queue names
    Ids,        \* key.Key values (raw identifier bytes)
    Props,      \* state property names
    Subjects,   \* original_subject values of incoming envelopes
    KsuidStrs,  \* ksuid.String() values (base62 text)
    Strs,       \* byte strings given to PrefixOf
    Nil,        \* a nil key.Key
    Panic       \* the outcome of a failed debug.Assert or a bad index

ASSUME QueueKeyAssumption ==
    /\ KeySize \in Nat \ {0}
    /\ Ids \subseteq Seq(0..255)
    /\ \A k \in Ids : Len(k) = KeySize

-----------------------------------------------------------------------------
(* The constants of key.go, as bytes.                                      *)
Sep == 46                               \* "."
QueuesNamespace == <<95, 113>>          \* "_q"
MessagesBucket == <<95, 109>>           \* "_m"
StateBucket == <<95, 115>>              \* "_s"
CheckpointProperty == <<99, 104, 101, 99, 107, 112, 111, 105, 110, 116>>

(* key.Min and key.Max: all zero bytes and all one bits.                   *)
KeyMin == [i \in 1..KeySize |-> 0]
KeyMax == [i \in 1..KeySize |-> 255]

NewQueueKeyForMessage(queue, key) ==
    [Namespace |-> QueuesNamespace, Bucket |-> MessagesBucket,
     Name |-> queue, Property |-> <<>>, Key |-> key]

NewQueueKeyForState(queue, property) ==
    [Namespace |-> QueuesNamespace, Bucket |-> StateBucket,
     Name |-> queue, Property |-> property, Key |-> Nil]

IsKey(q) == q.Key # Nil

(* Mutant of Bytes: the separator between name and suffix is not copied.   *)
BytesNoNameSep(q) ==
    q.Namespace \o <<Sep>> \o q.Bucket \o <<Sep>> \o q.Name
        \o (IF IsKey(q) THEN q.Key ELSE q.Property)

(* Namespace, bucket, name and suffix (Key, or Property when there is no  *)
(* Key), joined by the separator.                                          *)
Bytes(q) ==
    q.Namespace \o <<Sep>> \o q.Bucket \o <<Sep>> \o q.Name \o <<Sep>>
        \o (IF IsKey(q) THEN q.Key ELSE q.Property)

(* bytes.Split(k, "."): the pieces between consecutive separators, n + 1   *)
(* of them for n separators, empty pieces included.                        *)
Split(k) ==
    LET cuts == {0, Len(k) + 1} \cup {i \in 1..Len(k) : k[i] = Sep}
        cut(j) == CHOOSE c \in cuts : Cardinality({d \in cuts : d < c}) = j
    IN  [j \in 1..Cardinality(cuts) - 1 |-> SubSeq(k, cut(j - 1) + 1, cut(j) - 1)]

(* ParseQueueKey as the set of its outcomes.  A debug build panics in a   *)
(* failed debug.Assert; a release build ignores the asserts, but line 66  *)
(* indexes spl[3] in the assert's own arguments, so fewer than four        *)
(* segments panic in every build.  The suffix always becomes the Key.     *)
ParseQueueKey(k) ==
    LET spl == Split(k)
        parsed == [Namespace |-> spl[1], Bucket |-> spl[2], Name |-> spl[3],
                   Property |-> <<>>, Key |-> spl[4]]
    IN  IF Len(spl) < 4 THEN {Panic}
        ELSE IF Len(spl) = 4 /\ Len(spl[4]) = KeySize THEN {parsed}
        ELSE {Panic, parsed}

(* Mutant of PrefixOf: the loop does not break at the first difference,   *)
(* it collects every position where the two keys agree.                    *)
PrefixOfNoBreak(seek, until) ==
    LET length == IF Len(until) < Len(seek) THEN Len(until) ELSE Len(seek)
        same == SelectSeq([i \in 1..length |-> i], LAMBDA i : seek[i] = until[i])
    IN  [j \in DOMAIN same |-> seek[same[j]]]

(* PrefixOf: the bytes of seek up to the first position where the keys   *)
(* differ or the shorter one ends.                                         *)
PrefixOf(seek, until) ==
    LET length == IF Len(until) < Len(seek) THEN Len(until) ELSE Len(seek)
        stop == CHOOSE n \in 0..length :
                    /\ \A i \in 1..n : seek[i] = until[i]
                    /\ n = length \/ seek[n + 1] # until[n + 1]
    IN  SubSeq(seek, 1, stop)

(* Mutant of LastMessage: the upper bound built from key.Min.             *)
LastMessageMin(queue) == NewQueueKeyForMessage(queue, KeyMin)

FirstMessage(queue) == NewQueueKeyForMessage(queue, KeyMin)

LastMessage(queue) == NewQueueKeyForMessage(queue, KeyMax)

(* processIngressMessage's key: original_subject "." ksuid.String().      *)
IngressKey(subject, ksid) == subject \o <<Sep>> \o ksid

(* bytes.Compare(a, b) < 0.                                                *)
LexLess(a, b) ==
    \/ IsStrictPrefix(a, b)
    \/ \E i \in 1..Len(a) :
          /\ i <= Len(b)
          /\ SubSeq(a, 1, i - 1) = SubSeq(b, 1, i - 1)
          /\ a[i] < b[i]

-----------------------------------------------------------------------------
(* The inputs.  Each state is one probe of the operators above.            *)
Probes ==
    [kind : {"queues"}, q1 : Names, q2 : Names, id : Ids]
    \cup [kind : {"state"}, q : Names, prop : Props]
    \cup [kind : {"ingress"}, subject : Subjects, ksid : KsuidStrs]
    \cup [kind : {"prefix"}, a : Strs, b : Strs]

VARIABLE probe

Init == probe \in Probes

Next == UNCHANGED probe

Spec == Init /\ [][Next]_probe

-----------------------------------------------------------------------------
(* PrefixOf returns the longest common prefix of its two arguments (spec  *)
(* 4.2), compared with the declarative LongestCommonPrefix; the loop's     *)
(* early break is what makes them agree.                                   *)
PrefixOfIsLCP ==
    probe.kind = "prefix" =>
        PrefixOf(probe.a, probe.b) = LongestCommonPrefix({probe.a, probe.b})

(* The scan prefix a reader derives for queue q1, PrefixOf of the bytes of *)
(* FirstMessage and LastMessage, selects exactly q1's message keys: it is  *)
(* a prefix of a message key of q2 iff q2 = q1, and of no state key.  This *)
(* rests on the separator Bytes puts after the name.                       *)
ScanPrefixSelectsQueue ==
    probe.kind = "queues" =>
        LET p == PrefixOf(Bytes(FirstMessage(probe.q1)),
                          Bytes(LastMessage(probe.q1)))
        IN  /\ IsPrefix(p, Bytes(NewQueueKeyForMessage(probe.q2, probe.id)))
                   <=> probe.q1 = probe.q2
            /\ \A pr \in Props :
                   ~IsPrefix(p, Bytes(NewQueueKeyForState(probe.q2, pr)))

(* Spec 8.2: FirstMessage(Q) < NewForMessage(Q, k) < LastMessage(Q) in    *)
(* byte order, for every identifier other than the two sentinels, and no  *)
(* message key of another queue falls between the bounds of Q.            *)
QueueRangeOrdered ==
    probe.kind = "queues" =>
        LET lo == Bytes(FirstMessage(probe.q1))
            hi == Bytes(LastMessage(probe.q1))
            k  == Bytes(NewQueueKeyForMessage(probe.q2, probe.id))
            inside == ~LexLess(k, lo) /\ ~LexLess(hi, k)
        IN  /\ inside <=> probe.q1 = probe.q2
            /\ probe.q1 = probe.q2 /\ probe.id \notin {KeyMin, KeyMax}
                   => LexLess(lo, k) /\ LexLess(k, hi)

(* Spec 8.2: a message key parses back into the QueueKey it was built     *)
(* from.  Identifiers are raw bytes, and Split cuts at every '.' byte.     *)
MessageKeyRoundTrip ==
    probe.kind = "queues" =>
        LET q == NewQueueKeyForMessage(probe.q1, probe.id)
        IN  ParseQueueKey(Bytes(q)) = {q}

(* Spec 4.2: Parse fails loudly only on a message key whose identifier    *)
(* has the wrong width, so a state key (the replay checkpoint) parses     *)
(* back into itself.                                                       *)
StateKeyRoundTrip ==
    probe.kind = "state" =>
        LET q == NewQueueKeyForState(probe.q, probe.prop)
        IN  ParseQueueKey(Bytes(q)) = {q}

(* Spec 3, invariant 1: every stored message key parses into four          *)
(* segments with a fixed-width identifier; processIngressMessage stores    *)
(* under original_subject "." ksuid.String().                               *)
IngressKeyParses ==
    probe.kind = "ingress" =>
        Panic \notin ParseQueueKey(IngressKey(probe.subject, probe.ksid))

=============================================================================
