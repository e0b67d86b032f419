----------------------------- MODULE MCQueueKey -----------------------------
(* Small alphabets for the key functions: queue names "a", "b", "aa",     *)
(* "ab" (so that one name is a prefix of another), two-byte identifiers    *)
(* over {0x00, '.', 'a', 0xFF}, the checkpoint property, subjects with 0,  *)
(* 1 and 2 dots, and PrefixOf arguments of up to two bytes.                *)
EXTENDS QueueKey, TLC

MCKeySize == 2
MCNames == {<<97>>, <<98>>, <<97, 97>>, <<97, 98>>}
MCIds == [1..MCKeySize -> {0, 46, 97, 255}]
MCProps == {CheckpointProperty}
MCSubjects == {<<97>>, <<97, 46, 98>>, <<97, 46, 97, 46, 98>>}
\* ksuid.String() is wider than key.Size (27 against 20 bytes)
MCKsuidStrs == {<<48, 97, 48>>, <<97, 97, 97>>}
MCStrs == UNION {[1..n -> {0, 46, 97}] : n \in 0..2}
=============================================================================
