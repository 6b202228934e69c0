----------------------------- MODULE ResultCache -----------------------------
(***************************************************************************)
(* cacheResult of apps/client/src/executor.ts: the results an executor     *)
(* keeps in local storage, as the order of their commands in the object it *)
(* stores. NativeExecutor and ExecutorSystem share it.                     *)
(***************************************************************************)
EXTENDS Naturals, Sequences, FiniteSets

EntriesOf(s) == {s[i] : i \in DOMAIN s}

(* slice(-limit): the last entries are kept. (Name_Fault, as elsewhere, is *)
(* Name with a fault seeded in it, for TLC to find.)                       *)
Trimmed_FirstEntries(s, limit) == IF Len(s) > limit THEN SubSeq(s, 1, limit) ELSE s
Trimmed_OneMore(s, limit) ==
  IF Len(s) > limit + 1 THEN SubSeq(s, Len(s) - limit, Len(s)) ELSE s
Trimmed(s, limit) == IF Len(s) > limit THEN SubSeq(s, Len(s) - limit + 1, Len(s)) ELSE s

(* An entry keeps its place when its result is stored again.               *)
WithEntry(s, c, limit) == IF c \in EntriesOf(s) THEN s ELSE Trimmed(Append(s, c), limit)

(* History: what entered the cache after each command did, once c is       *)
(* stored.                                                                 *)
NewerWith(newer, s, c) ==
  IF c \in EntriesOf(s) THEN newer
  ELSE [d \in DOMAIN newer |-> IF d = c THEN {} ELSE newer[d] \union {c}]
=============================================================================
