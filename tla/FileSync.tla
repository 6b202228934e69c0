------------------------------ MODULE FileSync ------------------------------
(***************************************************************************)
(* The versions of the files in one sync root, registered by the root's    *)
(* device from a base version. A registration reads the file's head, takes *)
(* the time and decides on a conflict, inserts the version and records it: *)
(* each await of a query is a step of the interleaving.                    *)
(***************************************************************************)
EXTENDS Naturals, FiniteSets

CONSTANTS
  Path,         \* relative paths of the root's files
  Requests,     \* registrations served at once
  Adapter,      \* "memory" or "postgres"
  MaxVersions,  \* bound on the versions registered
  MaxNow,       \* bound on the clock, in milliseconds
  MaxFaults     \* bound on failing queries

Version == 1..MaxVersions
None == 0

ASSUME BoundsAssumption ==
  MaxVersions \in Nat /\ MaxNow \in Nat /\ MaxFaults \in Nat
ASSUME RequestsAssumption == IsFiniteSet(Requests)
ASSUME AdapterAssumption ==
  Adapter \in {"memory", "postgres"} /\ (Adapter = "memory" => MaxFaults = 0)

VARIABLES
  row,    \* file_versions, by id in the order the ids are drawn
  h,      \* the registrations: where each stands and what it holds
  now,    \* the clock
  audit,  \* the recorded events: version and kind
  faults

vars == <<row, h, now, audit, faults>>

(* A row, and a handler with the row it makes. `known` is a history        *)
(* variable: the file's versions stored when the head was read.            *)
Fields ==
  [path : Path, base : Version \union {None}, deleted : BOOLEAN,
   conflict : BOOLEAN, at : 0..MaxNow, known : SUBSET Version]
Absent == [at |-> "absent"]
Kind == {"sync.conflict_created", "sync.tombstone_created", "sync.version_created"}
Handler ==
  [pc : {"head", "stamp", "insert", "record"}, id : Version \union {None},
   head : Version \union {None}, version : Fields]
Idle == [pc |-> "idle"]

Stored == {v \in Version : row[v] /= Absent}
Of(p) == {v \in Stored : row[v].path = p}

Init ==
  /\ row = [v \in Version |-> Absent]
  /\ h = [t \in Requests |-> Idle]
  /\ now = 0 /\ audit = {} /\ faults = 0

-----------------------------------------------------------------------------
(* With the memory adapter a handler runs to its end before another moves. *)
Turn(t) == Adapter = "memory" => \A u \in Requests \ {t} : h[u] = Idle
At(t, pc) == h[t].pc = pc /\ Turn(t)
Goto(t, pc, id, head, version) ==
  h' = [h EXCEPT ![t] = [pc |-> pc, id |-> id, head |-> head, version |-> version]]

Unstored == {t \in Requests : h[t].pc \in {"head", "stamp", "insert"}}

(* registerVersion, for a root and a device that pass its checks, from no  *)
(* version or from one the device knows of; one of another file, if the    *)
(* file was moved. (A definition Name_Fault is Name with a fault seeded in *)
(* it, for TLC to find.)                                                   *)
RegisterVersion(t) ==
  /\ At(t, "idle") /\ Cardinality(Stored) + Cardinality(Unstored) < MaxVersions
  /\ \E p \in Path, deleted \in BOOLEAN : \E base \in Stored \union {None} :
       Goto(t, "head", None, None,
            [path |-> p, base |-> base, deleted |-> deleted,
             conflict |-> FALSE, at |-> 0, known |-> {}])
  /\ UNCHANGED <<row, now, audit, faults>>

(* getSyncHead: the newest version of the file by createdAt. Of several    *)
(* from one millisecond the memory store's stable sort takes the first,    *)
(* Postgres any.                                                           *)
Newest_Oldest(S) == {v \in S : \A w \in S : row[v].at <= row[w].at}
Newest(S) == {v \in S : \A w \in S : row[w].at <= row[v].at}
First(S) == {v \in S : \A w \in S : v <= w}
Heads_OfRoot(p) == Newest(Stored)
Heads(p) == IF Adapter = "memory" THEN First(Newest(Of(p))) ELSE Newest(Of(p))

ReadHead(t) ==
  LET heads == Heads(h[t].version.path)
  IN  /\ At(t, "head")
      /\ \E head \in IF heads = {} THEN {None} ELSE heads :
           Goto(t, "stamp", None, head,
                [h[t].version EXCEPT !.known = Of(h[t].version.path)])
      /\ UNCHANGED <<row, now, audit, faults>>

(* The conflict flag: there is a head, and it is not the base.             *)
Conflict_NoBase(head, base) == head /= None /\ base = None
Conflict(head, base) == head /= None /\ head /= base

(* With the flag the version gets a fresh id and its createdAt.            *)
Drawn == Stored \union {h[t].id : t \in {u \in Requests : h[u].pc = "insert"}}
Stamp(t) ==
  /\ At(t, "stamp")
  /\ \E id \in First(Version \ Drawn) :
       Goto(t, "insert", id, None,
            [h[t].version EXCEPT !.at = now,
                                 !.conflict = Conflict(h[t].head, h[t].version.base)])
  /\ UNCHANGED <<row, now, audit, faults>>

CreateSyncVersion(t) ==
  /\ At(t, "insert")
  /\ row' = [row EXCEPT ![h[t].id] = h[t].version]
  /\ Goto(t, "record", h[t].id, None, h[t].version)
  /\ UNCHANGED <<now, audit, faults>>

(* audit.record, then the answer, with an upload address unless deleted.   *)
EventOf_DeletedFirst(v) ==
  IF v.deleted THEN "sync.tombstone_created"
  ELSE IF v.conflict THEN "sync.conflict_created" ELSE "sync.version_created"
EventOf(v) ==
  IF v.conflict THEN "sync.conflict_created"
  ELSE IF v.deleted THEN "sync.tombstone_created" ELSE "sync.version_created"

RecordVersion(t) ==
  /\ At(t, "record")
  /\ audit' = audit \union {<<h[t].id, EventOf(h[t].version)>>}
  /\ h' = [h EXCEPT ![t] = Idle]
  /\ UNCHANGED <<row, now, faults>>

(* A query fails: the request is answered with an error.                   *)
QueryError(t) ==
  /\ faults < MaxFaults /\ faults' = faults + 1
  /\ h[t] /= Idle
  /\ h' = [h EXCEPT ![t] = Idle]
  /\ UNCHANGED <<row, now, audit>>

Tick ==
  /\ now < MaxNow /\ now' = now + 1
  /\ UNCHANGED <<row, h, audit, faults>>

Next ==
  \/ Tick
  \/ \E t \in Requests :
       \/ RegisterVersion(t) \/ ReadHead(t) \/ Stamp(t)
       \/ CreateSyncVersion(t) \/ RecordVersion(t) \/ QueryError(t)

Spec == Init /\ [][Next]_vars

-----------------------------------------------------------------------------
(* A handler's head is a version of its file, and its version is stored    *)
(* once it is recorded.                                                    *)
HandlerOK(x) ==
  x = Idle \/ /\ x \in Handler
              /\ x.head \in Of(x.version.path) \union {None}
              /\ x.version.base \in Stored \union {None}
              /\ x.pc = "insert" => x.id \notin Stored \union {None}
              /\ x.pc = "record" => x.id \in Stored /\ row[x.id] = x.version

(* Rows, handlers and the log hold values of their types.                  *)
TypeOK ==
  /\ row \in [Version -> Fields \union {Absent}]
  /\ \A v \in Stored : row[v].base \in Stored \union {None}
  /\ DOMAIN h = Requests /\ \A t \in Requests : HandlerOK(h[t])
  /\ now \in 0..MaxNow /\ faults \in 0..MaxFaults
  /\ audit \subseteq Stored \X Kind

Siblings(v, w) ==
  v /= w /\ row[v].path = row[w].path /\ row[v].base = row[w].base

(* Of two versions of a file made from one base at least one is flagged,   *)
(* if the later read the head after the earlier was stored and the earlier *)
(* was not made in the very millisecond of the base.                       *)
BranchesAreFlagged ==
  \A v, w \in Stored :
    Siblings(v, w) /\ v \in row[w].known /\ ~row[v].conflict /\ ~row[w].conflict
      => row[v].base \in Stored /\ row[v].at = row[row[v].base].at

(* A flagged version really has a rival: one of its file that is not its   *)
(* base, no older than it, and was stored when the head was read.          *)
ConflictIsReal ==
  \A v \in Stored : row[v].conflict =>
    \E u \in Of(row[v].path) \ {row[v].base} :
      /\ u \in row[v].known
      /\ row[v].base \in Of(row[v].path) => row[row[v].base].at <= row[u].at

(* A reader of the log finds every branch: each flagged version, deletions *)
(* included, is recorded as a conflict, but for those a failed query or a  *)
(* handler under way leaves unrecorded.                                    *)
Unrecorded ==
  {v \in Stored : row[v].conflict /\ <<v, "sync.conflict_created">> \notin audit}
BranchesAreLogged ==
  LET under_way == {t \in Requests : h[t].pc = "record"}
  IN  Cardinality(Unrecorded) <= faults + Cardinality(under_way)

(* What the code is for, and interleaving breaks: of two versions from one *)
(* base at least one is flagged (or one was made in the base's very        *)
(* millisecond, which the order by createdAt cannot tell apart).           *)
BothBranchesFlagged ==
  \A v, w \in Stored : Siblings(v, w) /\ ~row[v].conflict /\ ~row[w].conflict =>
    LET base == row[v].base
    IN  base \in Stored /\ row[base].at \in {row[v].at, row[w].at}

(* No two registrations of one file are both between reading its head and  *)
(* storing their version: what a lock on the file would ensure.            *)
Serialized ==
  \A t, u \in Requests :
    /\ t /= u
    /\ h[t].pc \in {"stamp", "insert"} /\ h[u].pc \in {"stamp", "insert"}
    => h[t].version.path /= h[u].version.path
=============================================================================
