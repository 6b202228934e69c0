--------------------------- MODULE FileSyncProofs ---------------------------
(***************************************************************************)
(* Theorems about FileSync: its types, and which branches it flags.        *)
(***************************************************************************)
EXTENDS FileSync, WellFoundedInduction, FiniteSetTheorems, TLAPS

(* Ids are drawn once.                                                     *)
DistinctIds ==
  \A t, u \in Requests :
    h[t].pc = "insert" /\ h[u].pc = "insert" /\ h[t].id = h[u].id => t = u

(* What a version knows: versions of its file, its base among them if that *)
(* is one of the file. Its base is the newest it knows if it is unflagged. *)
KnowsFile(x) ==
  /\ x.known \subseteq Of(x.path)
  /\ x.base \in Of(x.path) => x.base \in x.known
Leads(b, S) == b \in S /\ \A u \in S : row[u].at <= row[b].at
Later(x) == \A u \in x.known : row[u].at <= x.at
Decided(x) ==
  IF x.conflict
  THEN \E u \in x.known : u /= x.base /\ Leads(u, x.known)
  ELSE x.known = {} \/ Leads(x.base, x.known)
Good(x) == KnowsFile(x) /\ Later(x) /\ Decided(x) /\ x.at <= now

GoodHandler(x) ==
  /\ x.pc = "stamp" =>
       /\ KnowsFile(x.version)
       /\ IF x.head = None THEN x.version.known = {} ELSE Leads(x.head, x.version.known)
  /\ x.pc = "insert" => Good(x.version)

SyncInv ==
  /\ TypeOK /\ DistinctIds
  /\ \A v \in Stored : Good(row[v])
  /\ \A t \in Requests : GoodHandler(h[t])

-----------------------------------------------------------------------------
LEMMA NoneIsNoVersion == None \notin Version
BY BoundsAssumption DEF None, Version

LEMMA FieldsArePresent == ASSUME NEW x \in Fields PROVE x /= Absent
BY DEF Fields, Absent

LEMMA RowsAreFields == ASSUME TypeOK, NEW v \in Stored PROVE v \in Version /\ row[v] \in Fields
BY DEF TypeOK, Stored

(* The invariant is what the two properties need.                          *)
LEMMA UnflaggedBranches == SyncInv => BranchesAreFlagged
<1> SUFFICES ASSUME SyncInv, NEW v \in Stored, NEW w \in Stored, Siblings(v, w),
                    v \in row[w].known, ~row[v].conflict, ~row[w].conflict
             PROVE  row[v].base \in Stored /\ row[v].at = row[row[v].base].at
  BY DEF BranchesAreFlagged
<1> DEFINE b == row[w].base
<1>1. b = row[v].base /\ row[v].path = row[w].path
  BY DEF Siblings
<1>2. Leads(b, row[w].known)
  BY DEF SyncInv, Good, Decided
<1>3. b \in Of(row[w].path) /\ b \in Stored /\ row[v].at <= row[b].at
  BY <1>2 DEF SyncInv, Good, KnowsFile, Leads, Of
<1>4. b \in row[v].known
  BY <1>1, <1>3 DEF SyncInv, Good, KnowsFile
<1>5. row[b].at <= row[v].at
  BY <1>4 DEF SyncInv, Good, Later
<1>6. row[b].at \in Nat /\ row[v].at \in Nat
  BY <1>3, RowsAreFields, BoundsAssumption DEF SyncInv, Fields
<1> QED
  BY <1>1, <1>3, <1>5, <1>6

LEMMA FlaggedBranches == SyncInv => ConflictIsReal
<1> SUFFICES ASSUME SyncInv, NEW v \in Stored, row[v].conflict
             PROVE  \E u \in Of(row[v].path) \ {row[v].base} :
                      /\ u \in row[v].known
                      /\ row[v].base \in Of(row[v].path) => row[row[v].base].at <= row[u].at
  BY DEF ConflictIsReal
<1>1. PICK u \in row[v].known : u /= row[v].base /\ Leads(u, row[v].known)
  BY DEF SyncInv, Good, Decided
<1>2. /\ row[v].known \subseteq Of(row[v].path)
      /\ row[v].base \in Of(row[v].path) => row[v].base \in row[v].known
  BY DEF SyncInv, Good, KnowsFile
<1> QED
  BY <1>1, <1>2 DEF Leads

-----------------------------------------------------------------------------
LEMMA SyncInit == Init => SyncInv
<1> SUFFICES ASSUME Init PROVE SyncInv
  OBVIOUS
<1>1. Stored = {}
  BY DEF Init, Stored
<1>2. \A t \in Requests : h[t] = Idle /\ h[t].pc = "idle"
  BY DEF Init, Idle
<1>3. TypeOK
  BY <1>1, <1>2, BoundsAssumption DEF Init, TypeOK, HandlerOK
<1> QED
  BY <1>1, <1>2, <1>3 DEF SyncInv, DistinctIds, GoodHandler

(* A step of one handler that leaves the table and the clock.              *)
LEMMA HandlerStep ==
  ASSUME SyncInv, NEW t \in Requests, NEW x, h' = [h EXCEPT ![t] = x],
         UNCHANGED <<row, now>>, HandlerOK(x), GoodHandler(x),
         \A u \in Requests \ {t} :
           x.pc = "insert" /\ h[u].pc = "insert" => h[u].id /= x.id,
         audit' \subseteq Stored \X Kind, faults' \in 0..MaxFaults
  PROVE  SyncInv'
<1>1. /\ DOMAIN h' = Requests
      /\ \A u \in Requests : h'[u] = IF u = t THEN x ELSE h[u]
  BY DEF SyncInv, TypeOK
<1>2. /\ Stored' = Stored /\ \A p : Of(p)' = Of(p)
  BY DEF Stored, Of
<1>3. \A y : HandlerOK(y) => HandlerOK(y)'
  BY <1>2 DEF HandlerOK
<1>4. \A y : Good(y)' <=> Good(y)
  BY <1>2 DEF Good, KnowsFile, Later, Decided, Leads
<1>5. \A y : GoodHandler(y) => GoodHandler(y)'
  BY <1>2, <1>4 DEF GoodHandler, KnowsFile, Leads
<1>6. TypeOK'
  BY <1>1, <1>2, <1>3 DEF SyncInv, TypeOK
<1>7. DistinctIds'
  BY <1>1 DEF SyncInv, DistinctIds
<1>8. \A v \in Stored' : Good(row[v])'
  BY <1>2, <1>4 DEF SyncInv
<1>9. \A u \in Requests : GoodHandler(h[u])'
  BY <1>1, <1>5 DEF SyncInv
<1> QED
  BY <1>6, <1>7, <1>8, <1>9 DEF SyncInv

(* The handlers' fields, out of TypeOK.                                    *)
LEMMA HandlerFields ==
  ASSUME SyncInv, NEW t \in Requests, h[t].pc /= "idle"
  PROVE  /\ h[t] \in Handler /\ HandlerOK(h[t]) /\ GoodHandler(h[t])
         /\ h[t].version \in Fields
         /\ h[t].version.base \in Stored \union {None}
<1>1. HandlerOK(h[t]) /\ GoodHandler(h[t])
  BY DEF SyncInv, TypeOK
<1>2. h[t] /= Idle
  BY DEF Idle
<1>3. h[t] \in Handler /\ h[t].version.base \in Stored \union {None}
  BY <1>1, <1>2 DEF HandlerOK
<1> QED
  BY <1>1, <1>3 DEF Handler

LEMMA RegisterStep ==
  ASSUME SyncInv, NEW t \in Requests, RegisterVersion(t)
  PROVE  SyncInv'
<1>1. PICK p \in Path, deleted \in BOOLEAN, base \in Stored \union {None} :
        Goto(t, "head", None, None,
             [path |-> p, base |-> base, deleted |-> deleted,
              conflict |-> FALSE, at |-> 0, known |-> {}])
  BY DEF RegisterVersion
<1> DEFINE y == [path |-> p, base |-> base, deleted |-> deleted,
                 conflict |-> FALSE, at |-> 0, known |-> {}]
           x == [pc |-> "head", id |-> None, head |-> None, version |-> y]
<1>2. y \in Fields
  BY BoundsAssumption DEF Fields, Stored
<1>3. x \in Handler
  BY <1>2 DEF Handler
<1>4. HandlerOK(x) /\ GoodHandler(x)
  BY <1>3 DEF HandlerOK, GoodHandler
<1>5. /\ h' = [h EXCEPT ![t] = x]
      /\ UNCHANGED <<row, now, audit, faults>>
  BY <1>1 DEF Goto, RegisterVersion
<1> HIDE DEF x
<1>6. x.pc = "head"
  BY DEF x
<1> QED
  BY <1>4, <1>5, <1>6, HandlerStep DEF SyncInv, TypeOK

(* A head leads the file's versions; there is none only of no versions.    *)
LEMMA HeadsLead ==
  ASSUME NEW p, NEW head \in Heads(p)
  PROVE  Leads(head, Of(p))
BY DEF Heads, Newest, First, Leads

LEMMA LeastOf ==
  ASSUME NEW T, T \subseteq Nat, T /= {}
  PROVE  \E x \in T : \A y \in T : x <= y
<1>1. PICK x \in T : \A y \in T : <<y, x>> \notin OpToRel(<, Nat)
  BY NatLessThanWellFounded, WFMin
<1>2. \A y \in T : ~(y < x)
  BY <1>1 DEF OpToRel
<1> QED
  BY <1>2

LEMMA NewestExists ==
  ASSUME SyncInv, NEW S \in SUBSET Stored, S /= {}
  PROVE  Newest(S) /= {}
<1> DEFINE ages == {MaxNow - row[v].at : v \in S}
<1>1. \A v \in S : row[v].at \in 0..MaxNow
  BY RowsAreFields DEF SyncInv, Fields
<1>2. ages \subseteq Nat /\ ages /= {}
  BY <1>1, BoundsAssumption
<1>3. PICK least \in ages : \A a \in ages : least <= a
  <2> HIDE DEF ages
  <2> QED
    BY <1>2, LeastOf
<1>4. PICK v \in S : least = MaxNow - row[v].at
  OBVIOUS
<1>5. ASSUME NEW w \in S PROVE row[w].at <= row[v].at
  <2>1. MaxNow - row[v].at <= MaxNow - row[w].at
    BY <1>3, <1>4
  <2> QED
    BY <1>1, <2>1, BoundsAssumption
<1> QED
  BY <1>5 DEF Newest

LEMMA HeadExists ==
  ASSUME SyncInv, NEW p, Of(p) /= {}
  PROVE  Heads(p) /= {}
<1>1. Of(p) \in SUBSET Stored /\ Newest(Of(p)) \subseteq Nat
  BY DEF Of, Stored, Newest, Version
<1>2. Newest(Of(p)) /= {}
  BY <1>1, NewestExists
<1>3. First(Newest(Of(p))) /= {}
  BY <1>1, <1>2, LeastOf DEF First
<1> QED
  BY <1>2, <1>3 DEF Heads

LEMMA StampStep ==
  ASSUME SyncInv, NEW t \in Requests, Stamp(t)
  PROVE  SyncInv'
<1> DEFINE v == h[t].version
           y == [v EXCEPT !.at = now, !.conflict = Conflict(h[t].head, v.base)]
<1>1. PICK id \in First(Version \ Drawn) : Goto(t, "insert", id, None, y)
  BY DEF Stamp
<1> DEFINE x == [pc |-> "insert", id |-> id, head |-> None, version |-> y]
<1>2. h[t].pc = "stamp"
  BY DEF Stamp, At
<1>3. v \in Fields /\ v.base \in Stored \union {None}
  BY <1>2, HandlerFields
<1>4. /\ y \in Fields
      /\ y.path = v.path /\ y.base = v.base /\ y.known = v.known
      /\ y.at = now /\ y.conflict = Conflict(h[t].head, v.base)
  BY <1>3 DEF Fields, Conflict, SyncInv, TypeOK
<1>5. id \in Version /\ id \notin Drawn
  BY DEF First
<1> HIDE DEF y, v
<1>6. x \in Handler
  BY <1>4, <1>5 DEF Handler
<1>7. HandlerOK(x)
  BY <1>3, <1>4, <1>5, <1>6, NoneIsNoVersion DEF HandlerOK, Drawn
<1>8. /\ KnowsFile(v)
      /\ IF h[t].head = None THEN v.known = {} ELSE Leads(h[t].head, v.known)
  BY <1>2, HandlerFields DEF GoodHandler, v
<1>9. v.known \subseteq Stored /\ \A u \in v.known : row[u].at <= now
  BY <1>8 DEF KnowsFile, Of, SyncInv, Good
<1>10. Decided(y)
  <2>1. CASE Conflict(h[t].head, v.base)
    <3>1. h[t].head \in v.known /\ h[t].head /= v.base /\ Leads(h[t].head, v.known)
      BY <2>1, <1>8 DEF Conflict, Leads
    <3> QED
      BY <2>1, <3>1, <1>4 DEF Decided
  <2>2. CASE ~Conflict(h[t].head, v.base)
    BY <2>2, <1>4, <1>8 DEF Decided, Conflict
  <2> QED
    BY <2>1, <2>2
<1>11. Good(y)
  BY <1>4, <1>8, <1>9, <1>10, BoundsAssumption DEF Good, KnowsFile, Later, SyncInv, TypeOK
<1>12. GoodHandler(x)
  BY <1>11 DEF GoodHandler
<1>13. \A u \in Requests \ {t} : h[u].pc = "insert" => h[u].id /= id
  BY <1>5 DEF Drawn
<1>14. h' = [h EXCEPT ![t] = x] /\ UNCHANGED <<row, now, audit, faults>>
  BY <1>1 DEF Goto, Stamp
<1>15. \A u \in Requests \ {t} :
         x.pc = "insert" /\ h[u].pc = "insert" => h[u].id /= x.id
  BY <1>13
<1>16. audit' \subseteq Stored \X Kind /\ faults' \in 0..MaxFaults
  BY <1>14 DEF SyncInv, TypeOK
<1> HIDE DEF x
<1> QED
  BY <1>7, <1>12, <1>14, <1>15, <1>16, HandlerStep

LEMMA ReadStep ==
  ASSUME SyncInv, NEW t \in Requests, ReadHead(t)
  PROVE  SyncInv'
<1> DEFINE v == h[t].version
           p == v.path
           y == [v EXCEPT !.known = Of(p)]
           x(head) == [pc |-> "stamp", id |-> None, head |-> head, version |-> y]
<1>1. PICK head \in IF Heads(p) = {} THEN {None} ELSE Heads(p) : Goto(t, "stamp", None, head, y)
  BY DEF ReadHead
<1>2. h[t].pc = "head"
  BY DEF ReadHead, At
<1>3. v \in Fields /\ v.base \in Stored \union {None}
  BY <1>2, HandlerFields
<1>4. Of(p) \subseteq Stored /\ Of(p) \subseteq Version
  BY DEF Of, Stored
<1>5. y \in Fields /\ y.path = p /\ y.base = v.base /\ y.known = Of(p)
  BY <1>3, <1>4 DEF Fields
<1>6. head \in Of(p) \union {None}
  BY <1>1 DEF Heads, Newest, First
<1>7. IF head = None THEN Of(p) = {} ELSE Leads(head, Of(p))
  <2>1. CASE Heads(p) = {}
    BY <1>1, <2>1, HeadExists
  <2>2. CASE Heads(p) /= {}
    BY <1>1, <1>4, <2>2, HeadsLead, NoneIsNoVersion DEF Leads
  <2> QED
    BY <2>1, <2>2
<1>8. h' = [h EXCEPT ![t] = x(head)] /\ UNCHANGED <<row, now, audit, faults>>
  BY <1>1 DEF Goto, ReadHead
<1> HIDE DEF y, p, v
<1>9. HandlerOK(x(head))
  BY <1>3, <1>4, <1>5, <1>6 DEF HandlerOK, Handler
<1>10. GoodHandler(x(head))
  BY <1>5, <1>7 DEF GoodHandler, KnowsFile
<1>11. x(head).pc = "stamp"
  OBVIOUS
<1>12. audit' \subseteq Stored \X Kind /\ faults' \in 0..MaxFaults
  BY <1>8 DEF SyncInv, TypeOK
<1> HIDE DEF x
<1> QED
  BY <1>8, <1>9, <1>10, <1>11, <1>12, HandlerStep

LEMMA InsertStep ==
  ASSUME SyncInv, NEW t \in Requests, CreateSyncVersion(t)
  PROVE  SyncInv'
<1> DEFINE id == h[t].id
           x == h[t].version
           g == [pc |-> "record", id |-> id, head |-> None, version |-> x]
<1>1. h[t].pc = "insert"
  BY DEF CreateSyncVersion, At
<1>2. /\ row' = [row EXCEPT ![id] = x]
      /\ h' = [h EXCEPT ![t] = g]
      /\ UNCHANGED <<now, audit, faults>>
  BY DEF CreateSyncVersion, Goto
<1>3. /\ x \in Fields /\ x.base \in Stored \union {None}
      /\ id \in Version /\ id \notin Stored /\ Good(x)
  <2>1. h[t] \in Handler /\ HandlerOK(h[t]) /\ GoodHandler(h[t])
    BY <1>1, HandlerFields
  <2>2. x \in Fields /\ x.base \in Stored \union {None}
    BY <1>1, HandlerFields
  <2>3. id \in Version \union {None}
    BY <2>1 DEF Handler
  <2>4. id \notin Stored \union {None}
    BY <1>1, <2>1 DEF HandlerOK, Idle
  <2> QED
    BY <1>1, <2>1, <2>2, <2>3, <2>4 DEF GoodHandler
<1> HIDE DEF x, id
<1>4. /\ row' \in [Version -> Fields \union {Absent}]
      /\ row'[id] = x /\ \A v \in Stored : row'[v] = row[v]
      /\ Stored' = Stored \union {id}
  BY <1>2, <1>3, FieldsArePresent DEF SyncInv, TypeOK, Stored
<1>5. \A p : Of(p) \subseteq Of(p)' /\ \A v \in Of(p)' : v \in Stored => v \in Of(p)
  BY <1>4 DEF Of
<1>6. \A y : y.base \in Stored \union {None} /\ KnowsFile(y) =>
              KnowsFile(y)' /\ y.known \subseteq Stored
  <2> SUFFICES ASSUME NEW y, y.base \in Stored \union {None}, KnowsFile(y)
               PROVE  KnowsFile(y)' /\ y.known \subseteq Stored
    OBVIOUS
  <2>1. y.known \subseteq Of(y.path)' /\ y.known \subseteq Stored
    BY <1>5 DEF KnowsFile, Of
  <2>2. ASSUME y.base \in Of(y.path)' PROVE y.base \in y.known
    <3>1. y.base \in Stored
      BY <1>3, <1>4, <2>2, NoneIsNoVersion DEF Of, Stored
    <3> QED
      BY <1>5, <2>2, <3>1 DEF KnowsFile
  <2> QED
    BY <2>1, <2>2 DEF KnowsFile
<1>7. \A S \in SUBSET Stored : \A b : Leads(b, S) => Leads(b, S)'
  BY <1>4 DEF Leads
<1>8. \A y : y.base \in Stored \union {None} /\ Good(y) => Good(y)'
  <2> SUFFICES ASSUME NEW y, y.base \in Stored \union {None}, Good(y) PROVE Good(y)'
    OBVIOUS
  <2>1. KnowsFile(y)' /\ y.known \in SUBSET Stored
    BY <1>6 DEF Good
  <2>2. Decided(y)'
    BY <1>7, <2>1 DEF Good, Decided
  <2>3. Later(y)' /\ (y.at <= now)'
    BY <1>2, <1>4, <2>1 DEF Good, Later
  <2> QED
    BY <2>1, <2>2, <2>3 DEF Good
<1>9. /\ DOMAIN h' = Requests
      /\ \A u \in Requests : h'[u] = IF u = t THEN g ELSE h[u]
  BY <1>2 DEF SyncInv, TypeOK
<1>10. HandlerOK(h[t])' /\ GoodHandler(h[t])'
  <2>1. g \in Handler
    BY <1>3 DEF Handler
  <2>2. h'[t] = g
    BY <1>9
  <2> QED
    BY <1>3, <1>4, <2>1, <2>2 DEF HandlerOK, GoodHandler
<1>11. ASSUME NEW u \in Requests, u /= t
       PROVE  HandlerOK(h[u])' /\ GoodHandler(h[u])'
  <2>1. h'[u] = h[u]
    BY <1>9, <1>11
  <2>2. h[u].pc = "insert" => h[u].id /= id
    BY <1>1, <1>11 DEF SyncInv, DistinctIds, id
  <2>3. CASE h[u].pc = "idle"
    <3>1. h[u] = Idle
      BY <2>3 DEF SyncInv, TypeOK, HandlerOK, Handler
    <3> QED
      BY <2>1, <3>1 DEF HandlerOK, GoodHandler, Idle
  <2>4. CASE h[u].pc /= "idle"
    <3>1. /\ h[u] \in Handler /\ HandlerOK(h[u]) /\ GoodHandler(h[u])
          /\ h[u].version.base \in Stored \union {None}
          /\ h[u] /= Idle
      BY <2>4, HandlerFields DEF Idle
    <3>2. HandlerOK(h[u])'
      BY <1>4, <1>5, <2>1, <2>2, <3>1 DEF HandlerOK
    <3>3. h[u].pc = "insert" => Good(h[u].version)'
      BY <1>8, <2>1, <3>1 DEF GoodHandler
    <3>4. ASSUME h[u].pc = "stamp"
          PROVE  /\ KnowsFile(h[u].version)'
                 /\ h[u].head /= None => Leads(h[u].head, h[u].version.known)'
      BY <1>6, <1>7, <2>1, <3>1, <3>4 DEF GoodHandler
    <3> QED
      BY <2>1, <3>1, <3>2, <3>3, <3>4 DEF GoodHandler
  <2> QED
    BY <2>3, <2>4
<1>12. TypeOK'
  <2>1. \A u \in Requests : HandlerOK(h[u])'
    BY <1>10, <1>11
  <2>2. \A v \in Stored' : row'[v].base \in Stored' \union {None}
    BY <1>3, <1>4 DEF SyncInv, TypeOK
  <2> QED
    BY <1>2, <1>4, <1>9, <2>1, <2>2 DEF SyncInv, TypeOK
<1>13. DistinctIds'
  BY <1>9 DEF SyncInv, DistinctIds
<1>14. \A v \in Stored' : Good(row[v])'
  BY <1>3, <1>4, <1>8 DEF SyncInv, TypeOK
<1>15. \A u \in Requests : GoodHandler(h[u])'
  BY <1>10, <1>11
<1> QED
  BY <1>12, <1>13, <1>14, <1>15 DEF SyncInv

(* A handler that ends, recorded or failed.                                *)
LEMMA EndStep ==
  ASSUME SyncInv, NEW t \in Requests, RecordVersion(t) \/ QueryError(t)
  PROVE  SyncInv'
<1>1. h' = [h EXCEPT ![t] = Idle] /\ UNCHANGED <<row, now>>
  BY DEF RecordVersion, QueryError
<1>2. HandlerOK(Idle) /\ GoodHandler(Idle) /\ Idle.pc = "idle"
  BY DEF HandlerOK, GoodHandler, Idle
<1>3. faults' \in 0..MaxFaults
  BY BoundsAssumption DEF SyncInv, TypeOK, RecordVersion, QueryError
<1>4. audit' \subseteq Stored \X Kind
  <2>1. CASE RecordVersion(t)
    <3>1. h[t].pc = "record"
      BY <2>1 DEF RecordVersion, At
    <3>2. h[t].id \in Stored
      BY <3>1, HandlerFields DEF HandlerOK, Idle
    <3>3. EventOf(h[t].version) \in Kind
      BY DEF EventOf, Kind
    <3> QED
      BY <2>1, <3>2, <3>3 DEF RecordVersion, SyncInv, TypeOK
  <2>2. CASE QueryError(t)
    BY <2>2 DEF QueryError, SyncInv, TypeOK
  <2> QED
    BY <2>1, <2>2
<1> QED
  BY <1>1, <1>2, <1>3, <1>4, HandlerStep

LEMMA ClockStep ==
  ASSUME SyncInv, Tick \/ UNCHANGED vars
  PROVE  SyncInv'
<1>1. UNCHANGED <<row, h, audit, faults>> /\ now' \in 0..MaxNow /\ now <= now'
  BY BoundsAssumption DEF Tick, vars, SyncInv, TypeOK
<1>2. Stored' = Stored /\ \A p : Of(p)' = Of(p)
  BY <1>1 DEF Stored, Of
<1>3. TypeOK' /\ DistinctIds'
  BY <1>1, <1>2 DEF SyncInv, TypeOK, HandlerOK, DistinctIds
<1>4. \A y \in Fields : Good(y) => Good(y)'
  BY <1>1, <1>2, BoundsAssumption
  DEF Good, KnowsFile, Later, Decided, Leads, Fields, SyncInv, TypeOK
<1>5. \A v \in Stored : Good(row[v])'
  BY <1>1, <1>4, RowsAreFields DEF SyncInv
<1>6. ASSUME NEW t \in Requests PROVE GoodHandler(h[t])'
  <2>1. h[t].pc = "insert" => Good(h[t].version)'
    BY <1>1, <1>4, HandlerFields DEF GoodHandler
  <2>2. GoodHandler(h[t])
    BY DEF SyncInv
  <2> QED
    BY <1>1, <1>2, <2>1, <2>2 DEF GoodHandler, KnowsFile, Leads
<1> QED
  BY <1>2, <1>3, <1>5, <1>6 DEF SyncInv

LEMMA SyncNext == SyncInv /\ [Next]_vars => SyncInv'
BY ClockStep, RegisterStep, ReadStep, StampStep, InsertStep, EndStep DEF Next

LEMMA SyncInvariant == Spec => []SyncInv
BY SyncInit, SyncNext, PTL DEF Spec

(* Registrations of any number at once, in any order and failing anywhere, *)
(* leave rows, handlers and log well-formed: an id is stored once, and a   *)
(* version's base and a log entry's version exist.                         *)
THEOREM SyncTyped == Spec => []TypeOK
<1>1. SyncInv => TypeOK
  BY DEF SyncInv
<1> QED
  BY <1>1, SyncInvariant, PTL

(* Two unflagged versions from one base: neither registration saw the      *)
(* other's, or the clock did not tell the base from its successor.         *)
THEOREM UnflaggedOnlyIfUnseen == Spec => []BranchesAreFlagged
BY UnflaggedBranches, SyncInvariant, PTL

(* No device is told of a conflict where there is none.                    *)
THEOREM FlaggedOnlyIfRivalled == Spec => []ConflictIsReal
BY FlaggedBranches, SyncInvariant, PTL

-----------------------------------------------------------------------------
(* Flagged versions that no handler will record any more: each was lost to *)
(* a failed query.                                                         *)
Recorders == {t \in Requests : h[t].pc = "record"}
Recording == {h[t].id : t \in Recorders}
Lost == Unrecorded \ Recording
FewLost == Cardinality(Lost) <= faults

LEMMA VersionsFinite ==
  ASSUME NEW S \in SUBSET Version
  PROVE  IsFiniteSet(S) /\ Cardinality(S) \in Nat
<1>1. IsFiniteSet(Version)
  BY FS_Interval, BoundsAssumption DEF Version
<1>2. IsFiniteSet(S)
  BY <1>1, FS_Subset
<1> QED
  BY <1>2, FS_CardinalityType

LEMMA SmallerSet ==
  ASSUME NEW S \in SUBSET Version, NEW T \in SUBSET S
  PROVE  Cardinality(T) <= Cardinality(S)
BY VersionsFinite, FS_Subset

LEMMA LostNext ==
  ASSUME SyncInv, FewLost, [Next]_vars
  PROVE  FewLost'
<1>1. Lost \subseteq Version /\ faults \in Nat
  BY BoundsAssumption DEF SyncInv, TypeOK, Lost, Unrecorded, Stored
<1>2. ASSUME Lost' \subseteq Lost, faults' = faults PROVE FewLost'
  <2>1. Cardinality(Lost') <= Cardinality(Lost)
    BY <1>1, <1>2, SmallerSet
  <2>2. Cardinality(Lost') \in Nat /\ Cardinality(Lost) \in Nat
    BY <1>1, <1>2, VersionsFinite
  <2> QED
    BY <1>1, <1>2, <2>1, <2>2 DEF FewLost
(* A handler that moves while rows and log rest, and does not record.      *)
<1>3. ASSUME NEW t \in Requests, NEW x, h' = [h EXCEPT ![t] = x], h[t].pc /= "record",
             UNCHANGED <<row, audit, faults>>
      PROVE  FewLost'
  <2>1. Unrecorded' = Unrecorded
    BY <1>3 DEF Unrecorded, Stored
  <2>2. Recording \subseteq Recording'
    BY <1>3 DEF Recording, Recorders, SyncInv, TypeOK
  <2> QED
    BY <1>2, <1>3, <2>1, <2>2 DEF Lost
<1>4. CASE Tick \/ UNCHANGED vars
  <2>1. UNCHANGED <<row, h, audit, faults>>
    BY <1>4 DEF Tick, vars
  <2>2. Lost' = Lost
    BY <2>1 DEF Lost, Unrecorded, Stored, Recording, Recorders
  <2> QED
    BY <1>2, <2>1, <2>2
<1>5. ASSUME NEW t \in Requests, RegisterVersion(t) \/ ReadHead(t) \/ Stamp(t) PROVE FewLost'
  <2>1. h[t].pc /= "record" /\ UNCHANGED <<row, audit, faults>>
    BY <1>5 DEF RegisterVersion, ReadHead, Stamp, At
  <2>2. \E x : h' = [h EXCEPT ![t] = x]
    BY <1>5 DEF RegisterVersion, ReadHead, Stamp, Goto
  <2> QED
    BY <1>3, <2>1, <2>2
<1>6. ASSUME NEW t \in Requests, CreateSyncVersion(t) PROVE FewLost'
  <2> DEFINE id == h[t].id
  <2>1. /\ h[t].pc = "insert" /\ row' = [row EXCEPT ![id] = h[t].version]
        /\ h' = [h EXCEPT ![t] = [pc |-> "record", id |-> id, head |-> None,
                                  version |-> h[t].version]]
        /\ UNCHANGED <<audit, faults>>
    BY <1>6 DEF CreateSyncVersion, At, Goto
  <2>2. Unrecorded' \subseteq Unrecorded \union {id}
    BY <2>1 DEF Unrecorded, Stored, SyncInv, TypeOK
  <2>3. h'[t].pc = "record" /\ h'[t].id = id
    BY <2>1 DEF SyncInv, TypeOK
  <2>4. Recording \subseteq Recording' /\ id \in Recording'
    BY <2>1, <2>3 DEF Recording, Recorders, SyncInv, TypeOK
  <2> QED
    BY <1>2, <2>1, <2>2, <2>4 DEF Lost
<1>7. ASSUME NEW t \in Requests, RecordVersion(t) PROVE FewLost'
  <2> DEFINE id == h[t].id
  <2>1. /\ h[t].pc = "record" /\ h' = [h EXCEPT ![t] = Idle]
        /\ audit' = audit \union {<<id, EventOf(h[t].version)>>}
        /\ UNCHANGED <<row, faults>>
    BY <1>7 DEF RecordVersion, At
  <2>2. row[id] = h[t].version
    BY <2>1 DEF SyncInv, TypeOK, HandlerOK, Idle
  <2>3. Unrecorded' \subseteq Unrecorded \ {id}
    BY <2>1, <2>2 DEF Unrecorded, Stored, EventOf
  <2>4. Recording \ {id} \subseteq Recording'
    BY <2>1 DEF Recording, Recorders, SyncInv, TypeOK
  <2> QED
    BY <1>2, <2>1, <2>3, <2>4 DEF Lost
<1>8. ASSUME NEW t \in Requests, QueryError(t) PROVE FewLost'
  <2> DEFINE id == h[t].id
  <2>1. /\ h' = [h EXCEPT ![t] = Idle] /\ faults' = faults + 1
        /\ UNCHANGED <<row, audit>>
    BY <1>8 DEF QueryError
  <2>2. Unrecorded' = Unrecorded
    BY <2>1 DEF Unrecorded, Stored
  <2>3. Recording \ {id} \subseteq Recording'
    BY <2>1 DEF Recording, Recorders, SyncInv, TypeOK
  <2>4. Lost' \subseteq Lost \union {id}
    BY <2>2, <2>3 DEF Lost
  <2>5. Lost' \ {id} \subseteq Lost /\ Lost' \subseteq Version
    BY <1>1, <2>2, <2>4 DEF Lost, Unrecorded, Stored
  <2>6. IsFiniteSet(Lost') /\ Cardinality(Lost') \in Nat /\ Cardinality(Lost) \in Nat
    BY <1>1, <2>5, VersionsFinite
  <2>7. Cardinality(Lost' \ {id}) <= Cardinality(Lost)
    BY <1>1, <2>5, SmallerSet
  <2>8. Cardinality(Lost' \ {id}) \in {Cardinality(Lost'), Cardinality(Lost') - 1}
    <3> HIDE DEF id
    <3> QED
      BY <2>6, FS_RemoveElement
  <2>9. Cardinality(Lost' \ {id}) \in Nat
    BY <2>5, VersionsFinite
  <2> QED
    BY <1>1, <2>1, <2>6, <2>7, <2>8, <2>9 DEF FewLost
<1> QED
  BY <1>4, <1>5, <1>6, <1>7, <1>8 DEF Next

LEMMA FewRecording == Cardinality(Recording) <= Cardinality(Recorders)
<1> DEFINE f == [t \in Recorders |-> h[t].id]
<1>1. f \in Surjection(Recorders, Recording)
  BY DEF Surjection, Recording
<1>2. IsFiniteSet(Recorders)
  BY RequestsAssumption, FS_Subset DEF Recorders
<1> QED
  BY <1>1, <1>2, FS_Surjection

LEMMA LostAreFew == SyncInv /\ FewLost => BranchesAreLogged
<1> SUFFICES ASSUME SyncInv, FewLost PROVE BranchesAreLogged
  OBVIOUS
<1>1. /\ IsFiniteSet(Recorders) /\ Cardinality(Recorders) \in Nat
      /\ IsFiniteSet(Recording) /\ Cardinality(Recording) \in Nat
  <2>1. IsFiniteSet(Recorders)
    BY RequestsAssumption, FS_Subset DEF Recorders
  <2>2. [t \in Recorders |-> h[t].id] \in Surjection(Recorders, Recording)
    BY DEF Surjection, Recording
  <2>3. IsFiniteSet(Recording)
    BY <2>1, <2>2, FS_Surjection
  <2> QED
    BY <2>1, <2>3, FS_CardinalityType
<1>2. Unrecorded \subseteq Version /\ Lost \subseteq Version /\ faults \in Nat
  BY BoundsAssumption DEF SyncInv, TypeOK, Lost, Unrecorded, Stored
<1>3. /\ IsFiniteSet(Lost) /\ Cardinality(Lost) \in Nat
      /\ Cardinality(Unrecorded) \in Nat
  BY <1>2, VersionsFinite
<1>4. IsFiniteSet(Lost \union Recording) /\ Unrecorded \subseteq Lost \union Recording
  BY <1>1, <1>3, FS_Union DEF Lost
<1>5. Cardinality(Unrecorded) <= Cardinality(Lost \union Recording)
  BY <1>4, FS_Subset
<1>6. Cardinality(Lost \union Recording) <= Cardinality(Lost) + Cardinality(Recording)
  <2>1. /\ Cardinality(Lost \union Recording) =
             Cardinality(Lost) + Cardinality(Recording) - Cardinality(Lost \intersect Recording)
        /\ Cardinality(Lost \intersect Recording) \in Nat
    BY <1>1, <1>3, FS_Union, FS_Intersection, FS_CardinalityType
  <2> QED
    BY <1>1, <1>3, <2>1
<1>7. Cardinality(Lost \union Recording) \in Nat
  BY <1>4, FS_CardinalityType
<1>8. Cardinality(Unrecorded) <= faults + Cardinality(Recorders)
  BY <1>1, <1>2, <1>3, <1>5, <1>6, <1>7, FewRecording DEF FewLost
<1> QED
  BY <1>8 DEF BranchesAreLogged, Recorders

(* Every flagged branch is recorded as one, but for those a failed query   *)
(* or a handler under way leaves unrecorded, for any number of each.       *)
THEOREM FlaggedAreLogged == Spec => []BranchesAreLogged
<1>1. Init => FewLost
  <2> SUFFICES ASSUME Init PROVE Cardinality({}) <= faults /\ Lost = {}
    BY DEF FewLost
  <2> QED
    BY FS_EmptySet DEF Init, Lost, Unrecorded, Stored
<1>2. SyncInv /\ FewLost /\ [Next]_vars => FewLost'
  BY LostNext
<1> QED
  BY <1>1, <1>2, SyncInvariant, LostAreFew, PTL DEF Spec
-----------------------------------------------------------------------------
(* Registrations of a file that do not overlap: each decides on the file   *)
(* as it is when its version is stored, so of two versions the later knew  *)
(* the earlier.                                                            *)
UpToDate(x) == x.pc \in {"stamp", "insert"} => x.version.known = Of(x.version.path)
InTurn ==
  /\ \A v, w \in Stored : v /= w /\ row[v].path = row[w].path =>
       v \in row[w].known \/ w \in row[v].known
  /\ \A t \in Requests : UpToDate(h[t])

LEMMA InTurnStored ==
  ASSUME SyncInv, InTurn, Serialized, NEW t \in Requests, CreateSyncVersion(t)
  PROVE  InTurn'
<1> DEFINE id == h[t].id
           x == h[t].version
<1>1. h[t].pc = "insert" /\ h[t] /= Idle
  BY DEF CreateSyncVersion, At, Idle
<1>2. /\ x \in Fields /\ id \in Version /\ id \notin Stored
      /\ x.known = Of(x.path)
  <2>1. h[t] \in Handler /\ HandlerOK(h[t]) /\ x \in Fields
    BY <1>1, HandlerFields
  <2>2. id \in Version \union {None} /\ id \notin Stored \union {None}
    BY <1>1, <2>1 DEF Handler, HandlerOK
  <2> QED
    BY <1>1, <2>1, <2>2 DEF InTurn, UpToDate
<1>3. /\ row' = [row EXCEPT ![id] = x]
      /\ h' = [h EXCEPT ![t] = [pc |-> "record", id |-> id, head |-> None, version |-> x]]
  BY DEF CreateSyncVersion, Goto
<1>4. /\ row'[id] = x /\ \A v \in Stored : row'[v] = row[v]
      /\ Stored' = Stored \union {id}
  BY <1>2, <1>3, FieldsArePresent DEF SyncInv, TypeOK, Stored
<1>5. \A u \in Requests : h'[u] = IF u = t THEN
          [pc |-> "record", id |-> id, head |-> None, version |-> x] ELSE h[u]
  BY <1>3 DEF SyncInv, TypeOK
<1> HIDE DEF x, id
<1>6. ASSUME NEW v \in Stored', NEW w \in Stored', v /= w, row'[v].path = row'[w].path
      PROVE  v \in row'[w].known \/ w \in row'[v].known
  <2>1. CASE v \in Stored /\ w \in Stored
    BY <1>4, <1>6, <2>1 DEF InTurn
  <2>2. CASE w = id
    <3>1. v \in Stored /\ row[v].path = x.path
      BY <1>4, <1>6, <2>2
    <3> QED
      BY <1>2, <1>4, <2>2, <3>1 DEF Of
  <2>3. CASE v = id
    <3>1. w \in Stored /\ row[w].path = x.path
      BY <1>4, <1>6, <2>3
    <3> QED
      BY <1>2, <1>4, <2>3, <3>1 DEF Of
  <2> QED
    BY <1>4, <1>6, <2>1, <2>2, <2>3
<1>7. ASSUME NEW u \in Requests PROVE UpToDate(h[u])'
  <2>1. CASE u = t
    BY <1>5, <2>1 DEF UpToDate
  <2>2. CASE u /= t /\ h[u].pc \in {"stamp", "insert"}
    <3> DEFINE p == h[u].version.path
    <3>1. p /= x.path
      BY <1>1, <2>2 DEF Serialized, x
    <3>2. Of(p)' = Of(p)
      BY <1>4, <1>5, <2>2, <3>1 DEF Of
    <3> QED
      BY <1>5, <2>2, <3>2 DEF InTurn, UpToDate
  <2>3. CASE u /= t /\ h[u].pc \notin {"stamp", "insert"}
    BY <1>5, <2>3 DEF UpToDate
  <2> QED
    BY <2>1, <2>2, <2>3
<1> QED
  BY <1>6, <1>7 DEF InTurn

LEMMA InTurnNext ==
  ASSUME SyncInv, InTurn, Serialized, [Next]_vars
  PROVE  InTurn'
<1>0. DOMAIN h = Requests
  BY DEF SyncInv, TypeOK
<1>1. ASSUME UNCHANGED row, \A t \in Requests : UpToDate(h'[t]) PROVE InTurn'
  <2>1. Stored' = Stored /\ \A p : Of(p)' = Of(p)
    BY <1>1 DEF Stored, Of
  <2>2. \A t \in Requests : UpToDate(h[t])'
    BY <1>1, <2>1 DEF UpToDate
  <2> QED
    BY <1>1, <2>1, <2>2 DEF InTurn
<1>2. ASSUME NEW t \in Requests, NEW x, h' = [h EXCEPT ![t] = x], UNCHANGED row, UpToDate(x)
      PROVE  InTurn'
  <2>1. \A u \in Requests : h'[u] = IF u = t THEN x ELSE h[u]
    BY <1>0, <1>2
  <2> QED
    BY <1>1, <1>2, <2>1 DEF InTurn
<1>3. CASE Tick \/ UNCHANGED vars
  BY <1>1, <1>3 DEF Tick, vars, InTurn
<1>4. ASSUME NEW t \in Requests, RegisterVersion(t) PROVE InTurn'
  <2>1. PICK version : Goto(t, "head", None, None, version)
    BY <1>4 DEF RegisterVersion
  <2> QED
    BY <1>2, <1>4, <2>1 DEF Goto, UpToDate, RegisterVersion
<1>5. ASSUME NEW t \in Requests, ReadHead(t) PROVE InTurn'
  <2> DEFINE p == h[t].version.path
             y == [h[t].version EXCEPT !.known = Of(p)]
  <2>1. PICK head : Goto(t, "stamp", None, head, y)
    BY <1>5 DEF ReadHead
  <2>2. h[t].pc = "head"
    BY <1>5 DEF ReadHead, At
  <2>3. y.known = Of(p) /\ y.path = p
    BY <2>2, HandlerFields DEF Fields
  <2> HIDE DEF y, p
  <2> QED
    BY <1>2, <1>5, <2>1, <2>3 DEF Goto, UpToDate, ReadHead
<1>6. ASSUME NEW t \in Requests, Stamp(t) PROVE InTurn'
  <2> DEFINE v == h[t].version
             y == [v EXCEPT !.at = now, !.conflict = Conflict(h[t].head, v.base)]
  <2>1. PICK id : Goto(t, "insert", id, None, y)
    BY <1>6 DEF Stamp
  <2>2. h[t].pc = "stamp"
    BY <1>6 DEF Stamp, At
  <2>3. y.known = v.known /\ y.path = v.path
    BY <2>2, HandlerFields DEF Fields
  <2>4. v.known = Of(v.path)
    BY <2>2 DEF InTurn, UpToDate
  <2> HIDE DEF y, v
  <2> QED
    BY <1>2, <1>6, <2>1, <2>3, <2>4 DEF Goto, UpToDate, Stamp
<1>7. ASSUME NEW t \in Requests, CreateSyncVersion(t) PROVE InTurn'
  BY <1>7, InTurnStored
<1>8. ASSUME NEW t \in Requests, RecordVersion(t) \/ QueryError(t) PROVE InTurn'
  <2>1. UpToDate(Idle)
    BY DEF UpToDate, Idle
  <2> QED
    BY <1>2, <1>8, <2>1 DEF RecordVersion, QueryError
<1> QED
  BY <1>3, <1>4, <1>5, <1>6, <1>7, <1>8 DEF Next

(* What the code is for: where registrations of a file do not overlap      *)
(* between reading its head and storing their version, no two branches of  *)
(* it are both unflagged, however many files, requests and failures there  *)
(* are.                                                                    *)
THEOREM BranchesInTurnAreFlagged == Spec /\ []Serialized => []BothBranchesFlagged
<1>1. Init => InTurn
  BY DEF Init, InTurn, UpToDate, Stored, Idle
<1>2. SyncInv /\ InTurn /\ Serialized /\ [Next]_vars => InTurn'
  BY InTurnNext
<1>3. SyncInv /\ InTurn => BothBranchesFlagged
  <2> SUFFICES ASSUME SyncInv, InTurn, NEW v \in Stored, NEW w \in Stored, Siblings(v, w),
                      ~row[v].conflict, ~row[w].conflict
               PROVE  /\ row[v].base \in Stored
                      /\ row[row[v].base].at \in {row[v].at, row[w].at}
    BY DEF BothBranchesFlagged
  <2>1. v \in row[w].known \/ w \in row[v].known
    BY DEF InTurn, Siblings
  <2>2. Siblings(w, v)
    BY DEF Siblings
  <2> QED
    BY <2>1, <2>2, UnflaggedBranches DEF BranchesAreFlagged, Siblings
<1> QED
  BY <1>1, <1>2, <1>3, SyncInvariant, PTL DEF Spec

(* The memory store's registrations run one after the other.               *)
OneAtATime == \A t, u \in Requests : t = u \/ h[t] = Idle \/ h[u] = Idle

LEMMA OneStep ==
  ASSUME TypeOK, OneAtATime, Adapter = "memory", [Next]_vars
  PROVE  OneAtATime'
<1>0. DOMAIN h = Requests
  BY DEF TypeOK
<1>1. CASE UNCHANGED h
  BY <1>1 DEF OneAtATime
<1>2. ASSUME NEW t \in Requests, NEW x, h' = [h EXCEPT ![t] = x],
             x = Idle \/ \A u \in Requests \ {t} : h[u] = Idle
      PROVE  OneAtATime'
  <2>1. \A u \in Requests : h'[u] = IF u = t THEN x ELSE h[u]
    BY <1>0, <1>2
  <2> QED
    BY <1>2, <2>1 DEF OneAtATime
<1>3. ASSUME NEW t \in Requests, RegisterVersion(t) \/ ReadHead(t) \/ Stamp(t)
                                    \/ CreateSyncVersion(t)
      PROVE  OneAtATime'
  <2>1. \A u \in Requests \ {t} : h[u] = Idle
    BY <1>3 DEF RegisterVersion, ReadHead, Stamp, CreateSyncVersion, At, Turn
  <2>2. \E x : h' = [h EXCEPT ![t] = x]
    BY <1>3 DEF RegisterVersion, ReadHead, Stamp, CreateSyncVersion, Goto
  <2> QED
    BY <1>2, <2>1, <2>2
<1>4. ASSUME NEW t \in Requests, RecordVersion(t) \/ QueryError(t) PROVE OneAtATime'
  BY <1>2, <1>4 DEF RecordVersion, QueryError
<1> QED
  BY <1>1, <1>3, <1>4 DEF Next, Tick, vars

(* So with the memory adapter two branches of a file are never both        *)
(* unflagged.                                                              *)
THEOREM MemoryBranchesAreFlagged ==
  ASSUME Adapter = "memory"
  PROVE  Spec => []BothBranchesFlagged
<1>1. Init => OneAtATime
  BY DEF Init, OneAtATime
<1>2. TypeOK /\ OneAtATime /\ [Next]_vars => OneAtATime'
  BY OneStep
<1>3. OneAtATime => Serialized
  BY DEF OneAtATime, Serialized, Idle
<1> QED
  BY <1>1, <1>2, <1>3, SyncTyped, BranchesInTurnAreFlagged, PTL DEF Spec
=============================================================================
