------------------------ MODULE NativeExecutorProofs ------------------------
(***************************************************************************)
(* The desktop executor keeps its types, writes files whole, reports as    *)
(* succeeded only what had its effect, and repeats no command it should    *)
(* still know, for any commands, any size of the cache and any number of   *)
(* executions and kills.                                                   *)
(***************************************************************************)
EXTENDS NativeExecutor, ResultCacheProofs

(* A command that entered the cache stands in it before all that entered   *)
(* later; one that left it has seen at least as many enter as the cache    *)
(* keeps.                                                                  *)
LaterAreNewer == \A i, j \in DOMAIN cache : i < j => cache[j] \in newer[cache[i]]
NewerFinite == \A c \in Command : IsFiniteSet(newer[c])
Known(c) == \E result \in Result : <<c, result>> \in sent
EvictedByNewer == \A c \in Command :
  Known(c) /\ c \notin Cached => Cardinality(newer[c]) >= MaxCache
CacheInv == LaterAreNewer /\ NewerFinite /\ EvictedByNewer

(* The types of the parts of the state.                                    *)
CacheTyped ==
  /\ cache \in Seq(Command) /\ Len(cache) <= MaxCache
  /\ \A i, j \in DOMAIN cache : cache[i] = cache[j] => i = j
  /\ entry \in [Command -> Result] /\ newer \in [Command -> SUBSET Command]
ProcessTyped ==
  /\ awaiting \subseteq Execution /\ answers \subseteq Execution \X Result
  /\ invoked \subseteq Execution
  /\ native = Resting \/ native \in [step : Steps, of : Execution]
  /\ approved \in BOOLEAN /\ kills \in 0..MaxKills
DiskTyped ==
  /\ temps \in [Execution -> {"none", "partial", "whole"}]
  /\ files \in [Path -> {"absent", "partial", "whole"}]
  /\ placed \subseteq Execution
HistoryTyped == sent \subseteq Command \X Result /\ runs \in 0..MaxRuns

LEMMA TypedParts ==
  NativeTyped <=> CacheTyped /\ ProcessTyped /\ DiskTyped /\ HistoryTyped
BY DEF NativeTyped, CacheTyped, ProcessTyped, DiskTyped, HistoryTyped

-----------------------------------------------------------------------------
(* A result that is cached: ResultCacheProofs' CacheStep for this cache.   *)
LEMMA CacheResultStep ==
  ASSUME CacheTyped, CacheInv, NEW c \in Command, NEW result \in Result,
         CacheResult(c, result)
  PROVE  /\ CacheTyped' /\ LaterAreNewer' /\ NewerFinite' /\ c \in Cached'
         /\ \A d \in Command : d \in Cached /\ d \notin Cached' =>
              Cardinality(newer'[d]) >= MaxCache
         /\ \A d \in Command : d \notin Cached /\ d /= c =>
              Cardinality(newer'[d]) >= Cardinality(newer[d])
<1>1. MaxCache \in Nat \ {0}
  BY BoundsAssumption
<1>2. CacheOK(cache, newer, Command, MaxCache)
  BY DEF CacheOK, CacheTyped, CacheInv, LaterAreNewer, NewerFinite
<1>3. /\ cache' = WithEntry(cache, c, MaxCache) /\ newer' = NewerWith(newer, cache, c)
      /\ entry' \in [Command -> Result]
  BY DEF CacheResult, CacheTyped
<1>4. /\ CacheOK(cache', newer', Command, MaxCache) /\ c \in EntriesOf(cache')
      /\ \A d \in Command : d \in EntriesOf(cache) /\ d \notin EntriesOf(cache') =>
           Cardinality(newer'[d]) >= MaxCache
      /\ \A d \in Command : d \notin EntriesOf(cache) /\ d /= c =>
           Cardinality(newer'[d]) >= Cardinality(newer[d])
  BY <1>1, <1>2, <1>3, CacheStep
<1>5. CacheTyped' /\ LaterAreNewer' /\ NewerFinite'
  BY <1>3, <1>4 DEF CacheOK, CacheTyped, LaterAreNewer, NewerFinite
<1> QED
  BY <1>4, <1>5 DEF Cached

-----------------------------------------------------------------------------
(* What a rename moves into place was written whole, and only a read ends  *)
(* as a read.                                                              *)
NativeSound ==
  /\ native.step = "rename" => temps[native.of] = "whole"
  /\ native.step = "read" => KindOf[native.of[1]] = "read"

(* A success on its way, sent or cached stands on an execution that had    *)
(* its effect.                                                             *)
HadEffect(c) == \E n \in 1..MaxRuns : <<c, n>> \in placed
SuccessSound ==
  /\ \A e \in Execution :
       <<e, "succeeded">> \in answers /\ KindOf[e[1]] /= "read" => e \in placed
  /\ \A c \in Command :
       KindOf[c] /= "read" /\ (<<c, "succeeded">> \in sent \/ entry[c] = "succeeded")
         => HadEffect(c)

NativeInv ==
  NativeTyped /\ CacheInv /\ NativeSound /\ FilesAreWhole /\ SuccessSound

LEMMA NativeParts ==
  ASSUME NativeInv
  PROVE  /\ CacheTyped /\ ProcessTyped /\ DiskTyped /\ HistoryTyped
         /\ CacheInv /\ NativeSound /\ FilesAreWhole /\ SuccessSound
BY TypedParts DEF NativeInv

LEMMA NativeInitInv == NativeInit => NativeInv
<1> SUFFICES ASSUME NativeInit
             PROVE  NativeInv
  OBVIOUS
<1>1. CacheTyped
  BY BoundsAssumption DEF NativeInit, CacheTyped, Result
<1>2. ProcessTyped /\ DiskTyped /\ HistoryTyped
  <2>1. ProcessTyped
    <3>1. kills \in 0..MaxKills
      BY BoundsAssumption DEF NativeInit
    <3>2. awaiting = {} /\ answers = {} /\ invoked = {} /\ native = Resting /\ approved \in BOOLEAN
      BY DEF NativeInit
    <3> QED
      BY <3>1, <3>2 DEF ProcessTyped
  <2>2. DiskTyped
    BY DEF NativeInit, DiskTyped
  <2>3. HistoryTyped
    BY BoundsAssumption DEF NativeInit, HistoryTyped
  <2> QED
    BY <2>1, <2>2, <2>3
<1>3. CacheInv
  BY FS_EmptySet DEF NativeInit, CacheInv, LaterAreNewer, NewerFinite, EvictedByNewer, Known
<1>4. NativeSound /\ FilesAreWhole
  BY DEF NativeInit, NativeSound, FilesAreWhole, Resting
<1>5. SuccessSound
  BY DEF NativeInit, SuccessSound
<1> QED
  BY <1>1, <1>2, <1>3, <1>4, <1>5, TypedParts DEF NativeInv

(* The steps of the page.                                                  *)
LEMMA WebviewStep ==
  ASSUME NativeInv,
         \/ \E c \in Command : Replayed(c) \/ Executed(c)
         \/ \E e \in Execution, result \in Result :
              Finished(e, result) \/ StorageFull(e, result)
  PROVE  NativeInv'
<1>0. /\ CacheTyped /\ ProcessTyped /\ DiskTyped /\ HistoryTyped
      /\ CacheInv /\ NativeSound /\ FilesAreWhole /\ SuccessSound
  BY NativeParts
<1>1. ASSUME NEW c \in Command, Replayed(c)
      PROVE  NativeInv'
  <2>1. /\ c \in Cached /\ sent' = sent \union {<<c, entry[c]>>}
        /\ UNCHANGED <<awaiting, answers, cache, entry, runs, newer>>
        /\ UNCHANGED <<temps, files, placed, invoked, native, approved, kills>>
    BY <1>1 DEF Replayed, disk, process
  <2>2. CacheTyped' /\ ProcessTyped' /\ DiskTyped' /\ HistoryTyped'
    BY <1>0, <2>1 DEF CacheTyped, ProcessTyped, DiskTyped, HistoryTyped
  <2>3. CacheInv'
    <3>1. Cached' = Cached /\ \A d \in Command : d /= c => (Known(d)' <=> Known(d))
      BY <2>1 DEF Cached, Known
    <3> QED
      BY <1>0, <2>1, <3>1 DEF CacheInv, LaterAreNewer, NewerFinite, EvictedByNewer
  <2>4. NativeSound' /\ FilesAreWhole'
    BY <1>0, <2>1 DEF NativeSound, FilesAreWhole
  <2>5. SuccessSound'
    BY <1>0, <2>1 DEF SuccessSound, HadEffect
  <2> QED
    BY <2>2, <2>3, <2>4, <2>5, TypedParts DEF NativeInv, NativeTyped, CacheTyped,
       ProcessTyped, DiskTyped, HistoryTyped
<1>2. ASSUME NEW c \in Command, Executed(c)
      PROVE  NativeInv'
  <2> DEFINE e == <<c, runs + 1>>
  <2>1. /\ runs < MaxRuns /\ runs' = runs + 1
        /\ awaiting' = awaiting \union {e} /\ invoked' = invoked \union {e}
        /\ UNCHANGED <<answers, cache, entry, sent, newer>>
        /\ UNCHANGED <<native, approved, temps, files, placed, kills>>
    BY <1>2 DEF Executed, disk
  <2>2. e \in Execution
    BY <1>0, <2>1, BoundsAssumption DEF HistoryTyped, Execution
  <2>3. CacheTyped' /\ ProcessTyped' /\ DiskTyped' /\ HistoryTyped'
    <3> HIDE DEF e
    <3>1. ProcessTyped'
      BY <1>0, <2>1, <2>2 DEF ProcessTyped
    <3>2. HistoryTyped'
      BY <1>0, <2>1, BoundsAssumption DEF HistoryTyped
    <3>3. CacheTyped'
      BY <1>0, <2>1 DEF CacheTyped
    <3>4. DiskTyped'
      BY <1>0, <2>1 DEF DiskTyped
    <3> QED
      BY <3>1, <3>2, <3>3, <3>4
  <2>4. CacheInv'
    BY <1>0, <2>1 DEF CacheInv, LaterAreNewer, NewerFinite, EvictedByNewer, Known, Cached
  <2>5. NativeSound' /\ FilesAreWhole' /\ SuccessSound'
    BY <1>0, <2>1 DEF NativeSound, FilesAreWhole, SuccessSound, HadEffect
  <2> QED
    BY <2>3, <2>4, <2>5, TypedParts DEF NativeInv, NativeTyped, CacheTyped,
       ProcessTyped, DiskTyped, HistoryTyped
<1>3. ASSUME NEW e \in Execution, NEW result \in Result, Finished(e, result)
      PROVE  NativeInv'
  <2>1. /\ <<e, result>> \in answers /\ answers' = answers \ {<<e, result>>}
        /\ awaiting' = awaiting \ {e} /\ e[1] \in Command
        /\ CacheResult(e[1], result) /\ sent' = sent \union {<<e[1], result>>}
        /\ UNCHANGED <<runs, temps, files, placed, invoked, native, approved, kills>>
    BY <1>3 DEF Finished, disk, process, Execution
  <2>2. /\ CacheTyped' /\ LaterAreNewer' /\ NewerFinite' /\ e[1] \in Cached'
        /\ \A d \in Command : d \in Cached /\ d \notin Cached' =>
             Cardinality(newer'[d]) >= MaxCache
        /\ \A d \in Command : d \notin Cached /\ d /= e[1] =>
             Cardinality(newer'[d]) >= Cardinality(newer[d])
    BY <1>0, <2>1, CacheResultStep
  <2>3. ProcessTyped' /\ DiskTyped' /\ HistoryTyped'
    BY <1>0, <2>1 DEF ProcessTyped, DiskTyped, HistoryTyped
  <2>4. CacheInv'
    <3> SUFFICES ASSUME NEW d \in Command, Known(d)', d \notin Cached'
                 PROVE  Cardinality(newer'[d]) >= MaxCache
      BY <2>2 DEF CacheInv, EvictedByNewer
    <3>1. d /= e[1] /\ Known(d)
      BY <2>1, <2>2 DEF Known
    <3>2. CASE d \notin Cached
      <4>1. Cardinality(newer[d]) >= MaxCache /\ Cardinality(newer'[d]) >= Cardinality(newer[d])
        BY <1>0, <2>2, <3>1, <3>2 DEF CacheInv, EvictedByNewer
      <4>2. Cardinality(newer[d]) \in Nat /\ Cardinality(newer'[d]) \in Nat /\ MaxCache \in Nat
        BY <1>0, <2>2, FS_CardinalityType, BoundsAssumption DEF CacheInv, NewerFinite
      <4> QED
        BY <4>1, <4>2
    <3> QED
      BY <2>2, <3>2
  <2>5. NativeSound' /\ FilesAreWhole'
    BY <1>0, <2>1 DEF NativeSound, FilesAreWhole
  <2>6. SuccessSound'
    <3>1. \A d \in Command : entry'[d] = IF d = e[1] THEN result ELSE entry[d]
      BY <1>0, <2>1 DEF CacheResult, CacheTyped
    <3>2. result = "succeeded" /\ KindOf[e[1]] /= "read" => HadEffect(e[1])
      <4>1. e = <<e[1], e[2]>> /\ e[2] \in 1..MaxRuns
        BY DEF Execution
      <4> QED
        BY <1>0, <2>1, <4>1 DEF SuccessSound, HadEffect
    <3>3. \A d \in Command : HadEffect(d)' <=> HadEffect(d)
      BY <2>1 DEF HadEffect
    <3>4. \A d \in Command : <<d, "succeeded">> \in sent' =>
            <<d, "succeeded">> \in sent \/ (d = e[1] /\ result = "succeeded")
      BY <2>1
    <3> QED
      BY <1>0, <2>1, <3>1, <3>2, <3>3, <3>4 DEF SuccessSound
  <2> QED
    BY <2>2, <2>3, <2>4, <2>5, <2>6, TypedParts DEF NativeInv, NativeTyped, CacheTyped,
       ProcessTyped, DiskTyped, HistoryTyped
<1>4. ASSUME NEW e \in Execution, NEW result \in Result, StorageFull(e, result)
      PROVE  NativeInv'
  <2>1. /\ answers' \subseteq answers /\ awaiting' \subseteq awaiting
        /\ UNCHANGED <<cache, entry, sent, runs, newer>>
        /\ UNCHANGED <<temps, files, placed, invoked, native, approved, kills>>
    BY <1>4 DEF StorageFull, disk, process
  <2>2. CacheTyped' /\ ProcessTyped' /\ DiskTyped' /\ HistoryTyped'
    <3>1. ProcessTyped'
      BY <1>0, <2>1 DEF ProcessTyped
    <3>2. CacheTyped'
      BY <1>0, <2>1 DEF CacheTyped
    <3>3. DiskTyped' /\ HistoryTyped'
      BY <1>0, <2>1 DEF DiskTyped, HistoryTyped
    <3> QED
      BY <3>1, <3>2, <3>3
  <2>3. CacheInv'
    BY <1>0, <2>1 DEF CacheInv, LaterAreNewer, NewerFinite, EvictedByNewer, Known, Cached
  <2>4. NativeSound' /\ FilesAreWhole' /\ SuccessSound'
    BY <1>0, <2>1 DEF NativeSound, FilesAreWhole, SuccessSound, HadEffect
  <2> QED
    BY <2>2, <2>3, <2>4, TypedParts DEF NativeInv, NativeTyped, CacheTyped,
       ProcessTyped, DiskTyped, HistoryTyped
<1> QED
  BY <1>1, <1>2, <1>3, <1>4

(* The native command at work, when there is one.                          *)
LEMMA AtWork ==
  ASSUME NativeInv, native.step \in Steps
  PROVE  /\ native \in [step : Steps, of : Execution] /\ native.of \in Execution
         /\ native.of[1] \in Command /\ Target \in Path
         /\ \A step \in Steps : [native EXCEPT !.step = step] \in [step : Steps, of : Execution]
                               /\ [native EXCEPT !.step = step].step = step
                               /\ [native EXCEPT !.step = step].of = native.of
<1>1. native = Resting => native.step = "none"
  BY DEF Resting
<1>2. native \in [step : Steps, of : Execution]
  BY <1>1, NativeParts DEF ProcessTyped, Steps
<1> QED
  BY <1>2, CommandsAssumption DEF Execution, Target

(* An answer keeps the types of the process, and is sound if what it       *)
(* reports as succeeded had its effect.                                    *)
LEMMA AnswerStep ==
  ASSUME NativeInv, native.step \in Steps, NEW result \in Result, Answer(result),
         DiskTyped', FilesAreWhole', placed \subseteq placed',
         result = "succeeded" /\ Kind /= "read" => native.of \in placed'
  PROVE  NativeInv'
<1>0. /\ CacheTyped /\ ProcessTyped /\ DiskTyped /\ HistoryTyped
      /\ CacheInv /\ NativeSound /\ FilesAreWhole /\ SuccessSound
  BY NativeParts
<1>1. /\ native' = Resting /\ answers' \in {answers, answers \union {<<native.of, result>>}}
      /\ UNCHANGED <<awaiting, cache, entry, sent, runs, newer, invoked, approved, kills>>
      /\ native.of \in Execution
  BY AtWork DEF Answer
<1>2. CacheTyped' /\ ProcessTyped' /\ HistoryTyped'
  BY <1>0, <1>1 DEF CacheTyped, ProcessTyped, HistoryTyped
<1>3. CacheInv'
  BY <1>0, <1>1 DEF CacheInv, LaterAreNewer, NewerFinite, EvictedByNewer, Known, Cached
<1>4. NativeSound'
  BY <1>1 DEF NativeSound, Resting
<1>5. SuccessSound'
  <2>1. \A e \in Execution : <<e, "succeeded">> \in answers' =>
          <<e, "succeeded">> \in answers \/ (e = native.of /\ result = "succeeded")
    BY <1>1
  <2>2. \A c \in Command : HadEffect(c) => HadEffect(c)'
    BY DEF HadEffect
  <2> QED
    BY <1>0, <1>1, <2>1, <2>2 DEF SuccessSound, Kind
<1> QED
  BY <1>2, <1>3, <1>4, <1>5, TypedParts DEF NativeInv, NativeTyped, CacheTyped,
     ProcessTyped, DiskTyped, HistoryTyped

(* The native command goes on: to a rename only of what is whole, to a     *)
(* read only for a read.                                                   *)
LEMMA GoOnStep ==
  ASSUME NativeInv, native.step \in Steps, NEW step \in Steps, GoOn(step),
         UNCHANGED <<webview, files, placed, invoked, approved, kills>>, DiskTyped',
         step = "rename" => temps'[native.of] = "whole",
         step = "read" => Kind = "read"
  PROVE  NativeInv'
<1>0. /\ CacheTyped /\ ProcessTyped /\ DiskTyped /\ HistoryTyped
      /\ CacheInv /\ NativeSound /\ FilesAreWhole /\ SuccessSound
  BY NativeParts
<1>1. /\ native' \in [step : Steps, of : Execution] /\ native'.step = step
      /\ native'.of = native.of
  BY AtWork DEF GoOn
<1>2. UNCHANGED <<awaiting, answers, cache, entry, sent, runs, newer, files, placed, invoked, approved, kills>>
  BY DEF webview
<1>3. CacheTyped' /\ ProcessTyped' /\ HistoryTyped'
  BY <1>0, <1>1, <1>2 DEF CacheTyped, ProcessTyped, HistoryTyped
<1>4. CacheInv' /\ FilesAreWhole' /\ SuccessSound'
  BY <1>0, <1>2 DEF CacheInv, LaterAreNewer, NewerFinite, EvictedByNewer, Known, Cached,
     FilesAreWhole, SuccessSound, HadEffect
<1>5. NativeSound'
  BY <1>1 DEF NativeSound, Kind
<1> QED
  BY <1>3, <1>4, <1>5, TypedParts DEF NativeInv, NativeTyped, CacheTyped,
     ProcessTyped, DiskTyped, HistoryTyped

LEMMA NativeStepInv ==
  ASSUME NativeInv, NativeStep
  PROVE  NativeInv'
<1>0. DiskTyped /\ NativeSound /\ FilesAreWhole
  BY NativeParts
<1>k. /\ "succeeded" \in Result /\ "failed" \in Result /\ "failed" /= "succeeded"
      /\ {"resolve", "create", "write", "rename", "discard", "delete", "read"} = Steps
  BY DEF Result, Steps
<1>1. CASE Resolve
  <2>1. /\ native.step = "resolve" /\ UNCHANGED <<webview, disk, invoked, approved, kills>>
        /\ \/ Kind = "write" /\ GoOn("create")
           \/ Kind = "trash" /\ GoOn("delete")
           \/ GoOn("read")
    BY <1>1 DEF Resolve, Stands
  <2>2. native.step \in Steps /\ (GoOn("read") => Kind = "read")
    <3>1. native.step \in Steps
      BY <1>k, <2>1
    <3>2. Kind \in {"write", "trash", "read"}
      BY <3>1, AtWork, CommandsAssumption DEF Kind
    <3>3. GoOn("read") => native'.step = "read"
      BY <1>k, <3>1, AtWork DEF GoOn
    <3>4. GoOn("create") => native'.step = "create"
      BY <1>k, <3>1, AtWork DEF GoOn
    <3>5. GoOn("delete") => native'.step = "delete"
      BY <1>k, <3>1, AtWork DEF GoOn
    <3> QED
      BY <1>1, <3>1, <3>2, <3>3, <3>4, <3>5 DEF Resolve
  <2>3. DiskTyped' /\ UNCHANGED <<files, placed>>
    BY <1>0, <2>1 DEF DiskTyped, disk
  <2> QED
    BY <1>k, <2>1, <2>2, <2>3, GoOnStep
<1>2. CASE Fails \/ Read
  <2>1. /\ UNCHANGED <<temps, files, placed>> /\ native.step \in Steps
        /\ \/ Answer("failed")
           \/ Answer("succeeded") /\ Kind = "read"
    BY <1>0, <1>2, <1>k DEF Fails, Read, Stands, NativeSound, disk, Kind
  <2>2. DiskTyped' /\ FilesAreWhole'
    BY <1>0, <2>1 DEF DiskTyped, FilesAreWhole
  <2> QED
    BY <1>k, <2>1, <2>2, AnswerStep
<1>3. CASE Delete
  <2>1. /\ native.step \in Steps /\ Answer("succeeded") /\ UNCHANGED temps
        /\ files' = [files EXCEPT ![Target] = "absent"] /\ placed' = placed \union {native.of}
    BY <1>3, <1>k DEF Delete, Stands
  <2>2. DiskTyped' /\ FilesAreWhole'
    BY <1>0, <2>1, AtWork DEF DiskTyped, FilesAreWhole
  <2> QED
    BY <1>k, <2>1, <2>2, AnswerStep
<1>4. CASE CreateTemp
  <2>1. /\ native.step \in Steps /\ GoOn("write")
        /\ temps' = [temps EXCEPT ![native.of] = "partial"]
        /\ UNCHANGED <<webview, files, placed, invoked, approved, kills>>
    BY <1>4, <1>k DEF CreateTemp, Stands
  <2>2. DiskTyped'
    BY <1>0, <2>1, AtWork DEF DiskTyped
  <2> QED
    BY <1>k, <2>1, <2>2, GoOnStep
<1>5. CASE WriteTemp
  <2>1. /\ native.step \in Steps
        /\ \/ GoOn("rename") /\ temps' = [temps EXCEPT ![native.of] = "whole"]
           \/ GoOn("discard") /\ temps' = temps
        /\ UNCHANGED <<webview, files, placed, invoked, approved, kills>>
    BY <1>5, <1>k DEF WriteTemp, Stands
  <2>2. DiskTyped'
    BY <1>0, <2>1, AtWork DEF DiskTyped
  <2>3. temps' = [temps EXCEPT ![native.of] = "whole"] => temps'[native.of] = "whole"
    BY <1>0, <2>1, AtWork DEF DiskTyped
  <2> QED
    BY <1>k, <2>1, <2>2, <2>3, GoOnStep
<1>6. CASE Rename
  <2>1. /\ native.step = "rename" /\ native.step \in Steps /\ Answer("succeeded")
        /\ files' = [files EXCEPT ![Target] = temps[native.of]]
        /\ temps' = [temps EXCEPT ![native.of] = "none"]
        /\ placed' = placed \union {native.of}
    BY <1>6, <1>k DEF Rename, Stands
  <2>2. temps[native.of] = "whole"
    BY <1>0, <2>1 DEF NativeSound
  <2>3. DiskTyped' /\ FilesAreWhole'
    BY <1>0, <2>1, <2>2, AtWork DEF DiskTyped, FilesAreWhole
  <2> QED
    BY <1>k, <2>1, <2>3, AnswerStep
<1>7. CASE RenameFails
  <2>1. /\ native.step \in Steps /\ GoOn("discard")
        /\ UNCHANGED <<webview, temps, files, placed, invoked, approved, kills>>
    BY <1>7, <1>k DEF RenameFails, Stands, disk
  <2>2. DiskTyped'
    BY <1>0, <2>1 DEF DiskTyped
  <2> QED
    BY <1>k, <2>1, <2>2, GoOnStep
<1>8. CASE Discard
  <2>1. /\ native.step \in Steps /\ Answer("failed")
        /\ temps' \in {temps, [temps EXCEPT ![native.of] = "none"]}
        /\ UNCHANGED <<files, placed>>
    BY <1>8, <1>k DEF Discard, Stands
  <2>2. DiskTyped' /\ FilesAreWhole'
    BY <1>0, <2>1, AtWork DEF DiskTyped, FilesAreWhole
  <2> QED
    BY <1>k, <2>1, <2>2, AnswerStep
<1> QED
  BY <1>1, <1>2, <1>3, <1>4, <1>5, <1>6, <1>7, <1>8 DEF NativeStep

LEMMA ProcessStep ==
  ASSUME NativeInv, (\E e \in Execution : Begin(e)) \/ ApproveRoot \/ PageReloads \/ Killed
  PROVE  NativeInv'
<1>0. /\ CacheTyped /\ ProcessTyped /\ DiskTyped /\ HistoryTyped
      /\ CacheInv /\ NativeSound /\ FilesAreWhole /\ SuccessSound
  BY NativeParts
<1>1. /\ UNCHANGED <<cache, entry, sent, runs, newer, temps, files, placed>>
      /\ answers' \in {answers, {}} /\ awaiting' \in {awaiting, {}}
      /\ invoked' \subseteq invoked /\ approved' \in BOOLEAN /\ kills' \in 0..MaxKills
      /\ \/ native' = native
         \/ native' = Resting
         \/ \E e \in Execution : native' = [step |-> "resolve", of |-> e]
  <2>1. CASE \E e \in Execution : Begin(e)
    BY <1>0, <2>1 DEF Begin, webview, disk, ProcessTyped
  <2>2. CASE ApproveRoot
    BY <1>0, <2>2 DEF ApproveRoot, webview, disk, ProcessTyped
  <2>3. CASE PageReloads
    BY <1>0, <2>3 DEF PageReloads, disk, process, ProcessTyped
  <2>4. CASE Killed
    <3>1. kills' \in 0..MaxKills
      BY <1>0, <2>4, BoundsAssumption DEF Killed, ProcessTyped
    <3>2. /\ UNCHANGED <<cache, entry, sent, runs, newer, temps, files, placed>>
          /\ answers' = {} /\ awaiting' = {} /\ invoked' = {}
          /\ approved' = FALSE /\ native' = Resting
      BY <2>4 DEF Killed, disk
    <3> QED
      BY <3>1, <3>2
  <2> QED
    BY <2>1, <2>2, <2>3, <2>4
<1>2. /\ native' = Resting \/ native' \in [step : Steps, of : Execution]
      /\ NativeSound'
  <2>1. CASE native' = native
    BY <1>0, <1>1, <2>1 DEF NativeSound, ProcessTyped
  <2>2. CASE native' = Resting
    BY <2>2 DEF NativeSound, Resting
  <2>3. CASE \E e \in Execution : native' = [step |-> "resolve", of |-> e]
    BY <2>3 DEF NativeSound, Steps
  <2> QED
    BY <1>1, <2>1, <2>2, <2>3
<1>3. CacheTyped' /\ ProcessTyped' /\ DiskTyped' /\ HistoryTyped'
  BY <1>0, <1>1, <1>2 DEF CacheTyped, ProcessTyped, DiskTyped, HistoryTyped
<1>4. CacheInv' /\ FilesAreWhole' /\ SuccessSound'
  BY <1>0, <1>1 DEF CacheInv, LaterAreNewer, NewerFinite, EvictedByNewer, Known, Cached,
     FilesAreWhole, SuccessSound, HadEffect
<1> QED
  BY <1>2, <1>3, <1>4, TypedParts DEF NativeInv, NativeTyped, CacheTyped,
     ProcessTyped, DiskTyped, HistoryTyped

LEMMA NativeNextInv ==
  ASSUME NativeInv, [NativeNext]_nativeVars
  PROVE  NativeInv'
<1>1. CASE UNCHANGED nativeVars
  <2>1. /\ UNCHANGED <<awaiting, answers, cache, entry, sent, runs, newer>>
        /\ UNCHANGED <<temps, files, placed, invoked, native, approved, kills>>
    BY <1>1 DEF nativeVars, webview, disk, process
  <2>2. NativeTyped'
    BY <2>1, TypedParts DEF NativeInv, NativeTyped, CacheTyped, ProcessTyped, DiskTyped, HistoryTyped
  <2>3. CacheInv'
    BY <2>1 DEF NativeInv, CacheInv, LaterAreNewer, NewerFinite, EvictedByNewer, Known, Cached
  <2>4. NativeSound' /\ FilesAreWhole' /\ SuccessSound'
    BY <2>1 DEF NativeInv, NativeSound, FilesAreWhole, SuccessSound, HadEffect
  <2> QED
    BY <2>2, <2>3, <2>4 DEF NativeInv
<1> QED
  BY <1>1, WebviewStep, NativeStepInv, ProcessStep DEF NativeNext

LEMMA NativeInvHolds == NativeSpec => []NativeInv
BY NativeInitInv, NativeNextInv, PTL DEF NativeSpec

-----------------------------------------------------------------------------
(* The executor's state stays well-formed; its cache holds one entry for a *)
(* command and no more than its limit, whatever that is.                   *)
THEOREM NativeIsTyped == NativeSpec => []NativeTyped
<1>1. NativeInv => NativeTyped
  BY DEF NativeInv
<1> QED
  BY <1>1, NativeInvHolds, PTL

(* No path ever holds a part of a write, for any paths and interleaving of *)
(* executions, failures, reloads and kills.                                *)
THEOREM WritesAreAtomic == NativeSpec => []FilesAreWhole
<1>1. NativeInv => FilesAreWhole
  BY DEF NativeInv
<1> QED
  BY <1>1, NativeInvHolds, PTL

(* What was sent or is cached as succeeded had its effect.                 *)
THEOREM SuccessIsReal == NativeSpec => []SuccessHadEffect
<1>1. NativeInv => SuccessHadEffect
  BY DEF NativeInv, SuccessSound, SuccessHadEffect, HadEffect
<1> QED
  BY <1>1, NativeInvHolds, PTL

(* A command with a result is executed again only after as many others     *)
(* entered the cache as it keeps: 500 in the code.                         *)
THEOREM RecentAreReplayed == NativeSpec => RecentNeverReruns
<1>1. ASSUME NativeInv, [NativeNext]_nativeVars, NEW e \in invoked' \ invoked,
             \E result \in Result : <<e[1], result>> \in sent
      PROVE  Cardinality(newer[e[1]]) >= MaxCache
  <2>1. CASE \E c \in Command : Executed(c)
    <3>1. PICK c \in Command : Executed(c)
      BY <2>1
    <3>2. e[1] = c /\ c \notin Cached
      BY <1>1, <3>1 DEF Executed
    <3> QED
      BY <1>1, <3>2 DEF NativeInv, CacheInv, EvictedByNewer, Known
  <2>2. CASE ~\E c \in Command : Executed(c)
    <3>1. invoked' \subseteq invoked
      BY <1>1, <2>2 DEF NativeNext, Replayed, Finished, StorageFull, Begin, NativeStep, Resolve, Fails, Read,
         Delete, CreateTemp, WriteTemp, Rename, RenameFails, Discard, Answer, ApproveRoot,
         PageReloads, Killed, nativeVars, process
    <3> QED
      BY <1>1, <3>1
  <2> QED
    BY <2>1, <2>2
<1>2. NativeInv /\ [NativeNext]_nativeVars =>
        [\A e \in invoked' \ invoked :
           (\E result \in Result : <<e[1], result>> \in sent) =>
             Cardinality(newer[e[1]]) >= MaxCache]_nativeVars
  BY <1>1
<1> QED
  BY <1>2, NativeInvHolds, PTL DEF NativeSpec, RecentNeverReruns
=============================================================================
