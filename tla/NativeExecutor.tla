--------------------------- MODULE NativeExecutor ---------------------------
(***************************************************************************)
(* The desktop executor between its socket and the disk: executions of     *)
(* apps/client/src/executor.ts, the limited cache of their results, and    *)
(* the native commands of src-tauri/src/lib.rs they wait for, to the steps *)
(* of a write through a temporary file. The page may be reloaded, and the  *)
(* process killed, between any two steps.                                  *)
(***************************************************************************)
EXTENDS ResultCache

CONSTANTS
  Command, Path,
  KindOf, PathOf,      \* each command's tool and target
  MaxCache,            \* entries the result cache keeps: 500 in the code
  MaxRuns, MaxKills    \* bounds on executions and kills

Execution == Command \X (1..MaxRuns)

ASSUME CommandsAssumption ==
  /\ KindOf \in [Command -> {"write", "trash", "read"}]
  /\ PathOf \in [Command -> Path]
ASSUME BoundsAssumption ==
  MaxCache \in Nat \ {0} /\ MaxRuns \in Nat /\ MaxKills \in Nat

VARIABLES
  awaiting,  \* executions of the page that wait for their native command
  answers,   \* results of native commands on their way to the page
  cache,     \* commands with an entry in continuum.executorResults, in its order
  entry,     \* the result in the entry
  sent,      \* history: final results sent
  runs,      \* history: executions started
  invoked,   \* native commands that have not begun
  native,    \* the native command that is running, and where it stands
  approved,  \* whether the process holds the root the paths are under
  temps,     \* the temporary file of each execution's write
  files,     \* what each path holds of what it was meant to
  placed,    \* history: executions that had their effect on their path
  newer,     \* history: commands that entered the cache after each one
  kills

webview == <<awaiting, answers, cache, entry, sent, runs, newer>>
disk == <<temps, files, placed>>
process == <<invoked, native, approved>>
nativeVars == <<webview, disk, process, kills>>

Result == {"succeeded", "failed"}
Resting == [step |-> "none"]
Steps == {"resolve", "create", "write", "rename", "discard", "delete", "read"}

NativeInit ==
  /\ awaiting = {} /\ answers = {} /\ cache = <<>> /\ sent = {}
  /\ entry = [c \in Command |-> "failed"] /\ runs = 0
  /\ invoked = {} /\ native = Resting /\ approved = FALSE
  /\ temps = [e \in Execution |-> "none"] /\ files = [p \in Path |-> "whole"]
  /\ placed = {} /\ newer = [c \in Command |-> {}] /\ kills = 0

Cached == EntriesOf(cache)

-----------------------------------------------------------------------------
(* A dispatch of a command: its cached result is sent again, or it is      *)
(* executed, whether or not another execution of it is under way.          *)
Replayed(c) ==
  /\ c \in Cached /\ sent' = sent \union {<<c, entry[c]>>}
  /\ UNCHANGED <<awaiting, answers, cache, entry, runs, newer, disk, process, kills>>

Executed(c) ==
  LET e == <<c, runs + 1>>
  IN  /\ c \notin Cached /\ runs < MaxRuns /\ runs' = runs + 1
      /\ awaiting' = awaiting \union {e} /\ invoked' = invoked \union {e}
      /\ UNCHANGED <<answers, cache, entry, sent, newer, native, approved, disk, kills>>

(* cacheResult: the result enters the cache, or replaces the one there.    *)
CacheResult(c, result) ==
  /\ entry' = [entry EXCEPT ![c] = result]
  /\ cache' = WithEntry(cache, c, MaxCache)
  /\ newer' = NewerWith(newer, cache, c)

(* The execution goes on when its native command has answered.             *)
Finished(e, result) ==
  /\ <<e, result>> \in answers /\ answers' = answers \ {<<e, result>>}
  /\ awaiting' = awaiting \ {e}
  /\ CacheResult(e[1], result) /\ sent' = sent \union {<<e[1], result>>}
  /\ UNCHANGED <<runs, disk, process, kills>>

(* Local storage may have no room for the result, a screenshot for one:    *)
(* cacheResult throws, nothing is stored, and nothing is sent.             *)
StorageFull(e, result) ==
  /\ <<e, result>> \in answers /\ answers' = answers \ {<<e, result>>}
  /\ awaiting' = awaiting \ {e}
  /\ UNCHANGED <<cache, entry, sent, runs, newer, disk, process, kills>>

-----------------------------------------------------------------------------
(* Native commands are run one at a time, on the main thread.              *)
Begin(e) ==
  /\ e \in invoked /\ native = Resting /\ invoked' = invoked \ {e}
  /\ native' = [step |-> "resolve", of |-> e]
  /\ UNCHANGED <<webview, disk, approved, kills>>

Stands(step) == native.step = step
Kind == KindOf[native.of[1]]
Target == PathOf[native.of[1]]
GoOn(step) == native' = [native EXCEPT !.step = step]

(* The command ends; a page that was reloaded is not there to take it.     *)
Answer(result) ==
  /\ native' = Resting
  /\ answers' = IF native.of \in awaiting
                THEN answers \union {<<native.of, result>>} ELSE answers
  /\ UNCHANGED <<awaiting, cache, entry, sent, runs, newer, invoked, approved, kills>>

(* The path is resolved under the approved root; only a write may name one *)
(* where there is nothing yet.                                             *)
Resolve ==
  /\ Stands("resolve") /\ approved
  /\ Kind = "write" \/ files[Target] /= "absent"
  /\ GoOn(CASE Kind = "write" -> "create" [] Kind = "trash" -> "delete" [] OTHER -> "read")
  /\ UNCHANGED <<webview, disk, invoked, approved, kills>>

(* What fails before anything is touched: a root that is not approved, a   *)
(* missing parent, a size over the limit, the temporary file.              *)
Fails ==
  /\ native.step \in {"resolve", "create", "delete", "read"} /\ Answer("failed")
  /\ UNCHANGED disk

Read == Stands("read") /\ Answer("succeeded") /\ UNCHANGED disk
Delete ==
  /\ Stands("delete") /\ Answer("succeeded")
  /\ files' = [files EXCEPT ![Target] = "absent"] /\ placed' = placed \union {native.of}
  /\ UNCHANGED temps

CreateTemp ==
  /\ Stands("create") /\ GoOn("write")
  /\ temps' = [temps EXCEPT ![native.of] = "partial"]
  /\ UNCHANGED <<webview, files, placed, invoked, approved, kills>>

(* write_all and sync_all succeed, or one of them fails.                   *)
WriteTemp_Unchecked ==
  /\ Stands("write") /\ GoOn("rename")
  /\ temps' \in {temps, [temps EXCEPT ![native.of] = "whole"]}
  /\ UNCHANGED <<webview, files, placed, invoked, approved, kills>>

WriteTemp ==
  /\ Stands("write")
  /\ \/ GoOn("rename") /\ temps' = [temps EXCEPT ![native.of] = "whole"]
     \/ GoOn("discard") /\ temps' = temps
  /\ UNCHANGED <<webview, files, placed, invoked, approved, kills>>

Rename ==
  /\ Stands("rename") /\ Answer("succeeded")
  /\ files' = [files EXCEPT ![Target] = temps[native.of]]
  /\ temps' = [temps EXCEPT ![native.of] = "none"]
  /\ placed' = placed \union {native.of}

RenameFails ==
  /\ Stands("rename") /\ GoOn("discard")
  /\ UNCHANGED <<webview, disk, invoked, approved, kills>>

(* The temporary file is removed, if that succeeds, and the failure told.  *)
Discard_Succeeds ==
  /\ Stands("discard") /\ Answer("succeeded")
  /\ temps' \in {temps, [temps EXCEPT ![native.of] = "none"]}
  /\ UNCHANGED <<files, placed>>

Discard ==
  /\ Stands("discard") /\ Answer("failed")
  /\ temps' \in {temps, [temps EXCEPT ![native.of] = "none"]}
  /\ UNCHANGED <<files, placed>>

-----------------------------------------------------------------------------
(* The user approves the root for the life of the process; saving a server *)
(* connection reloads the page, under native commands that go on; the      *)
(* process ends anywhere and takes its memory with it.                     *)
ApproveRoot ==
  /\ approved' = TRUE /\ ~approved
  /\ UNCHANGED <<webview, disk, invoked, native, kills>>

PageReloads ==
  /\ awaiting' = {} /\ answers' = {}
  /\ UNCHANGED <<cache, entry, sent, runs, newer, disk, process, kills>>

Killed ==
  /\ kills < MaxKills /\ kills' = kills + 1
  /\ awaiting' = {} /\ answers' = {}
  /\ invoked' = {} /\ native' = Resting /\ approved' = FALSE
  /\ UNCHANGED <<cache, entry, sent, runs, newer, disk>>

NativeStep ==
  \/ Resolve \/ Fails \/ Read \/ Delete \/ CreateTemp \/ WriteTemp
  \/ Rename \/ RenameFails \/ Discard

NativeNext ==
  \/ \E c \in Command : Replayed(c) \/ Executed(c)
  \/ \E e \in Execution, result \in Result : Finished(e, result) \/ StorageFull(e, result)
  \/ \E e \in Execution : Begin(e)
  \/ NativeStep
  \/ ApproveRoot \/ PageReloads \/ Killed

NativeSpec == NativeInit /\ [][NativeNext]_nativeVars

-----------------------------------------------------------------------------
(* Executions, cache and files hold values of their types; the cache has   *)
(* one entry for a command, and no more than its limit.                    *)
NativeTyped ==
  /\ awaiting \subseteq Execution /\ answers \subseteq Execution \X Result
  /\ invoked \subseteq Execution
  /\ native = Resting \/ native \in [step : Steps, of : Execution]
  /\ cache \in Seq(Command) /\ Len(cache) <= MaxCache
  /\ \A i, j \in DOMAIN cache : cache[i] = cache[j] => i = j
  /\ entry \in [Command -> Result] /\ sent \subseteq Command \X Result
  /\ runs \in 0..MaxRuns
  /\ approved \in BOOLEAN /\ kills \in 0..MaxKills
  /\ temps \in [Execution -> {"none", "partial", "whole"}]
  /\ files \in [Path -> {"absent", "partial", "whole"}]
  /\ placed \subseteq Execution /\ newer \in [Command -> SUBSET Command]

(* A path never holds a part of what was to be written to it, wherever the *)
(* write fails and whenever the process ends.                              *)
FilesAreWhole == \A p \in Path : files[p] /= "partial"

(* A write or trash that was reported as succeeded, or is kept as such for *)
(* a later dispatch, had its effect.                                       *)
SuccessHadEffect == \A c \in Command :
  KindOf[c] /= "read" /\ (<<c, "succeeded">> \in sent \/ (c \in Cached /\ entry[c] = "succeeded"))
    => \E n \in 1..MaxRuns : <<c, n>> \in placed

(* A command whose result entered the cache is not executed again before   *)
(* as many others have entered it as it keeps.                             *)
RecentNeverReruns ==
  [][\A e \in invoked' \ invoked :
       (\E result \in Result : <<e[1], result>> \in sent) =>
         Cardinality(newer[e[1]]) >= MaxCache]_nativeVars
=============================================================================
