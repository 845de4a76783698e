-------------------------- MODULE GpuRuntimeCache --------------------------
(***************************************************************************)
(* The cache of generated wgpu runtimes that all projects of a user share  *)
(* (build_native_gpu_runtime and build_wasm_gpu_runtime in                 *)
(* src/src/build.rs).  A compiler process that misses a file of the entry, *)
(* or is told to rebuild it, takes a lock directory, looks again, builds   *)
(* into a staging directory of its own, replaces the entry by it, and      *)
(* releases the lock; then, without the lock, every process copies the     *)
(* entry's files into its project.  The model is of one entry.             *)
(***************************************************************************)
EXTENDS Integers, Sequences, SequencesExt

CONSTANTS
  Processes,   (* Compiler processes, each building one project.             *)
  Rebuilders,  (* Those with FLOWARROW_REBUILD_GPU_RUNTIME set.              *)
  Copied,      (* The files copied to the project, in order.                 *)
  RequiredFiles,  (* Those whose absence makes a process build the runtime.  *)
  Nobody,      (* Stands for no process.                                     *)
  MaxCrashes   (* Bound: processes killed.                                   *)

ASSUME GpuRuntimeCacheAssumption ==
  /\ Rebuilders \subseteq Processes /\ Nobody \notin Processes
  /\ Copied \in Seq(Range(Copied)) /\ Copied # <<>>
  /\ RequiredFiles \subseteq Range(Copied) /\ RequiredFiles # {}
  /\ MaxCrashes \in Nat

RuntimeFiles == Range(Copied)

VARIABLES
  entry,   (* The files of the cache entry.                                  *)
  lock,    (* Who made the lock directory that exists, or Nobody.            *)
  pc,      (* pc[p]: how far process p is.                                   *)
  copies,  (* copies[p]: how many files p has copied.                        *)
  crashes, (* How many processes were killed.                                *)
  replacers (* History: the processes that began to remove an entry.         *)

runtimeVars == <<entry, lock, pc, copies, crashes, replacers>>

Building == {"recheck", "stage", "remove", "rename"}
Ended    == {"done", "failed", "missing", "killed"}
-----------------------------------------------------------------------------
RuntimeInit ==
  /\ entry   = {}
  /\ lock    = Nobody
  /\ pc      = [p \in Processes |-> "check"]
  /\ copies  = [p \in Processes |-> 0]
  /\ crashes = 0
  /\ replacers = {}

Proceed(p, where) == pc' = [pc EXCEPT ![p] = where]

\* should_rebuild_gpu_runtime() || !built.exists()
MustBuild(p) == p \in Rebuilders \/ ~(RequiredFiles \subseteq entry)

Check(p) ==
  /\ pc[p] = "check"
  /\ Proceed(p, IF MustBuild(p) THEN "lock" ELSE "copy")
  /\ UNCHANGED <<entry, lock, copies, crashes, replacers>>

AcquireAnyway(p) ==  \* Fault: an existing lock directory is no obstacle.
  /\ pc[p] = "lock"
  /\ lock' = p
  /\ Proceed(p, "recheck")
  /\ UNCHANGED <<entry, copies, crashes, replacers>>
\* lock_gpu_runtime_cache: create_dir succeeds for one process.
Acquire(p) ==
  /\ pc[p] = "lock"
  /\ lock = Nobody
  /\ lock' = p
  /\ Proceed(p, "recheck")
  /\ UNCHANGED <<entry, copies, crashes, replacers>>

NeverTimeOut(p) ==  \* Fault: the wait for the lock has no end.
  FALSE /\ UNCHANGED runtimeVars
\* It waits 300 seconds for a lock directory that stays, or cannot make one.
TimeOut(p) ==
  /\ pc[p] = "lock"
  /\ Proceed(p, "failed")
  /\ UNCHANGED <<entry, lock, copies, crashes, replacers>>

\* The lock guard is dropped as p goes on, with the runtime or an error.
Release(p, where) ==
  /\ lock' = Nobody
  /\ Proceed(p, where)

RecheckNothing(p) ==  \* Fault: what another process published goes unnoticed.
  /\ pc[p] = "recheck"
  /\ Proceed(p, "stage")
  /\ UNCHANGED <<entry, lock, copies, crashes, replacers>>
Recheck(p) ==
  /\ pc[p] = "recheck"
  /\ IF MustBuild(p) THEN Proceed(p, "stage") /\ UNCHANGED lock
                     ELSE Release(p, "copy")
  /\ UNCHANGED <<entry, copies, crashes, replacers>>

\* The runtime is built into p's staging directory; an entry that exists must
\* go first.
Stage(p) ==
  /\ pc[p] = "stage"
  /\ \/ entry = {} /\ Proceed(p, "rename") /\ UNCHANGED <<lock, replacers>>
     \/ /\ entry # {}
        /\ replacers' = replacers \cup {p}
        /\ Proceed(p, "remove")
        /\ UNCHANGED lock
     \/ Release(p, "failed") /\ UNCHANGED replacers
  /\ UNCHANGED <<entry, copies, crashes>>

\* remove_dir_all(cache_entry) takes the files one by one, or stops at one.
RemoveFile(p) ==
  /\ pc[p] = "remove"
  /\ \/ \E f \in entry :
          /\ entry' = entry \ {f}
          /\ Proceed(p, IF entry' = {} THEN "rename" ELSE "remove")
          /\ UNCHANGED lock
     \/ Release(p, "failed") /\ UNCHANGED entry
  /\ UNCHANGED <<copies, crashes, replacers>>

RenameOneByOne(p) ==  \* Fault: the files are moved into the entry singly.
  /\ pc[p] = "rename"
  /\ \E f \in RuntimeFiles \ entry : entry' = entry \cup {f}
  /\ IF entry' = RuntimeFiles THEN Release(p, "copy") ELSE UNCHANGED <<lock, pc>>
  /\ UNCHANGED <<copies, crashes, replacers>>
\* rename(staging, cache_entry): all files appear at once.
Rename(p) ==
  /\ pc[p] = "rename"
  /\ \/ entry' = RuntimeFiles /\ Release(p, "copy")
     \/ Release(p, "failed") /\ UNCHANGED entry
  /\ UNCHANGED <<copies, crashes, replacers>>

\* fs::copy of the next file to the project, whoever holds the lock; the build
\* fails when it is not there ("failed to copy ... from ...").
Copy(p) ==
  LET f == Copied[copies[p] + 1]
  IN  /\ pc[p] = "copy"
      /\ IF f \in entry
         THEN /\ copies' = [copies EXCEPT ![p] = @ + 1]
              /\ Proceed(p, IF copies'[p] = Len(Copied) THEN "done" ELSE "copy")
         ELSE /\ Proceed(p, "missing")
              /\ UNCHANGED copies
      /\ UNCHANGED <<entry, lock, crashes, replacers>>

\* A killed process leaves the lock directory, and the entry as it is.
Crash(p) ==
  /\ pc[p] \notin Ended
  /\ crashes < MaxCrashes
  /\ crashes' = crashes + 1
  /\ Proceed(p, "killed")
  /\ UNCHANGED <<entry, lock, copies, replacers>>

Work(p) ==
  \/ Check(p) \/ Acquire(p) \/ TimeOut(p) \/ Recheck(p)
  \/ Stage(p) \/ RemoveFile(p) \/ Rename(p) \/ Copy(p)

RuntimeNext == \E p \in Processes : Work(p) \/ Crash(p)

\* Every process runs on until it ends.
RuntimeSpec ==
  /\ RuntimeInit /\ [][RuntimeNext]_runtimeVars
  /\ \A p \in Processes : WF_runtimeVars(Work(p))
-----------------------------------------------------------------------------
\* The shape of the state; a build that succeeds has copied every file.
RuntimeTypeOK ==
  /\ entry \subseteq RuntimeFiles
  /\ lock \in Processes \cup {Nobody}
  /\ pc \in [Processes -> {"check", "lock", "copy"} \cup Building \cup Ended]
  /\ copies \in [Processes -> 0 .. Len(Copied)]
  /\ \A p \in Processes : pc[p] = "done" => copies[p] = Len(Copied)
  /\ crashes \in 0 .. MaxCrashes
  /\ replacers \subseteq Processes

\* Two processes never build or replace the entry at once, and none does while
\* a lock directory stands that it did not make.
BuildsAreSerialized ==
  \A p \in Processes : pc[p] \in Building => lock = p

\* A build finds a file of the runtime missing only after a process that was
\* told to rebuild has begun to remove the entry: whatever else is built, fails
\* or is killed, a reader that holds no lock sees all files or none.
\* (src/docs/backend.md:313-314 promises that artifacts are published at once.)
MissingFilesTakeARebuild ==
  (\E p \in Processes : pc[p] = "missing") => replacers \cap Rebuilders # {}

\* Nobody removes a usable entry unless told to rebuild: one that appears while
\* a process waits for the lock is found by its second look.
OnlyRebuildersReplace ==
  [][(RequiredFiles \subseteq entry /\ entry' # entry) =>
       \E p \in Rebuilders : pc[p] \in {"remove", "rename"}]_runtimeVars

\* Every build gets its runtime or an error, also behind a lock directory that
\* a killed process has left for ever.
ProcessesEnd == <>(\A p \in Processes : pc[p] \in Ended)
=============================================================================
