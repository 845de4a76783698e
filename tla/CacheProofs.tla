----------------------------- MODULE CacheProofs -----------------------------
(***************************************************************************)
(* Proofs about the two caches of the build driver.  BuildCache, the cache *)
(* of a project's outputs: for one builder, any number of versions, and    *)
(* behaviours in which any step may fail; with two builders in one         *)
(* directory the theorems do not hold, as nothing locks it.                *)
(* GpuRuntimeCache, the runtimes that projects share: for any processes,   *)
(* files, rebuilders and number of killed processes.                       *)
(***************************************************************************)
EXTENDS BuildCache, GpuRuntimeCache, TLAPS

\* The builder has written the first n files of its plan.
HasWritten(b, n) == \A i \in 1 .. n : file[Written(plan[b].kind)[i]] = plan[b]

\* What the phase of a builder says about the files and the output.
BuilderInv(b) ==
  /\ phase[b] = "start" => done[b] = 0
  /\ phase[b] \in {"write", "link", "record"} =>
       /\ done[b] \in 0 .. Len(Written(plan[b].kind))
       /\ HasWritten(b, done[b])
  /\ phase[b] \in {"link", "record"} => done[b] = Len(Written(plan[b].kind))
  /\ phase[b] = "record" => exe[plan[b].kind] = plan[b]
  /\ phase[b] = "ok" => exe[plan[b].kind] \in {plan[b]} \cup unrecorded /\ Fresh(plan[b])

\* The recorded hash vouches for an output that exists, unless a build has
\* linked another and is about to record that, or has failed to.
HashIsTrue ==
  \A p \in Plans : hash = p =>
    \/ exe[p.kind] \in {p, Absent} \cup unrecorded
    \/ \E b \in Builders : phase[b] = "record" /\ exe[p.kind] = plan[b]

IInv == TypeOK /\ HashIsTrue /\ \A b \in Builders : BuilderInv(b)
-----------------------------------------------------------------------------
\* What Written lists, kind by kind.
LEMMA WrittenFacts ==
  ASSUME NEW k \in Kinds
  PROVE  /\ Written(k) \in Seq(Files) /\ Len(Written(k)) \in {2, 3}
         /\ \A i \in 1 .. Len(Written(k)) : Written(k)[i] \in Files
         /\ Range(Written(k)) \ {"main.ll"} # {}
         /\ Emitted(k) \in Files
<1>1. CASE k = "bin" BY <1>1 DEF Written, Files, Range, Emitted
<1>2. CASE k = "cdylib" BY <1>2 DEF Written, Files, Range, Emitted
<1>3. CASE k = "wasm" BY <1>3 DEF Written, Files, Range, Emitted
<1> QED BY <1>1, <1>2, <1>3, BuildCacheAssumption

\* The files of a complete build link to its output.
LEMMA LinkedFacts ==
  ASSUME TypeOK, NEW b \in Builders
  PROVE  /\ Linked(plan[b]) \in Plans \cup {Torn}
         /\ HasWritten(b, Len(Written(plan[b].kind))) => Linked(plan[b]) = plan[b]
<1> DEFINE k == plan[b].kind
           read == Range(Written(k)) \ (IF k = "wasm" THEN {"main.ll"} ELSE {})
<1>1. plan[b] \in Plans /\ k \in Kinds BY DEF TypeOK, Plans
<1>2. Linked(plan[b]) = IF \E q \in Plans : \A f \in read : file[f] = q
                        THEN CHOOSE q \in Plans : \A f \in read : file[f] = q ELSE Torn
  BY DEF Linked
<1>3. Linked(plan[b]) \in Plans \cup {Torn} BY <1>2
<1>4. ASSUME HasWritten(b, Len(Written(k))) PROVE Linked(plan[b]) = plan[b]
  <2>1. \A f \in read : file[f] = plan[b]
    BY <1>4 DEF HasWritten, Range
  <2>2. PICK f \in read : TRUE
    BY <1>1, WrittenFacts
  <2>3. \A q \in Plans : (\A g \in read : file[g] = q) => q = plan[b]
    BY <2>1, <2>2
  <2> HIDE DEF read
  <2> QED BY <1>1, <1>2, <2>1, <2>3
<1> QED BY <1>3, <1>4
-----------------------------------------------------------------------------
LEMMA InitInv == Init => IInv
<1> SUFFICES ASSUME Init PROVE IInv
  OBVIOUS
<1>1. TypeOK
  BY DEF Init, TypeOK, Content
<1>2. HashIsTrue /\ \A b \in Builders : BuilderInv(b)
  BY NotPlans DEF Init, BuilderInv, HashIsTrue
<1> QED BY <1>1, <1>2 DEF IInv

LEMMA StartInv ==
  ASSUME NEW b \in Builders, Builders = {b}, IInv, Start(b)
  PROVE  IInv'
<1>1. TypeOK' BY DEF IInv, TypeOK, Start, Goto, cache, Content
<1>2. BuilderInv(b)' BY DEF IInv, TypeOK, Start, Goto, BuilderInv
<1>3. HashIsTrue' BY DEF IInv, TypeOK, Start, Goto, cache, HashIsTrue
<1> QED BY <1>1, <1>2, <1>3 DEF IInv

LEMMA UseCacheInv ==
  ASSUME NEW b \in Builders, Builders = {b}, IInv, UseCache(b)
  PROVE  IInv'
<1> DEFINE k == plan[b].kind
<1>0. plan[b] \in Plans /\ k \in Kinds /\ Emitted(k) \in Files
  BY WrittenFacts DEF IInv, TypeOK, Plans
<1>1. TypeOK' BY <1>0 DEF IInv, TypeOK, UseCache, Goto, cache
<1>2. HashIsTrue /\ HashIsTrue'
  BY DEF IInv, TypeOK, UseCache, Goto, cache, HashIsTrue
<1>3. exe[k] \in {plan[b]} \cup unrecorded
  <2>1. hash = plan[b] /\ exe[k] # Absent /\ \A c \in Builders : phase[c] # "record"
    BY DEF UseCache, Fresh
  <2> QED BY <1>0, <1>2, <2>1 DEF HashIsTrue
<1>4. BuilderInv(b)'
  BY <1>3 DEF IInv, TypeOK, UseCache, Goto, cache, BuilderInv, Fresh
<1> QED BY <1>1, <1>2, <1>4 DEF IInv

LEMMA RebuildInv ==
  ASSUME NEW b \in Builders, Builders = {b}, IInv, Rebuild(b)
  PROVE  IInv'
<1>1. TypeOK' BY DEF IInv, TypeOK, Rebuild, Goto, cache
<1>2. HashIsTrue' BY DEF IInv, TypeOK, Rebuild, Goto, cache, HashIsTrue
<1>3. plan[b] \in Plans /\ plan[b].kind \in Kinds BY DEF IInv, TypeOK, Plans
<1>4. BuilderInv(b)'
  BY <1>3, WrittenFacts DEF IInv, TypeOK, Rebuild, Goto, cache, BuilderInv, HasWritten
<1> QED BY <1>1, <1>2, <1>4 DEF IInv

LEMMA WriteInv ==
  ASSUME NEW b \in Builders, Builders = {b}, IInv, Write(b)
  PROVE  IInv'
<1> DEFINE k == plan[b].kind
           f == Written(k)[done[b] + 1]
<1>0. plan[b] \in Plans /\ k \in Kinds /\ f \in Files
  BY WrittenFacts DEF IInv, TypeOK, Plans, Write
<1>1. TypeOK'
  BY <1>0 DEF IInv, TypeOK, Write, Goto, Content
<1>2. HashIsTrue' BY DEF IInv, TypeOK, Write, Goto, HashIsTrue
<1>3. CASE /\ file' = [file EXCEPT ![f] = plan[b]]
           /\ done' = [done EXCEPT ![b] = @ + 1]
           /\ UNCHANGED phase
  <2>1. HasWritten(b, done[b]) BY DEF IInv, BuilderInv, Write
  <2>2. done[b] \in 0 .. Len(Written(k)) - 1 /\ Len(Written(k)) \in Nat
    BY <1>0, WrittenFacts DEF IInv, BuilderInv, Write
  <2>3. plan' = plan /\ done'[b] = done[b] + 1 /\ phase' = phase
    BY <1>3 DEF IInv, TypeOK, Write
  <2>4. \A i \in 1 .. done[b] + 1 : i \in 1 .. done[b] \/ i = done[b] + 1
    BY <2>2
  <2>5. \A i \in 1 .. done[b] + 1 : Written(k)[i] \in Files
    BY <1>0, <2>2, WrittenFacts
  <2>6. HasWritten(b, done[b])'
    BY <1>3, <2>1, <2>2, <2>3, <2>4, <2>5 DEF IInv, TypeOK, HasWritten
  <2>7. BuilderInv(b)'
    BY <2>2, <2>3, <2>6 DEF BuilderInv, Write
  <2> QED BY <1>1, <1>2, <2>7 DEF IInv
<1>4. CASE phase' = [phase EXCEPT ![b] = "failed"]
  <2>1. BuilderInv(b)' BY <1>4 DEF IInv, TypeOK, BuilderInv
  <2> QED BY <1>1, <1>2, <2>1 DEF IInv
<1> QED BY <1>3, <1>4 DEF Write, Goto

LEMMA EmitInv ==
  ASSUME NEW b \in Builders, Builders = {b}, IInv, Emit(b)
  PROVE  IInv'
<1> DEFINE k == plan[b].kind
<1>0. plan[b] \in Plans /\ k \in Kinds /\ Emitted(k) \in Files
  BY WrittenFacts DEF IInv, TypeOK, Plans
<1>1. TypeOK' BY <1>0 DEF IInv, TypeOK, Emit, Goto, cache
<1>2. HashIsTrue' BY DEF IInv, TypeOK, Emit, Goto, cache, HashIsTrue
<1>3. BuilderInv(b)'
  BY DEF IInv, TypeOK, Emit, Goto, cache, BuilderInv, HasWritten
<1> QED BY <1>1, <1>2, <1>3 DEF IInv

LEMMA LinkInv ==
  ASSUME NEW b \in Builders, Builders = {b}, IInv, Link(b)
  PROVE  IInv'
<1> DEFINE k == plan[b].kind
<1>0. plan[b] \in Plans /\ k \in Kinds BY DEF IInv, TypeOK, Plans
<1>1. Linked(plan[b]) = plan[b]
  BY <1>0, LinkedFacts DEF IInv, BuilderInv, Link
<1>2. TypeOK' BY <1>0, <1>1 DEF IInv, TypeOK, Link, Goto, Content
<1>3. CASE exe' = [exe EXCEPT ![k] = Linked(plan[b])] /\ Goto(b, "record")
  <2>1. BuilderInv(b)'
    BY <1>0, <1>1, <1>3 DEF IInv, TypeOK, Link, Goto, BuilderInv, HasWritten
  <2>2. HashIsTrue'
    <3>1. phase'[b] = "record" /\ plan' = plan /\ exe'[k] = plan[b]
          /\ hash' = hash /\ unrecorded' = unrecorded
      BY <1>0, <1>1, <1>3 DEF IInv, TypeOK, Link, Goto
    <3>2. \A p \in Plans : p.kind # k => exe'[p.kind] = exe[p.kind]
      BY <1>0, <1>3 DEF IInv, TypeOK, Plans
    <3>3. HashIsTrue /\ \A c \in Builders : phase[c] # "record"
      BY DEF IInv, Link
    <3> QED BY <3>1, <3>2, <3>3 DEF HashIsTrue
  <2> QED BY <1>2, <2>1, <2>2 DEF IInv
<1>4. CASE /\ \E left \in {exe[k], Absent} : exe' = [exe EXCEPT ![k] = left]
           /\ Goto(b, "failed")
  <2>1. BuilderInv(b)' BY <1>4 DEF IInv, TypeOK, Goto, BuilderInv
  <2>2. HashIsTrue /\ \A c \in Builders : phase[c] # "record" BY DEF IInv, Link
  <2>3. HashIsTrue' BY <1>0, <1>4, <2>2 DEF IInv, TypeOK, Link, HashIsTrue, Plans
  <2> QED BY <1>2, <2>1, <2>3 DEF IInv
<1> QED BY <1>3, <1>4 DEF Link

LEMMA RecordInv ==
  ASSUME NEW b \in Builders, Builders = {b}, IInv, Record(b)
  PROVE  IInv'
<1> DEFINE k == plan[b].kind
<1>0. plan[b] \in Plans /\ k \in Kinds BY DEF IInv, TypeOK, Plans
<1>1. TypeOK' BY <1>0 DEF IInv, TypeOK, Record, Goto, Content
<1>2. exe[k] = plan[b] /\ HasWritten(b, Len(Written(k)))
  BY DEF IInv, BuilderInv, Record
<1>3. \A f \in Required(k) : file[f] = plan[b]
  BY <1>2 DEF HasWritten, Required, Range
<1>4. CASE hash' = plan[b] /\ unrecorded' = {} /\ Goto(b, "ok")
  <2>1. HashIsTrue' BY <1>0, <1>2, <1>4 DEF Record, HashIsTrue
  <2>2. Fresh(plan[b])' BY <1>0, <1>2, <1>3, <1>4, NotPlans DEF Record, Fresh
  <2>3. BuilderInv(b)' BY <1>2, <1>4, <2>2 DEF IInv, TypeOK, Record, Goto, BuilderInv
  <2> QED BY <1>1, <2>1, <2>3 DEF IInv
<1>5. CASE hash' = Torn /\ unrecorded' = {} /\ Goto(b, "failed")
  <2>1. HashIsTrue' BY <1>5, NotPlans DEF HashIsTrue
  <2>2. BuilderInv(b)' BY <1>5 DEF IInv, TypeOK, Goto, BuilderInv
  <2> QED BY <1>1, <2>1, <2>2 DEF IInv
<1>6. CASE /\ unrecorded' = {p \in unrecorded : p.kind # k} \cup {plan[b]}
           /\ Goto(b, "failed")
           /\ UNCHANGED hash
  <2>1. ASSUME NEW p \in Plans, hash = p
        PROVE  exe[p.kind] \in {p, Absent} \cup unrecorded'
    <3>1. CASE p.kind = k BY <1>2, <1>6, <3>1
    <3>2. CASE p.kind # k
      <4>1. CASE \E c \in Builders : exe[p.kind] = plan[c] BY <1>6, <4>1
      <4>2. CASE exe[p.kind] \in {p, Absent} BY <4>2
      <4>3. CASE exe[p.kind] \in unrecorded
        <5>1. p.kind \in Kinds /\ Absent \notin unrecorded
          BY NotPlans DEF IInv, TypeOK, Plans
        <5>2. exe[p.kind].kind # k BY <3>2, <4>3, <5>1 DEF IInv, TypeOK
        <5> QED BY <1>6, <4>3, <5>2
      <4> QED BY <2>1, <4>1, <4>2, <4>3 DEF IInv, HashIsTrue
    <3> QED BY <3>1, <3>2
  <2>2. HashIsTrue' BY <1>6, <2>1 DEF Record, HashIsTrue
  <2>3. BuilderInv(b)' BY <1>6 DEF IInv, TypeOK, Goto, BuilderInv
  <2> QED BY <1>1, <2>2, <2>3 DEF IInv
<1> QED BY <1>4, <1>5, <1>6 DEF Record
-----------------------------------------------------------------------------
\* One builder in the directory, in whatever states its builds end: written
\* files, outputs and hash agree, and where a failed record left the old hash
\* beside a new output, that output is in unrecorded.
THEOREM Invariance ==
  ASSUME NEW b, Builders = {b}
  PROVE  Spec => []IInv
<1>1. IInv /\ [Next]_vars => IInv'
  <2> SUFFICES ASSUME IInv, [Next]_vars PROVE IInv'
    OBVIOUS
  <2>1. CASE UNCHANGED vars
    <3>1. TypeOK' /\ (HashIsTrue => HashIsTrue') BY <2>1 DEF IInv, vars, cache, TypeOK, HashIsTrue
    <3>2. \A c \in Builders : BuilderInv(c) => BuilderInv(c)'
      BY <2>1 DEF vars, cache, BuilderInv, HasWritten, Fresh
    <3>3. phase' = phase BY <2>1 DEF vars
    <3> QED BY <3>1, <3>2, <3>3 DEF IInv
  <2>2. CASE Next
    BY <2>2, StartInv, UseCacheInv, RebuildInv, WriteInv, EmitInv, LinkInv, RecordInv DEF Next
  <2> QED BY <2>1, <2>2
<1> QED BY InitInv, <1>1, PTL DEF Spec

\* The state keeps its shape, and no output is linked from files of two builds.
THEOREM TypeCorrect ==
  ASSUME NEW b, Builders = {b}
  PROVE  Spec => []TypeOK
<1>1. IInv => TypeOK BY DEF IInv
<1> QED BY Invariance, <1>1, PTL

\* A build that succeeds leaves the output of the sources it was given, for
\* any number of versions and after any sequence of builds that failed or were
\* killed at any step, unless a build that replaced the output did not get to
\* touch the old hash (unrecorded).
THEOREM OutputsAreCurrent ==
  ASSUME NEW b, Builders = {b}
  PROVE  Spec => []OutputIsCurrent
<1>1. IInv => OutputIsCurrent BY DEF IInv, BuilderInv, OutputIsCurrent
<1> QED BY Invariance, <1>1, PTL

\* The same build again finds that output fresh, for any number of versions.
THEOREM SuccessesAreCached ==
  ASSUME NEW b, Builders = {b}
  PROVE  Spec => []SuccessIsCached
<1>1. IInv => SuccessIsCached BY DEF IInv, BuilderInv, SuccessIsCached
<1> QED BY Invariance, <1>1, PTL
-----------------------------------------------------------------------------
\* A process that goes on has files left to copy.
Copying == \A p \in Processes : pc[p] \notin Ended => copies[p] < Len(Copied)

\* A process that builds and was not told to rebuild has found, under the
\* lock, that a required file is missing; so it still is.
BuildsForAReason ==
  \A p \in Processes \ Rebuilders :
    pc[p] \in {"stage", "remove", "rename"} => ~(RequiredFiles \subseteq entry)

\* As long as no process that was told to rebuild has removed anything, the
\* entry is whole or empty, and who copies has all of it.
Whole ==
  replacers \cap Rebuilders = {} =>
    /\ entry \in {{}, RuntimeFiles}
    /\ \A p \in Processes : /\ pc[p] \notin {"remove", "missing"}
                            /\ pc[p] = "copy" => entry = RuntimeFiles
                            /\ pc[p] = "rename" => entry = {}

RuntimeInv ==
  RuntimeTypeOK /\ BuildsAreSerialized /\ BuildsForAReason /\ Copying /\ Whole
-----------------------------------------------------------------------------
LEMMA CopiedFacts ==
  /\ Len(Copied) \in Nat \ {0}
  /\ RuntimeFiles = {Copied[i] : i \in 1 .. Len(Copied)}
<1>1. Copied \in Seq(Range(Copied)) /\ Copied # <<>> BY GpuRuntimeCacheAssumption
<1> QED BY <1>1 DEF RuntimeFiles, Range

LEMMA RuntimeInitInv == RuntimeInit => RuntimeInv
<1> SUFFICES ASSUME RuntimeInit PROVE RuntimeInv
  OBVIOUS
<1>1. RuntimeTypeOK
  BY CopiedFacts, GpuRuntimeCacheAssumption DEF RuntimeInit, RuntimeTypeOK, Building, Ended
<1> QED BY <1>1, CopiedFacts
  DEF RuntimeInv, RuntimeInit, BuildsAreSerialized, BuildsForAReason, Copying, Whole, Building, Ended

LEMMA TypeStep ==
  ASSUME RuntimeInv, NEW p \in Processes, Work(p) \/ Crash(p)
  PROVE  RuntimeTypeOK' /\ Copying'
<1>0. /\ Len(Copied) \in Nat \ {0} /\ MaxCrashes \in Nat
      /\ "lock" \in {"check", "lock", "copy"} \cup Building \cup Ended
  BY CopiedFacts, GpuRuntimeCacheAssumption
<1>1. CASE Check(p)
  BY <1>0, <1>1 DEF RuntimeInv, RuntimeTypeOK, Copying, Check, Proceed, Building, Ended
<1>2. CASE Acquire(p)
  BY <1>0, <1>2 DEF RuntimeInv, RuntimeTypeOK, Copying, Acquire, Proceed, Building, Ended
<1>3. CASE TimeOut(p)
  BY <1>0, <1>3 DEF RuntimeInv, RuntimeTypeOK, Copying, TimeOut, Proceed, Building, Ended
<1>4. CASE Recheck(p)
  BY <1>0, <1>4 DEF RuntimeInv, RuntimeTypeOK, Copying, Recheck, Release, Proceed, Building, Ended
<1>5. CASE Stage(p)
  BY <1>0, <1>5 DEF RuntimeInv, RuntimeTypeOK, Copying, Stage, Release, Proceed, Building, Ended
<1>6. CASE RemoveFile(p)
  BY <1>0, <1>6 DEF RuntimeInv, RuntimeTypeOK, Copying, RemoveFile, Release, Proceed, Building, Ended
<1>7. CASE Rename(p)
  BY <1>0, <1>7 DEF RuntimeInv, RuntimeTypeOK, Copying, Rename, Release, Proceed, Building, Ended
<1>8. CASE Copy(p)
  BY <1>0, <1>8 DEF RuntimeInv, RuntimeTypeOK, Copying, Copy, Proceed, Building, Ended
<1>9. CASE Crash(p)
  BY <1>0, <1>9 DEF RuntimeInv, RuntimeTypeOK, Copying, Crash, Proceed, Building, Ended
<1> QED BY <1>1, <1>2, <1>3, <1>4, <1>5, <1>6, <1>7, <1>8, <1>9 DEF Work
LEMMA SerializedStep ==
  ASSUME RuntimeInv, NEW p \in Processes, Work(p) \/ Crash(p)
  PROVE  BuildsAreSerialized'
<1>0. RuntimeTypeOK /\ BuildsAreSerialized BY DEF RuntimeInv
<1>1. CASE Check(p) BY <1>0, <1>1 DEF RuntimeTypeOK, Check, Proceed, BuildsAreSerialized, Building
<1>2. CASE Acquire(p)
  BY <1>0, <1>2, GpuRuntimeCacheAssumption
  DEF RuntimeTypeOK, Acquire, Proceed, BuildsAreSerialized, Building
<1>3. CASE TimeOut(p) BY <1>0, <1>3 DEF RuntimeTypeOK, TimeOut, Proceed, BuildsAreSerialized, Building
<1>4. CASE Recheck(p)
  BY <1>0, <1>4 DEF RuntimeTypeOK, Recheck, Release, Proceed, BuildsAreSerialized, Building
<1>5. CASE Stage(p)
  BY <1>0, <1>5 DEF RuntimeTypeOK, Stage, Release, Proceed, BuildsAreSerialized, Building
<1>6. CASE RemoveFile(p)
  BY <1>0, <1>6 DEF RuntimeTypeOK, RemoveFile, Release, Proceed, BuildsAreSerialized, Building
<1>7. CASE Rename(p)
  BY <1>0, <1>7 DEF RuntimeTypeOK, Rename, Release, Proceed, BuildsAreSerialized, Building
<1>8. CASE Copy(p) BY <1>0, <1>8 DEF RuntimeTypeOK, Copy, Proceed, BuildsAreSerialized, Building
<1>9. CASE Crash(p)
  BY <1>0, <1>9 DEF RuntimeTypeOK, Crash, Proceed, BuildsAreSerialized, Building, Ended
<1> QED BY <1>1, <1>2, <1>3, <1>4, <1>5, <1>6, <1>7, <1>8, <1>9 DEF Work

LEMMA ReasonStep ==
  ASSUME RuntimeInv, NEW p \in Processes, Work(p) \/ Crash(p)
  PROVE  BuildsForAReason'
<1>0. RuntimeTypeOK /\ BuildsAreSerialized /\ BuildsForAReason BY DEF RuntimeInv
<1>1. CASE Check(p) BY <1>0, <1>1 DEF RuntimeTypeOK, Check, Proceed, BuildsForAReason
<1>2. CASE Acquire(p) BY <1>0, <1>2 DEF RuntimeTypeOK, Acquire, Proceed, BuildsForAReason
<1>3. CASE TimeOut(p) BY <1>0, <1>3 DEF RuntimeTypeOK, TimeOut, Proceed, BuildsForAReason
<1>4. CASE Recheck(p)
  BY <1>0, <1>4 DEF RuntimeTypeOK, Recheck, Release, Proceed, BuildsForAReason, MustBuild
<1>5. CASE Stage(p) BY <1>0, <1>5 DEF RuntimeTypeOK, Stage, Release, Proceed, BuildsForAReason
<1>6. CASE RemoveFile(p)
  BY <1>0, <1>6 DEF RuntimeTypeOK, RemoveFile, Release, Proceed, BuildsForAReason
<1>7. CASE Rename(p)
  <2>1. \A q \in Processes \ {p} : pc[q] \notin Building
    BY <1>0, <1>7, GpuRuntimeCacheAssumption DEF BuildsAreSerialized, Rename, Building
  <2>2. \A q \in Processes : pc'[q] \notin {"stage", "remove", "rename"}
    BY <1>0, <1>7, <2>1 DEF RuntimeTypeOK, Rename, Release, Proceed, Building
  <2> QED BY <2>2 DEF BuildsForAReason
<1>8. CASE Copy(p) BY <1>0, <1>8 DEF RuntimeTypeOK, Copy, Proceed, BuildsForAReason
<1>9. CASE Crash(p) BY <1>0, <1>9 DEF RuntimeTypeOK, Crash, Proceed, BuildsForAReason
<1> QED BY <1>1, <1>2, <1>3, <1>4, <1>5, <1>6, <1>7, <1>8, <1>9 DEF Work

LEMMA WholeStep ==
  ASSUME RuntimeInv, NEW p \in Processes, Work(p) \/ Crash(p)
  PROVE  Whole'
<1> SUFFICES ASSUME (replacers \cap Rebuilders = {})'
             PROVE  /\ entry' \in {{}, RuntimeFiles}
                    /\ \A q \in Processes : /\ pc'[q] \notin {"remove", "missing"}
                                            /\ pc'[q] = "copy" => entry' = RuntimeFiles
                                            /\ pc'[q] = "rename" => entry' = {}
  BY DEF Whole
<1>0. /\ RuntimeTypeOK /\ BuildsAreSerialized /\ BuildsForAReason /\ Copying
      /\ RequiredFiles # {} /\ RequiredFiles \subseteq RuntimeFiles /\ RuntimeFiles # {}
      /\ Rebuilders \subseteq Processes
  BY GpuRuntimeCacheAssumption DEF RuntimeInv, RuntimeFiles
<1>01. /\ entry \in {{}, RuntimeFiles}
       /\ \A q \in Processes : /\ pc[q] \notin {"remove", "missing"}
                               /\ pc[q] = "copy" => entry = RuntimeFiles
                               /\ pc[q] = "rename" => entry = {}
  <2>1. replacers \subseteq replacers'
    BY DEF Work, Check, Acquire, TimeOut, Recheck, Stage, RemoveFile, Rename, Copy, Crash
  <2> QED BY <2>1 DEF RuntimeInv, Whole
<1>1. CASE Check(p)
  BY <1>0, <1>01, <1>1 DEF RuntimeTypeOK, Check, Proceed, MustBuild
<1>2. CASE Acquire(p) BY <1>0, <1>01, <1>2 DEF RuntimeTypeOK, Acquire, Proceed
<1>3. CASE TimeOut(p) BY <1>0, <1>01, <1>3 DEF RuntimeTypeOK, TimeOut, Proceed
<1>4. CASE Recheck(p)
  BY <1>0, <1>01, <1>4 DEF RuntimeTypeOK, Recheck, Release, Proceed, MustBuild
<1>5. CASE Stage(p)
  <2>1. p \notin Rebuilders => entry = {}
    BY <1>0, <1>01, <1>5 DEF BuildsForAReason, Stage
  <2>2. p \in Rebuilders /\ entry # {} => ~ (pc'[p] = "remove")
    BY <1>5, <1>0 DEF RuntimeTypeOK, Stage, Release, Proceed
  <2> QED BY <1>0, <1>01, <1>5, <2>1, <2>2 DEF RuntimeTypeOK, Stage, Release, Proceed
<1>6. CASE RemoveFile(p) BY <1>01, <1>6 DEF RemoveFile
<1>7. CASE Rename(p)
  <2>1. \A q \in Processes \ {p} : pc[q] # "rename" /\ pc[q] # "copy"
    <3>1. \A q \in Processes \ {p} : pc[q] \notin Building
      BY <1>0, <1>7 DEF BuildsAreSerialized, Rename, Building
    <3>2. pc[p] = "rename" BY <1>7 DEF Rename
    <3> QED BY <1>0, <1>01, <3>1, <3>2 DEF Building
  <2> QED BY <1>0, <1>01, <1>7, <2>1 DEF RuntimeTypeOK, Rename, Release, Proceed
<1>8. CASE Copy(p)
  <2>1. Copied[copies[p] + 1] \in RuntimeFiles
    BY <1>0, <1>8, CopiedFacts DEF RuntimeTypeOK, Copying, Copy, Ended
  <2>2. entry = RuntimeFiles BY <1>01, <1>8 DEF Copy
  <2> QED BY <1>0, <1>01, <1>8, <2>1, <2>2 DEF RuntimeTypeOK, Copy, Proceed
<1>9. CASE Crash(p) BY <1>0, <1>01, <1>9 DEF RuntimeTypeOK, Crash, Proceed
<1> QED BY <1>1, <1>2, <1>3, <1>4, <1>5, <1>6, <1>7, <1>8, <1>9 DEF Work
-----------------------------------------------------------------------------
\* The inductive invariant: the lock has one owner, whoever builds without
\* being told to has, under it, seen a required file missing, and the entry is
\* whole or empty until a process that was told to has begun to remove it.
THEOREM RuntimeInvariance == RuntimeSpec => []RuntimeInv
<1>1. RuntimeInv /\ [RuntimeNext]_runtimeVars => RuntimeInv'
  <2> SUFFICES ASSUME RuntimeInv, [RuntimeNext]_runtimeVars PROVE RuntimeInv'
    OBVIOUS
  <2>1. CASE UNCHANGED runtimeVars
    BY <2>1 DEF runtimeVars, RuntimeInv, RuntimeTypeOK, BuildsAreSerialized, BuildsForAReason,
                Copying, Whole
  <2>2. CASE RuntimeNext
    BY <2>2, TypeStep, SerializedStep, ReasonStep, WholeStep DEF RuntimeNext, RuntimeInv
  <2> QED BY <2>1, <2>2
<1> QED BY RuntimeInitInv, <1>1, PTL DEF RuntimeSpec

\* The state keeps its shape, and a process that is done has copied every file,
\* for any files and kills.
THEOREM RuntimeTypeCorrect == RuntimeSpec => []RuntimeTypeOK
<1>1. RuntimeInv => RuntimeTypeOK BY DEF RuntimeInv
<1> QED BY RuntimeInvariance, <1>1, PTL

\* Two processes never build or replace the entry at once, whatever processes
\* are killed or time out.
THEOREM Serialized == RuntimeSpec => []BuildsAreSerialized
<1>1. RuntimeInv => BuildsAreSerialized BY DEF RuntimeInv
<1> QED BY RuntimeInvariance, <1>1, PTL

\* No build finds a file of the runtime missing before a process that was told
\* to rebuild has begun to remove the entry, for any processes, files and kills.
THEOREM ReadersSeeAllOrNone == RuntimeSpec => []MissingFilesTakeARebuild
<1>1. RuntimeInv => MissingFilesTakeARebuild
  BY DEF RuntimeInv, Whole, MissingFilesTakeARebuild
<1> QED BY RuntimeInvariance, <1>1, PTL

\* A usable entry changes only under a process that was told to rebuild it:
\* what one process published, a process that waited for the lock leaves be.
THEOREM UsableEntriesStay == RuntimeSpec => OnlyRebuildersReplace
<1> DEFINE Replaced == RequiredFiles \subseteq entry /\ entry' # entry
           ByRebuilder == \E p \in Rebuilders : pc[p] \in {"remove", "rename"}
<1>1. RuntimeInv /\ [RuntimeNext]_runtimeVars => (Replaced => ByRebuilder)
  <2> SUFFICES ASSUME RuntimeInv, [RuntimeNext]_runtimeVars, Replaced PROVE ByRebuilder
    OBVIOUS
  <2>1. PICK p \in Processes : RemoveFile(p) \/ Rename(p)
    BY DEF RuntimeNext, Work, runtimeVars, Check, Acquire, TimeOut, Recheck, Stage, Copy, Crash
  <2>2. pc[p] \in {"remove", "rename"} BY <2>1 DEF RemoveFile, Rename
  <2>3. p \in Rebuilders BY <2>2 DEF RuntimeInv, BuildsForAReason
  <2> QED BY <2>2, <2>3
<1>2. RuntimeInv /\ [RuntimeNext]_runtimeVars => [Replaced => ByRebuilder]_runtimeVars BY <1>1
<1> QED BY RuntimeInvariance, <1>2, PTL DEF RuntimeSpec, OnlyRebuildersReplace
==============================================================================
