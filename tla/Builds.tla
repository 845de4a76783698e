------------------------------- MODULE Builds -------------------------------
(***************************************************************************)
(* The two caches of the build driver together (src/src/build.rs): a build *)
(* with --gpu gets its generated runtime from the shared cache before it   *)
(* asks whether its own output is fresh (build_native_bin,                 *)
(* build_native_cdylib).  The caches share no file and no state, so a step *)
(* on one commutes with a step on the other.                               *)
(***************************************************************************)
EXTENDS BuildCache, GpuRuntimeCache

buildsVars == <<vars, runtimeVars>>
-----------------------------------------------------------------------------
BuildsInit == RuntimeInit /\ Init

\* Bound: the build directory is looked at when every process has copied its
\* runtime and none had to replace it.  As the steps on the two caches commute
\* this hides no state of either.
Fetched == replacers = {} /\ \A p \in Processes : pc[p] = "done"

Fetch(p) == Work(p) /\ UNCHANGED vars
Killed(p) == Crash(p) /\ UNCHANGED vars
Build == Fetched /\ Next /\ UNCHANGED runtimeVars

BuildsNext == Build \/ \E p \in Processes : Fetch(p) \/ Killed(p)

\* A compiler that fetches its runtime runs on; a build may always be stopped.
BuildsSpec ==
  /\ BuildsInit /\ [][BuildsNext]_buildsVars
  /\ \A p \in Processes : WF_buildsVars(Fetch(p))
-----------------------------------------------------------------------------
\* The shape of both caches.
BuildsTypeOK == TypeOK /\ RuntimeTypeOK
=============================================================================
