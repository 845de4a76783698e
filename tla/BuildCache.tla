----------------------------- MODULE BuildCache -----------------------------
(***************************************************************************)
(* The build directory of one source file (src/src/build.rs): the cached   *)
(* intermediate files, the output, and the hash that says which build they *)
(* belong to.  A build emits code for the sources as they are, hashes it,  *)
(* and either finds its output fresh or writes the files one by one, links *)
(* them and records its hash last.  Any step may fail, and a compiler that *)
(* is killed leaves what a failure at that step leaves; nothing stops two  *)
(* builds from running at once in the same directory.                      *)
(***************************************************************************)
EXTENDS Integers, Sequences, SequencesExt

CONSTANTS
  Versions,  (* What sources and options can be; equal versions hash alike.  *)
  Kinds,     (* Kinds of output that are built.                              *)
  Builders,  (* Compiler processes; each runs any number of builds.          *)
  Absent,    (* Stands for a file that does not exist.                       *)
  Torn       (* Stands for the content of a file that is no build's.         *)

ASSUME BuildCacheAssumption == Kinds \subseteq {"bin", "cdylib", "wasm"}

\* A build is for a version and a kind; its build_hash stands for both.
Plans == [version : Versions, kind : Kinds]
Files == {"main.ll", "runtime.ll", "library.c", "main.o", "foreign.o"}

ASSUME NotPlans == Absent \notin Plans /\ Torn \notin Plans /\ Absent # Torn

\* The files a build writes, in order; those it must find to be fresh; and the
\* one that --emit-llvm copies.
Written(kind) ==
  CASE kind = "bin"    -> <<"main.ll", "runtime.ll", "foreign.o">>
    [] kind = "cdylib" -> <<"library.c", "foreign.o">>
    [] kind = "wasm"   -> <<"main.ll", "main.o">>
Required(kind) == Range(Written(kind)) \ {"foreign.o"}
Emitted(kind)  == IF kind = "cdylib" THEN "library.c" ELSE "main.ll"

\* The two kinds of native output share a directory; wasm has one of its own,
\* and a behaviour is that of one directory.
SameDirectory(k, l) == k = "wasm" <=> l = "wasm"

VARIABLES
  file,   (* file[f]: the build whose content cache file f has.              *)
  exe,    (* exe[k]: the build the output of kind k was linked for.          *)
  hash,   (* The build whose hash build.hash holds.                          *)
  unrecorded, (* History: for each output, the build that was the last to    *)
          (* replace it and then did not open build.hash, since any did.     *)
  phase,  (* phase[b]: how far builder b is.                                 *)
  plan,   (* plan[b]: the build b is doing or did last.                      *)
  emit,   (* emit[b]: --emit-llvm was given.                                 *)
  out,    (* out[b]: the build whose code was copied for --emit-llvm.        *)
  done    (* done[b]: how many files of Written b has written.               *)

cache == <<file, exe, hash, unrecorded>>
vars  == <<cache, phase, plan, emit, out, done>>

Content == Plans \cup {Absent, Torn}
-----------------------------------------------------------------------------
Init ==
  /\ file  = [f \in Files |-> Absent]
  /\ exe   = [k \in Kinds |-> Absent]
  /\ hash  = Absent
  /\ unrecorded = {}
  /\ phase = [b \in Builders |-> "idle"]
  /\ plan  \in {pl \in [Builders -> Plans] :
                \A b, c \in Builders : SameDirectory(pl[b].kind, pl[c].kind)}
  /\ emit  = [b \in Builders |-> FALSE]
  /\ out   = [b \in Builders |-> Absent]
  /\ done  = [b \in Builders |-> 0]

\* is_fresh, is_wasm_fresh, is_native_cdylib_fresh.
Fresh(p) ==
  /\ exe[p.kind] # Absent
  /\ \A f \in Required(p.kind) : file[f] # Absent
  /\ hash = p

Goto(b, where) == phase' = [phase EXCEPT ![b] = where]

\* A build is asked for, with or without --emit-llvm.
Start(b) ==
  /\ phase[b] \in {"idle", "ok", "failed"}
  /\ \E p \in Plans : /\ SameDirectory(p.kind, plan[b].kind)
                     /\ plan' = [plan EXCEPT ![b] = p]
  /\ \E e \in BOOLEAN : emit' = [emit EXCEPT ![b] = e]
  /\ out'  = [out EXCEPT ![b] = Absent]
  /\ done' = [done EXCEPT ![b] = 0]
  /\ Goto(b, "start")
  /\ UNCHANGED cache

\* The output is fresh: all that is left is to copy the cached code, which a
\* cdylib build does not do.
UseCache(b) ==
  LET k == plan[b].kind
  IN  /\ phase[b] = "start"
      /\ Fresh(plan[b])
      /\ \/ /\ out' = IF emit[b] /\ k # "cdylib"
                      THEN [out EXCEPT ![b] = file[Emitted(k)]] ELSE out
            /\ Goto(b, "ok")
         \/ /\ emit[b] /\ k # "cdylib"
            /\ Goto(b, "failed")
            /\ UNCHANGED out
      /\ UNCHANGED <<cache, plan, emit, done>>

Rebuild(b) ==
  /\ phase[b] = "start"
  /\ ~Fresh(plan[b])
  /\ Goto(b, "write")
  /\ UNCHANGED <<cache, plan, emit, out, done>>

\* The next file is written, or compiled; a failure leaves it as it was or torn.
Write(b) ==
  LET files == Written(plan[b].kind)
      f     == files[done[b] + 1]
  IN  /\ phase[b] = "write"
      /\ done[b] < Len(files)
      /\ \/ /\ file' = [file EXCEPT ![f] = plan[b]]
            /\ done' = [done EXCEPT ![b] = @ + 1]
            /\ UNCHANGED phase
         \/ /\ \E left \in {file[f], Torn} : file' = [file EXCEPT ![f] = left]
            /\ Goto(b, "failed")
            /\ UNCHANGED done
      /\ UNCHANGED <<exe, hash, unrecorded, plan, emit, out>>

\* copy_emitted_llvm, and the copy of library.c.
Emit(b) ==
  LET k == plan[b].kind
  IN  /\ phase[b] = "write"
      /\ done[b] = Len(Written(k))
      /\ \/ /\ out' = IF emit[b] THEN [out EXCEPT ![b] = file[Emitted(k)]] ELSE out
            /\ Goto(b, "link")
         \/ /\ emit[b]
            /\ Goto(b, "failed")
            /\ UNCHANGED out
      /\ UNCHANGED <<cache, plan, emit, done>>

\* The linker reads the files as they are now.  wasm-ld does not read main.ll.
Linked(p) ==
  LET read == Range(Written(p.kind)) \ (IF p.kind = "wasm" THEN {"main.ll"} ELSE {})
  IN  IF \E q \in Plans : \A f \in read : file[f] = q
      THEN CHOOSE q \in Plans : \A f \in read : file[f] = q
      ELSE Torn

LinkRegardless(b) ==  \* Fault: a failed link is not an error.
  /\ phase[b] = "link"
  /\ \E result \in {Linked(plan[b]), exe[plan[b].kind]} :
       exe' = [exe EXCEPT ![plan[b].kind] = result]
  /\ Goto(b, "record")
  /\ UNCHANGED <<file, hash, unrecorded, plan, emit, out, done>>
\* link_native_executable, link_native_cdylib_c, link_wasm_cdylib: a failed
\* link leaves the old output or none.
Link(b) ==
  LET k == plan[b].kind
  IN  /\ phase[b] = "link"
      /\ \/ /\ exe' = [exe EXCEPT ![k] = Linked(plan[b])]
            /\ Goto(b, "record")
         \/ /\ \E left \in {exe[k], Absent} : exe' = [exe EXCEPT ![k] = left]
            /\ Goto(b, "failed")
      /\ UNCHANGED <<file, hash, unrecorded, plan, emit, out, done>>

RecordNothing(b) ==  \* Fault: the hash of the last build is left in place.
  /\ phase[b] = "record"
  /\ Goto(b, "ok")
  /\ UNCHANGED <<cache, plan, emit, out, done>>
\* build.hash is written last.  A write that fails, or is never reached by a
\* killed compiler, leaves it truncated or, when it was not opened, as it was.
Record(b) ==
  /\ phase[b] = "record"
  /\ \/ hash' = plan[b] /\ unrecorded' = {} /\ Goto(b, "ok")
     \/ hash' = Torn    /\ unrecorded' = {} /\ Goto(b, "failed")
     \/ /\ unrecorded' = {p \in unrecorded : p.kind # plan[b].kind} \cup {plan[b]}
        /\ Goto(b, "failed")
        /\ UNCHANGED hash
  /\ UNCHANGED <<file, exe, plan, emit, out, done>>

Next ==
  \E b \in Builders :
    Start(b) \/ UseCache(b) \/ Rebuild(b) \/ Write(b) \/ Emit(b) \/ Link(b) \/ Record(b)

Spec == Init /\ [][Next]_vars
-----------------------------------------------------------------------------
\* The shape of the state; no output is ever linked from the files of two
\* builds or from a torn one.
TypeOK ==
  /\ file \in [Files -> Content]
  /\ exe \in [Kinds -> Plans \cup {Absent}]
  /\ \A k \in Kinds : exe[k] # Absent => exe[k].kind = k
  /\ hash \in Content
  /\ unrecorded \subseteq Plans
  /\ phase \in [Builders -> {"idle", "start", "write", "link", "record", "ok", "failed"}]
  /\ plan \in [Builders -> Plans]
  /\ emit \in [Builders -> BOOLEAN]
  /\ out \in [Builders -> Content]
  /\ done \in [Builders -> Nat]

\* A build that succeeds leaves the output of the sources it was given, be it
\* built or found fresh, after whatever builds of other sources and of the
\* other kind came before it, failed or killed at any step.  The one way to
\* another output is to replace it and fail before build.hash is touched: the
\* old hash then vouches for the new output until something else is recorded.
OutputIsCurrent ==
  \A b \in Builders : phase[b] = "ok" => exe[plan[b].kind] \in {plan[b]} \cup unrecorded

\* The same build again finds that output fresh.
SuccessIsCached ==
  \A b \in Builders : phase[b] = "ok" => Fresh(plan[b])
=============================================================================
