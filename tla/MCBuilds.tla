------------------------------ MODULE MCBuilds ------------------------------
(***************************************************************************)
(* An instance of Builds for TLC: a project whose sources change back and  *)
(* forth between two versions, under one builder; and the WebGPU runtime's *)
(* entry, with its two required files and one that is only copied, shared  *)
(* by three processes, one of them told to rebuild it.                     *)
(***************************************************************************)
EXTENDS Builds

CONSTANTS v1, v2, builder, p1, p2, p3

MCVersions == {v1, v2}
MCKinds    == {"bin", "cdylib", "wasm"}
MCBuilders == {builder}

MCProcesses  == {p1, p2, p3}
MCRebuilders == {p3}
MCCopied     == <<"mjs", "wasm", "dts">>
MCRequiredFiles == {"mjs", "wasm"}
=============================================================================
