---------------------------- MODULE MCBuildTools ----------------------------
(***************************************************************************)
(* Two tools of one build: psp-build-exports makes the export tables, and  *)
(* when it is done pack-pbp packs what was built.  They share no state.    *)
(* The inputs of pack-pbp all come after one and the same .exp file, any   *)
(* other .exp file is followed by a call that asks for the usage.          *)
(***************************************************************************)
EXTENDS MCBuildExports, MCPackPbp

Usage == [Args("o", "a", "b", Null) EXCEPT !.usage = TRUE]

MCInit ==
  \/ /\ lines = <<>> /\ mode = "exports" /\ refused = {}
     /\ Init /\ PackInit
  \/ /\ args = Usage /\ disk = [p \in MCPaths |-> Null]
     /\ Init /\ PackInit

Exporting == UNCHANGED packVars
Packing   == pc = "done" /\ UNCHANGED allVars

MCNext ==
  \/ (OpenInput /\ Exporting)
  \/ (OtherLine /\ Exporting)
  \/ (BadLine /\ Exporting)
  \/ (ExportStart /\ Exporting)
  \/ (NestedStart /\ Exporting)
  \/ (ExportEnd /\ Exporting)
  \/ (StrayEnd /\ Exporting)
  \/ (ExportFunc /\ Exporting)
  \/ (ExportVar /\ Exporting)
  \/ (ExportAlias /\ Exporting)
  \/ (RejectExport /\ Exporting)
  \/ (EndOfFile /\ Exporting)
  \/ (PrintTable /\ Exporting)
  \/ (TablesDone /\ Exporting)
  \/ (PrintEntry /\ Exporting)
  \/ (WriteStubs /\ Exporting)
  \/ (PrintName /\ Exporting)
  \/ (PrintCount /\ Exporting)
  \/ (LoopDone /\ Exporting)
  \/ (Finished /\ Exporting)
  \/ (NothingToDo /\ Packing)
  \/ (OpenOutput /\ Packing)
  \/ (OpenOutputFails /\ Packing)
  \/ (AllocBuffer /\ Packing)
  \/ (StatFile /\ Packing)
  \/ (WriteHeader /\ Packing)
  \/ (SkipInput /\ Packing)
  \/ (OpenFile /\ Packing)
  \/ (CopyChunk /\ Packing)
  \/ (CloseInput /\ Packing)
  \/ (Packed /\ Packing)
  \/ (CallFails /\ Packing)
  \/ (CloseOutput /\ Packing)
  \/ (CloseOutputFails /\ Packing)
  \/ (Remove /\ Packing)
  \/ (\E p \in Paths : OthersWrite(p) /\ Packing)
  \/ (Exited /\ Packing)

(* psp-build-exports runs until it returns, as in FairSpec.                *)
MCSpec == MCInit /\ [][MCNext]_<<allVars, packVars>> /\ WF_allVars(Next)
=============================================================================
