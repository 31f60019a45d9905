---------------------------- MODULE MCRowidRanges ----------------------------
(* Instances of RowidRanges for TLC: two objects, the last one being the     *)
(* last object number there is; two small files, or one bigfile whose blocks *)
(* run past BlockSpace.                                                      *)
EXTENDS RowidRanges

MCExtents ==
  [data_object_id : {1, 2}, relative_fno : {1, 2}, block_id : {0, 2, 4}, blocks : {1, 2}]
  \cup [data_object_id : {1, 2}, relative_fno : {BigFile}, block_id : {1, 4, 7, 11}, blocks : {2, 4, 5}]
=============================================================================
