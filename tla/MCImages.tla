------------------------------ MODULE MCImages ------------------------------
(* One image, which is resized up to twice, and a call of another module.  All
   methods of ImageAPI are registered by one constructor: Image stands for them. *)
EXTENDS Images
=============================================================================
