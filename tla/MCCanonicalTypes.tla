-------------------------- MODULE MCCanonicalTypes --------------------------
(* Four declared types drawn from four signatures, two of which are equal  *)
(* up to the uninitialised return_type, and two functions.                 *)
EXTENDS CanonicalTypes

MCSignatures ==
  { [fHasReturnValue |-> FALSE, return_type |-> "garbage1", params |-> <<"i32">>],
    [fHasReturnValue |-> FALSE, return_type |-> "garbage2", params |-> <<"i32">>],
    [fHasReturnValue |-> TRUE,  return_type |-> "i32",      params |-> <<"i32">>],
    [fHasReturnValue |-> FALSE, return_type |-> "garbage1", params |-> <<>>] }
=============================================================================
