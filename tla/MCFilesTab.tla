------------------------------ MODULE MCFilesTab ------------------------------
(***************************************************************************)
(* The Files tab on two small files, one with Windows line ends, and the   *)
(* plausible bugs its properties must notice.                              *)
(***************************************************************************)
EXTENDS FilesTab

SmallFiles == [p |-> <<"a", "crlf">>, q |-> <<"bad">>]
=============================================================================
