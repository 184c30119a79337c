----------------------------- MODULE MCBinaryTree -----------------------------
(* BinaryTree over short words of two letters, some of them periodic.         *)
EXTENDS BinaryTree

SomeWords ==
  { <<1,1,1,1,1,1,1,1,1>>, <<1,2,1,2,1,2,1,1,2>>, <<1,1,2,1,1,2,1,1,1>>, <<2,1,2,2,1,2,1,2,2>> }
=============================================================================
