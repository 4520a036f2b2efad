----------------------------- MODULE MCFountain -----------------------------
(***************************************************************************)
(* GF(4), generations of three symbols of three elements with two repairs, *)
(* vector kernels of two elements: a symbol has a part the kernel handles  *)
(* and a tail.  One payload fills a generation in part, one needs two.     *)
(* With the third source and a repair of each kind two sources are left,   *)
(* which elimination solves for; two of a kind leave them open, and sent   *)
(* again they make a decode that fails and takes no payload.               *)
(***************************************************************************)
EXTENDS Fountain

SomeBodies == {<<1, 2, 3, 2, 3, 1, 2>>, <<3, 1, 2, 0, 3, 2, 1, 1, 3, 2>>}

SomeDraws == {<<2, 1, 0>>, <<1, 1, 3>>}

SomeFrames == <<3, 1>>
=============================================================================
