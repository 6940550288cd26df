---------------------------- MODULE MCRecvBuffer ----------------------------
EXTENDS RecvBuffer

MCBytes == {"cr", "lf", "sp", "col", "0", "1", "8", "a", "c", "n", "J", "L", "P"}

(* PING without parameters; a JOIN with a prefix, a word and a last        *)
(* parameter with a space and a colon; a reply with the number JOIN has in *)
(* the code, a parameter with a colon inside and an empty one; an unknown  *)
(* command that is longer than a rest may be.                              *)
MCMessages ==
    {[prefix |-> NoPrefix, rawCmd |-> <<"P">>, params |-> <<>>],
     [prefix |-> <<"n">>, rawCmd |-> <<"J">>,
      params |-> <<<<"c">>, <<"col", "sp", "a">>>>],
     [prefix |-> NoPrefix, rawCmd |-> <<"1", "0", "8">>,
      params |-> <<<<"a", "col">>, <<>>>>],
     [prefix |-> NoPrefix, rawCmd |-> <<"L">>,
      params |-> <<<<"a", "cr", "a", "a", "a", "a", "a", "a", "a", "a", "a",
                     "a", "a", "a">>>>]}
=============================================================================
