----------------------------- MODULE MCHopReuse -----------------------------
(***************************************************************************)
(* Two forwards that share the jump host t2: one of them goes to t2 itself,*)
(* or both have the same chain, of one hop or of two, or both go on from   *)
(* t2, as in the example of the comment of EstablishWithReuse.             *)
(***************************************************************************)
EXTENDS HopReuse, TLC

CONSTANTS f1, f2

Nested ==
    {f1 :> <<"t2">> @@ f2 :> <<"t2", "vmr">>,
     f1 :> <<"t2">> @@ f2 :> <<"t2">>,
     f1 :> <<"t2", "vmr">> @@ f2 :> <<"t2", "vmr">>}

Siblings == {f1 :> <<"t2", "vmr">> @@ f2 :> <<"t2", "dc4">>}
=============================================================================
