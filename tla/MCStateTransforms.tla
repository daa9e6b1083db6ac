------------------------- MODULE MCStateTransforms -------------------------
(***************************************************************************)
(* StateTransforms for TLC: encryption switched on and its key rotated in  *)
(* four deployments, the README's rotation in one, a single deployment;    *)
(* each alone, before and after the remote state.                          *)
(***************************************************************************)
EXTENDS StateTransforms

Without == [keys |-> << >>, decryptOnly |-> FALSE]
With(keys) == [keys |-> keys, decryptOnly |-> FALSE]

SwitchedOn == <<Without, [keys |-> <<"k1">>, decryptOnly |-> TRUE],
                With(<<"k1">>), With(<<"k1", "k2">>), With(<<"k2", "k1">>)>>
Rotated == <<With(<<"k1">>), With(<<"k2", "k1">>)>>
Kept == <<With(<<"k1">>)>>

MCSetups == [rollout : {SwitchedOn, Rotated, Kept},
             order : {<<"encrypt">>, <<"remote", "encrypt">>,
                      <<"encrypt", "remote">>}]

MCPrograms == {<<"run", "invoke", "wait", "return">>,
               <<"run", "invokes", "return">>}
=============================================================================
