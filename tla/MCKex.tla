------------------------------- MODULE MCKex --------------------------------
(***************************************************************************)
(* The preferences the two sides are given: the same lists in another      *)
(* order, with and without strict key exchange; a side without a MAC in    *)
(* common, which matters for one of the ciphers only; and a side with      *)
(* which only the names of extensions are shared.                          *)
(***************************************************************************)
EXTENDS Kex

Preferred(kex, cipher, mac) ==
    [kex |-> kex, key |-> <<"ed25519", "rsa">>, cipher |-> cipher,
     mac |-> mac, compression |-> <<"none", "zlib">>]

Extended(kex) == kex \o <<"ext-info-c", "ext-info-s",
                          "kex-strict-c", "kex-strict-s">>

MCPrefs ==
    <<Preferred(Extended(<<"curve25519", "dh14">>), <<"chacha", "ctr">>, <<"sha2", "sha1">>),
      Preferred(<<"dh14", "curve25519">>, <<"ctr", "chacha">>, <<"sha1", "sha2">>),
      Preferred(Extended(<<"dh14">>), <<"chacha">>, <<"sha512">>),
      Preferred(Extended(<<"dh16">>), <<"chacha">>, <<"sha2">>)>>

\* A side that meets its own kind adds nothing but for the first.
MCPairs == {<<1, 1>>, <<1, 2>>, <<2, 1>>, <<1, 3>>, <<3, 1>>, <<2, 3>>,
            <<1, 4>>, <<4, 1>>}
=============================================================================
