----------------------------- MODULE PairingCases -----------------------------
(***************************************************************************)
(* Cases of Pairing for TLC: journal 1 is the home, journal 2 another; the *)
(* opaque fields are one byte long.                                        *)
(***************************************************************************)
EXTENDS PairLink

Cert(key, by, serial, valid) == [key |-> key, by |-> by, serial |-> serial, valid |-> valid]

HomeCa == Cert(1, 1, 0, TRUE)
HomeCaAgain == Cert(1, 1, 1, TRUE)      \* the same key in a new certificate
OtherCa == Cert(2, 2, 0, TRUE)
HomeLeaf == Cert(3, 1, 0, TRUE)
StaleLeaf == Cert(3, 1, 0, FALSE)
OtherLeaf == Cert(4, 2, 0, TRUE)

MCChains == {<<HomeLeaf, HomeCa>>, <<HomeLeaf, HomeCaAgain>>, <<StaleLeaf, HomeCa>>,
             <<OtherLeaf, OtherCa>>, <<OtherLeaf, HomeCa>>}

MCPems == {<<>>, <<<<HomeCa>>>>, <<<<HomeCaAgain>>>>, <<<<OtherCa, HomeCa>>>>,
           <<<<>>, <<HomeCa>>>>, <<<<HomeCa>>, <<OtherCa>>>>}

\* direct links with one address, with a repeated one, with a forbidden one
\* and cut short; relay links with the window's secret, with another secret,
\* with a custom origin, with one that is not UTF-8 and with a wrong length
MCBlobs == {<<4, 1, 10, 0, 0, 7, 1>>,
            <<5, 1, 3, 1, 0, 10, 192, 10, 7, 1>>,
            <<5, 1, 2, 1, 0, 10, 224, 7, 1>>,
            <<5, 1, 2, 1, 0, 10, 11, 7>>,
            <<6, 9, 1, 1, 0>>,
            <<6, 8, 1, 1, 0>>,
            <<6, 9, 1, 1, 2, 104, 105>>,
            <<6, 9, 1, 1, 2, 195, 105>>,
            <<6, 9, 1, 1, 1>>}

Folded(text) == [i \in DOMAIN text |-> IF text[i] = 1 THEN LooksLikeOne
                                       ELSE IF text[i] = 0 THEN LooksLikeZero ELSE text[i]]

MCTyped(blob) ==
    {Encode(blob), <<Hyphen>> \o Encode(blob), Folded(Encode(blob)),
     <<Slash, Slash, 10, Slash, Hash>> \o Encode(blob), <<10, Slash>> \o Encode(blob)}

MCSecret == <<9>>

=============================================================================
