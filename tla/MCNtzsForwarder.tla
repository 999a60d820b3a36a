-------------------------- MODULE MCNtzsForwarder --------------------------
(* Two users, their accounts, and messages that compete for a nonce. *)
EXTENDS NtzsForwarder

CONSTANTS alice, bob, aliceAta, bobAta, aliceAuth, bobAuth, mintPda, home, other

MCKey == {alice, bob, aliceAta, bobAta, aliceAuth, bobAuth, mintPda}

MCWallet == {alice, bob}

MCTokenAccount == {aliceAta, bobAta}

MCAtaOwner == [t \in MCTokenAccount |-> IF t = aliceAta THEN alice ELSE bob]

MCTransferAuth ==
    [t \in MCTokenAccount |-> IF t = aliceAta THEN aliceAuth ELSE bobAuth]

\* Alice signs nonce 1 twice, for different amounts, and nonce 2.  Nonce 0 is
\* signed as well and never accepted.
CompetingRequests ==
    [sender : {alice}, nonce : 0 .. 2, amount : {1}]
        \cup {[sender |-> alice, nonce |-> 1, amount |-> 2]}

\* Alice signs one message, or two.
AliceRequest == [sender : {alice}, nonce : {1}, amount : {1}]

AliceRequests == [sender : {alice}, nonce : 1 .. 2, amount : {1}]
=============================================================================
