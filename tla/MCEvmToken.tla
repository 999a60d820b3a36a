----------------------------- MODULE MCEvmToken -----------------------------
(* alice owns the contracts; either wallet may call. *)
EXTENDS EvmToken

CONSTANTS alice, bob, token, forwarder, ops, ops2

MCAddress == {alice, bob, token, forwarder}

MCWallet == {alice, bob}

Calls(op, user, amounts) ==
    [op : {op}, from : {bob}, user : user, amount : amounts]

\* Minting, and moving nothing.
MCMintCall == Calls("mint", MCWallet, Amount) \cup Calls("burnByUser", {bob}, {1})
=============================================================================
