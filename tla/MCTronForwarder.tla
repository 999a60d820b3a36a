-------------------------- MODULE MCTronForwarder --------------------------
(* alice owns the contracts; bob signs requests and calls nothing himself. *)
EXTENDS TronForwarder

CONSTANTS alice, bob, token, forwarder, ops

MCAddress == {alice, bob, token, forwarder}

MCWallet == {alice, bob}

CallOf(op, from, user, amount) ==
    [op |-> op, from |-> from, user |-> user, amount |-> amount]

RequestOf(nonce, gas, call) ==
    [from |-> bob, to |-> token, nonce |-> nonce, gas |-> gas, call |-> call]

\* alice pays bob and the forwarder, pauses, and destroys what bob has.
MCDirectCall ==
    {CallOf("transfer", alice, bob, 1),
     CallOf("transfer", alice, forwarder, 1),
     CallOf("burnByUser", alice, alice, 1),
     CallOf("transferFrom", bob, alice, 1),
     CallOf("pause", alice, alice, 0),
     CallOf("destroyBlackFunds", alice, bob, 0)}

MCRequest ==
    {RequestOf(0, 1, CallOf("mint", bob, alice, 2)),
     RequestOf(0, 2, CallOf("mint", bob, alice, 2)),
     RequestOf(3, 1, CallOf("mint", bob, bob, 1)),
     RequestOf(1, 1, CallOf("transfer", bob, alice, 1)),
     RequestOf(1, 1, CallOf("burnByUser", bob, bob, 1)),
     RequestOf(1, 1, CallOf("increaseAllowance", bob, alice, 1)),
     [from |-> bob, to |-> ops, nonce |-> 0, gas |-> 1,
      call |-> CallOf("removeMintAmount", bob, bob, 0)]}
=============================================================================
