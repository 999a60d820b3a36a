-------------------------- MODULE MCEvmForwarder --------------------------
(* alice owns the contracts; bob signs requests and calls nothing himself. *)
EXTENDS EvmForwarder

CONSTANTS alice, bob, token, forwarder, newForwarder, ops

MCAddress == {alice, bob, token, forwarder, newForwarder}

MCWallet == {alice, bob}

CallOf(op, from, user, amount) ==
    [op |-> op, from |-> from, user |-> user, amount |-> amount]

RequestOf(from, to, nonce, gas, call) ==
    [from |-> from, to |-> to, nonce |-> nonce, gas |-> gas, call |-> call]

\* alice pays bob, takes what she is allowed to, pauses, and destroys his funds.
MCDirectCall ==
    {CallOf("transfer", alice, bob, 1),
     CallOf("transferFrom", bob, alice, 1),
     CallOf("pause", alice, alice, 0),
     CallOf("destroyBlackFunds", alice, bob, 0)}

\* bob signs twice for the same call with other gas, and for different calls with
\* the same nonce; he sets what alice may spend, adds to it and takes from it.
MCRequest ==
    {RequestOf(bob, token, 0, 1, CallOf("mint", bob, bob, 1)),
     RequestOf(bob, token, 0, 2, CallOf("mint", bob, bob, 1)),
     RequestOf(bob, token, 1, 1, CallOf("transfer", bob, alice, 1)),
     RequestOf(bob, token, 1, 1, CallOf("approve", bob, alice, 1)),
     RequestOf(bob, token, 2, 1, CallOf("burnByUser", bob, bob, 1)),
     RequestOf(bob, token, 2, 1, CallOf("increaseAllowance", bob, alice, 1)),
     RequestOf(bob, token, 2, 1, CallOf("decreaseAllowance", bob, alice, 1)),
     RequestOf(alice, token, 0, 1,
               CallOf("updateForwarderContract", alice, newForwarder, 0))}
=============================================================================
