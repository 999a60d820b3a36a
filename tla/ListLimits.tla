---------------------------- MODULE ListLimits ----------------------------
(* What the list accounts of the program and the vectors in them share.    *)

CONSTANTS Key,             \* public keys
          MaxU64,          \* the largest u64
          MaxAuthorities   \* CanMint::MAX_AUTHORITIES
=============================================================================
