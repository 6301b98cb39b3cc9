-------------------------------- MODULE MCJwt --------------------------------
(***************************************************************************)
(* Jwt for TLC: one token, which leaves room for clocks and TTLs.  Time    *)
(* and TTL together pass the ends of an i64, of a duration and of a date.  *)
(***************************************************************************)
EXTENDS Jwt, TLC

MCTtls == 0..9 \cup {13, 16, 25, 31, 70}

MCSymmetry == Permutations(Keys)
=============================================================================
