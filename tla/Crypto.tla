------------------------------- MODULE Crypto -------------------------------
(***************************************************************************)
(* Signatures as rclp_core/crypto.py makes and checks them.  A message is  *)
(* a record with a field `signature`, None when it is not signed.  An      *)
(* Ed25519 signature is the key it was made with and the fields it covers: *)
(* nobody makes one for another's key, and no two messages share one.      *)
(***************************************************************************)
CONSTANT None   \* Python's None

Valid == "VALID"   \* a check that finds nothing wrong returns None

\* canonical_json() covers every field but the signature.
canonical_json(m) == [m EXCEPT !.signature = None]

sign(key, m) == [key |-> key, over |-> canonical_json(m)]

verify_with_public_key_b64(m, key) == m.signature = sign(key, m)

\* m as its signer sends it.
Signed(key, m) == [m EXCEPT !.signature = sign(key, m)]
=============================================================================
