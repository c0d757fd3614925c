------------------------------- MODULE MCSignIn -------------------------------
(* Sign-in on small instances. *)
EXTENDS NostrSignIn, TLC

CONSTANTS r1, r2, w1, w2
Alike == Permutations({r1, r2}) \cup Permutations({w1, w2})
SignedAt == [e \in Events |-> 1]
ScenesAlone == {{"nostr"}, {"signer"}, {"google"}, {"device"}, {"others"}}
===============================================================================
