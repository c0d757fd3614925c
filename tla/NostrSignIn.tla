------------------------------- MODULE NostrSignIn -------------------------------
(***************************************************************************)
(* A nostr sign-in from the terminal to the server: module RemoteSigner    *)
(* gets the login event signed, and what it posts is a login request of    *)
(* module SignIn.  Until then the two share nothing, so the handshake      *)
(* comes first; and the event a client posts is posted by it alone.        *)
(***************************************************************************)
EXTENDS SignIn, RemoteSigner

CONSTANT Login  \* the event that the signer signs

ASSUME LoginAssumption == Login \in Events

NostrSignInInit ==
  /\ SignInInit /\ SignerInit
  /\ IF "signer" \in used THEN pc = "dial" ELSE pc = "off" /\ ~legacyAck

Handshake == pc \notin {"off", "closed"} /\ SignerNext /\ pc' # "posted" /\ UNCHANGED vars

PostLogin == Post /\ \E r \in Threads : LoginRequest(r, Login, "signer")

\* The threads that a closed client has left end first: they share nothing with
\* the server either.
Server ==
  /\ pc \in {"off", "closed"} /\ \A r \in Relays : opener[r] = "none"
  /\ SignInNext /\ UNCHANGED <<relayVars, signerVars>>

Openers == pc = "closed" /\ RelayStep /\ UNCHANGED <<vars, signerVars>>

NostrSignInNext == Handshake \/ PostLogin \/ Server \/ Openers

NostrSignInSpec == NostrSignInInit /\ [][NostrSignInNext]_<<vars, relayVars, signerVars>>
===================================================================================
