------------------------------ MODULE RemoteSigner ------------------------------
(***************************************************************************)
(* Nostr sign-in on the client (client/nostr/nip46.py, login.py, the       *)
(* modal of client/tui/reauth_screen.py): a code is shown, the signers     *)
(* that scan it say so with the code's secret (or a bare ack), the client  *)
(* binds one, asks it for the user's public key and then for a signature   *)
(* under the login event, and posts that.  Everything goes over module     *)
(* Relays: frames are lost, late, or delivered twice.                      *)
(***************************************************************************)
EXTENDS Relays

CONSTANTS
  Signers,        \* signer applications, each with the key of its own user
  Attempts,       \* of _get_public_key
  Rounds,         \* of sign_event
  Copies, MaxSaid,  \* bounds: answers to one request, and all that is said
  NoSigner

ASSUME SignerAssumption ==
  /\ NoSigner \notin Signers
  /\ Attempts \in Nat \ {0} /\ Rounds \in Nat \ {0}

VARIABLES
  pc,        \* off, dial, connect, ask, wait, signed, posted, failed, closed
  stage,     \* the request in hand: pubkey or sign
  attempt,   \* ... and how often it was made
  rid,       \* ... and its id; ids are counted
  bound, verified,  \* remote_signer_pubkey, _bind_verified
  userPk,    \* user_pubkey: the signer whose user it is
  legacyAck, \* VEZIR_NIP46_ALLOW_LEGACY_ACK
  handled,   \* _handled
  asked,     \* requests that reached their signer
  said,      \* events the relays hold for the client
  seen,      \* _seen_events
  event,     \* the signed event: who signed it, and for which request
  taken,     \* the answers taken, in the order they were: for the properties
  why        \* the reason of a failure

signerVars == <<pc, stage, attempt, rid, bound, verified, userPk, legacyAck, handled, asked, said, seen, event, taken, why>>

SignerInit ==
  /\ RelaysInit
  /\ pc \in {"off", "dial"} /\ stage = "none" /\ attempt = 0 /\ rid = 0
  /\ bound = NoSigner /\ verified = FALSE /\ userPk = NoSigner
  /\ legacyAck \in BOOLEAN
  /\ handled = {} /\ asked = {} /\ said = {} /\ seen = {}
  /\ event = NoSigner /\ taken = {} /\ why = "none"

-----------------------------------------------------------------------------
(* The signers.  What one says is heard if any socket of ours is there to  *)
(* hear it; the relays keep nothing.                                       *)

Says(m) ==
  /\ Cardinality(said) < MaxSaid
  /\ said' = IF Live = {} THEN said ELSE said \cup {m}
  /\ UNCHANGED <<relayVars, pc, stage, attempt, rid, bound, verified, userPk, legacyAck, handled, asked, seen, event, taken, why>>

\* Once a code is shown a signer says that it is there: with the secret it has
\* read, or, an older one, with a bare ack.
Hello(s) ==
  /\ pc \notin {"off", "closed"}
  /\ \E kind \in {"ack", "secret"} :
       LET m == [from |-> s, kind |-> kind, rid |-> 0, copy |-> 1] IN m \notin said /\ Says(m)

\* The person approves or refuses; an answer may be sent more than once.
Answer(s) ==
  \E q \in asked, ok \in BOOLEAN, copy \in 1 .. Copies :
    LET kind == IF ok THEN q.stage ELSE "error"
        m == [from |-> s, kind |-> kind, rid |-> q.rid, copy |-> copy] IN
    /\ q.to = s /\ m \notin said
    /\ \A o \in said : o.rid = q.rid => o.kind = kind
    /\ copy > 1 => [m EXCEPT !.copy = copy - 1] \in said
    /\ Says(m)

-----------------------------------------------------------------------------
(* The client.                                                             *)

\* wait_for_connection opens every relay and waits for the threads.
Dial ==
  /\ pc = "dial" /\ stage = "none"
  /\ opener' = Opening(Relays)
  /\ stage' = "dialling"
  /\ UNCHANGED <<wss, cancelled, drops, pc, attempt, rid, bound, verified, userPk, legacyAck, handled, asked, said, seen, event, taken, why>>

Dialled ==
  /\ pc = "dial" /\ stage = "dialling"
  /\ \A r \in Relays : opener[r] = "none"
  /\ pc' = IF Sockets = {} THEN "failed" ELSE "connect"
  /\ why' = IF Sockets = {} THEN "no relay" ELSE why
  /\ UNCHANGED <<relayVars, stage, attempt, rid, bound, verified, userPk, legacyAck, handled, asked, said, seen, event, taken>>

Hears(m) == m \in said \ seen /\ Live # {}

\* An ack binds provisionally; the secret binds for good.
Bind(s, echoed) ==
  /\ bound' = IF bound = s \/ bound = NoSigner \/ echoed \/ ~verified THEN s ELSE bound
  /\ verified' = IF bound = s THEN verified \/ echoed
                 ELSE IF bound # NoSigner /\ verified /\ ~echoed THEN verified ELSE echoed

\* The connect loop: an answer that carries the secret, or an ack if those are
\* allowed, is the signer's; anything else is passed over.
Connect(m) ==
  /\ pc = "connect" /\ ~cancelled /\ Hears(m)
  /\ seen' = seen \cup {m}
  /\ IF m.kind = "secret" \/ (m.kind = "ack" /\ legacyAck)
     THEN Bind(m.from, m.kind = "secret") /\ pc' = "ask" /\ stage' = "pubkey" /\ attempt' = 0
     ELSE UNCHANGED <<pc, stage, attempt, bound, verified>>
  /\ UNCHANGED <<relayVars, rid, userPk, legacyAck, handled, asked, said, event, taken, why>>

Fails(reason) == pc' = "failed" /\ why' = reason /\ UNCHANGED <<stage, attempt>>

NoConnection ==
  /\ pc = "connect"
  /\ Fails(IF cancelled THEN "cancelled" ELSE "no signer")
  /\ UNCHANGED <<relayVars, rid, bound, verified, userPk, legacyAck, handled, asked, said, seen, event, taken>>

\* What _get_public_key does when an attempt fails: another, or none; then
\* wait_for_connection returns all the same, without the key.  So does it when
\* the sign-in was cancelled: nothing tells that apart.
AttemptFails(n) ==
  /\ pc' = "ask" /\ UNCHANGED why
  /\ \/ n < Attempts /\ ~cancelled /\ attempt' = n /\ UNCHANGED stage
     \/ attempt' = 0 /\ stage' = "sign"

\* A request is written to every socket, and may get lost on the way; relays
\* with no socket are dialled again.
Publish(q) ==
  /\ opener' = Opening(Missing)
  /\ asked' \in {asked, IF Live = {} THEN asked ELSE asked \cup {q}}

AskPubkey ==
  LET q == [rid |-> rid + 1, stage |-> "pubkey", to |-> bound] IN
  /\ pc = "ask" /\ stage = "pubkey"
  /\ IF cancelled
     THEN stage' = "sign" /\ attempt' = 0 /\ UNCHANGED <<opener, asked, rid, pc, why>>
     ELSE /\ rid' = rid + 1 /\ Publish(q)
          /\ IF Live = {} THEN AttemptFails(attempt + 1)
             ELSE pc' = "wait" /\ attempt' = attempt + 1 /\ UNCHANGED <<stage, why>>
  /\ UNCHANGED <<wss, cancelled, drops, bound, verified, userPk, legacyAck, handled, said, seen, event, taken>>

AskSign ==
  LET q == [rid |-> rid + 1, stage |-> "sign", to |-> bound] IN
  /\ pc = "ask" /\ stage = "sign"
  /\ rid' = rid + 1 /\ Publish(q)
  /\ IF Live = {} THEN Fails("no relay") ELSE pc' = "wait" /\ UNCHANGED <<stage, attempt, why>>
  /\ UNCHANGED <<wss, cancelled, drops, bound, verified, userPk, legacyAck, handled, said, seen, event, taken>>

\* Every four seconds the same request goes out again.
Republish ==
  /\ pc = "wait" /\ ~cancelled
  /\ Publish([rid |-> rid, stage |-> stage, to |-> bound])
  /\ UNCHANGED <<wss, cancelled, drops, pc, stage, attempt, rid, bound, verified, userPk, legacyAck, handled, said, seen, event, taken, why>>

\* The wait ends without an answer: the time is up, or the modal was closed.
GivesUp ==
  /\ pc = "wait"
  /\ IF stage = "pubkey" THEN AttemptFails(attempt)
     ELSE Fails(IF cancelled THEN "cancelled" ELSE "no answer")
  /\ UNCHANGED <<relayVars, rid, bound, verified, userPk, legacyAck, handled, asked, said, seen, event, taken>>

Reads(m) ==
  /\ pc = "wait" /\ ~cancelled /\ Hears(m)
  /\ seen' = seen \cup {m}

MayRebind(m) == m.from # bound /\ m.kind = "secret" /\ ~verified

\* An echo of the secret from another signer replaces one that only said ack,
\* and the request is made again: a rebind costs no attempt at the key.
Rebind(m) ==
  /\ Reads(m) /\ MayRebind(m)
  /\ Bind(m.from, TRUE)
  /\ IF stage = "pubkey" THEN pc' = "ask" /\ attempt' = attempt - 1 /\ UNCHANGED <<stage, why>>
     ELSE IF attempt + 1 = Rounds THEN Fails("signer kept changing")
     ELSE pc' = "ask" /\ attempt' = attempt + 1 /\ UNCHANGED <<stage, why>>
  /\ UNCHANGED <<relayVars, rid, userPk, legacyAck, handled, asked, said, event, taken>>

\* Whoever else speaks, the echoes of the connection, and an answer that was
\* taken before, are passed over.
Ignored(m) ==
  \/ m.from # bound /\ ~MayRebind(m)
  \/ m.from = bound /\ (m.kind \in {"ack", "secret"} \/ m.rid \in handled)

PassOver(m) ==
  /\ Reads(m) /\ Ignored(m)
  /\ UNCHANGED <<relayVars, pc, stage, attempt, rid, bound, verified, userPk, legacyAck, handled, asked, said, event, taken, why>>

\* The first result of the bound signer is the answer, whichever request it is
\* the answer to (accept_any).
\* Mutant of Heeded: anyone's answer will do.
HeededFromAnyone(m) == m.kind \notin {"ack", "secret"} /\ m.rid \notin handled

Heeded(m) == m.from = bound /\ m.kind \notin {"ack", "secret"} /\ m.rid \notin handled

TakeError(m) ==
  /\ Reads(m) /\ Heeded(m) /\ m.kind = "error"
  /\ IF stage = "pubkey" THEN AttemptFails(attempt) ELSE Fails("refused")
  /\ UNCHANGED <<relayVars, rid, bound, verified, userPk, legacyAck, handled, asked, said, event, taken>>

Took(m) == handled' = handled \cup {m.rid} /\ taken' = taken \cup {[answer |-> m, again |-> \E t \in taken : t.answer.rid = m.rid]}

TakePubkey(m) ==
  /\ Reads(m) /\ Heeded(m) /\ m.kind # "error" /\ stage = "pubkey" /\ Took(m)
  /\ IF m.kind = "pubkey"
     THEN userPk' = m.from /\ pc' = "ask" /\ stage' = "sign" /\ attempt' = 0 /\ UNCHANGED why
     ELSE AttemptFails(attempt) /\ UNCHANGED userPk
  /\ UNCHANGED <<relayVars, rid, bound, verified, legacyAck, asked, said, event>>

\* The signature is checked, the fields against the request, and the key
\* against the one that get_public_key returned, if it did.
TakeEvent(m) ==
  /\ Reads(m) /\ Heeded(m) /\ m.kind # "error" /\ stage = "sign" /\ Took(m)
  /\ IF m.kind # "sign" THEN Fails("not an event") /\ UNCHANGED <<event, userPk>>
     ELSE IF userPk \notin {NoSigner, m.from} THEN Fails("not the user") /\ UNCHANGED <<event, userPk>>
     ELSE pc' = "signed" /\ event' = m.from /\ userPk' = m.from /\ UNCHANGED <<stage, attempt, why>>
  /\ UNCHANGED <<relayVars, rid, bound, verified, legacyAck, asked, said>>

\* post_login sends the event.
Post ==
  /\ pc = "signed" /\ pc' = "posted"
  /\ UNCHANGED <<relayVars, stage, attempt, rid, bound, verified, userPk, legacyAck, handled, asked, said, seen, event, taken, why>>

\* The worker closes the client, and nothing is left of it but the threads that
\* are still opening relays.
Close ==
  /\ pc \in {"posted", "failed"} /\ pc' = "closed"
  /\ wss' = [r \in Relays |-> "none"]
  /\ stage' = "none" /\ attempt' = 0 /\ rid' = 0 /\ bound' = NoSigner /\ verified' = FALSE
  /\ userPk' = NoSigner /\ legacyAck' = FALSE /\ handled' = {} /\ asked' = {} /\ said' = {} /\ seen' = {}
  /\ event' = NoSigner /\ taken' = {} /\ why' = "none" /\ drops' = MaxDrops
  /\ UNCHANGED <<opener, cancelled>>

\* Escape in the modal, or the other way of signing in, from the thread of the
\* interface.
Cancel ==
  /\ pc \notin {"off", "closed"} /\ ~cancelled
  /\ cancelled' = TRUE
  /\ wss' = [r \in Relays |-> "none"]
  /\ UNCHANGED <<opener, drops, pc, stage, attempt, rid, bound, verified, userPk, legacyAck, handled, asked, said, seen, event, taken, why>>

ClientStep ==
  \/ Dial \/ Dialled \/ NoConnection \/ AskPubkey \/ AskSign \/ Republish \/ GivesUp \/ Post \/ Close
  \/ \E m \in said : Connect(m) \/ Rebind(m) \/ PassOver(m) \/ TakeError(m) \/ TakePubkey(m) \/ TakeEvent(m)

SignerNext ==
  \/ RelayStep /\ UNCHANGED <<signerVars>>
  \/ \E s \in Signers : Hello(s) \/ Answer(s)
  \/ ClientStep
  \/ Cancel

SignerSpec == SignerInit /\ [][SignerNext]_<<relayVars, signerVars>>

-----------------------------------------------------------------------------
(* Properties.                                                             *)

\* What is posted was signed by the signer that is bound, in answer to a
\* signature request made to it; and unless bare acks are allowed, that signer
\* has shown that it read the code.  Provenance is all there is: ids are not
\* compared (nip46.py:828, :1114).  Relays deliver twice and signers answer
\* twice: an answer is taken once (nip46.py:890).
SignedByTheSigner ==
  pc \in {"signed", "posted"} =>
    /\ event = bound /\ userPk = bound
    /\ \E t \in taken : t.answer.from = bound /\ [rid |-> t.answer.rid, stage |-> "sign", to |-> bound] \in asked
    /\ ~legacyAck => verified
    /\ \A t \in taken : ~t.again

\* A signer that has shown the secret stays the signer, whoever else scanned
\* the same code and says so in the middle of a request (nip46.py:325, :832).
VerifiedStays == [][verified /\ pc' # "closed" => verified' /\ bound' = bound]_<<relayVars, signerVars>>

\* "with one request in flight ... accept its first result/error reply"
\* (nip46.py:884): what signing takes for its answer is an answer to it.
OneInFlight == why # "not an event"

\* "Provisional bind: a genuine signer that echoes our secret later must still
\* be able to take over" (nip46.py:830).
MayTakeOver == why # "not the user"

\* "Cancelled mid-reconnect: don't resurrect a socket after close()"
\* (nip46.py:471).
NoSocketAfterClose == pc = "closed" => Sockets = {}

-----------------------------------------------------------------------------
(* Why they hold.                                                          *)

Stages == {"none", "dialling", "pubkey", "sign"}

SignerTypeOK ==
  /\ rid \in Nat /\ stage \in Stages /\ bound \in Signers \cup {NoSigner}
  /\ verified \in BOOLEAN /\ legacyAck \in BOOLEAN
  /\ asked \subseteq [rid: Nat, stage: Stages, to: Signers \cup {NoSigner}]
  /\ \A m \in said : m.from \in Signers

\* A result or an error is said in answer to a request made to who says it.
AnswersHaveRequests ==
  \A m \in said : m.kind \notin {"ack", "secret"} =>
    \E q \in asked : q.to = m.from /\ q.rid = m.rid /\ m.kind \in {q.stage, "error"}

TakenIsHandled ==
  \A t \in taken : t.answer.rid \in handled /\ ~t.again

\* Nobody is bound before the connection is made; then, unless bare acks are
\* allowed, somebody who has shown the secret.
BoundByTheCode ==
  /\ pc \in {"off", "dial", "connect", "closed"} => ~verified
  /\ pc \in {"ask", "wait", "signed", "posted"} /\ ~legacyAck => verified

SignerInvariant ==
  /\ SignerTypeOK
  /\ AnswersHaveRequests
  /\ TakenIsHandled
  /\ BoundByTheCode
  /\ SignedByTheSigner
=============================================================================
