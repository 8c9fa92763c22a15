------------------------------- MODULE Ratchet -------------------------------
(***************************************************************************)
(* The sessions of the messenger (src/quantum-chat/internal/ratchet): the  *)
(* agreement on a first secret (X3DH) and the double ratchet.  Keys are    *)
(* symbols: a private and its public key are one name, what two keys agree *)
(* on is the set of the two, and what a derivation yields is the sequence  *)
(* of what went into it.  Messages between the two parties arrive in any   *)
(* order, or again, or never.                                              *)
(***************************************************************************)
EXTENDS Integers, Sequences, FiniteSets

CONSTANTS
  OneTimeKeys,  \* the responder's one-time prekeys, as numbers
  MaxSkip,      \* maxSkip: message keys that are skipped at most
  MaxSent,      \* bound on the number of messages of each party
  MaxRepeats    \* bound on the number of messages that arrive again

ASSUME SkipAssumption == MaxSkip \in Nat /\ MaxSent \in Nat /\ MaxRepeats \in Nat

Parties == {"alice", "bob"}

VARIABLES
  sessions,  \* the session of each party
  oneTime,   \* the one-time prekeys the responder still holds
  bundle,    \* the one-time prekey in the bundle the initiator used
  keyCount,  \* how many ratchet keys each party has generated
  sent,      \* messages that were sent
  arrived,   \* history: those that arrived
  opened,    \* history: the messages opened, once for each time
  failed,    \* history: those that arrived and could not be opened
  repeats    \* history: how often a message arrived again

ratchetVars == <<sessions, oneTime, bundle, keyCount, sent, arrived, opened, failed, repeats>>

Nothing == <<>>
DH(x, y) == {x, y}
kdfRK(rk, agreed) == Append(rk, agreed)
Key(p, n) == <<p, n>>
IdentityKey(p) == <<p, -1>>
EphemeralKey == <<"alice", -2>>
OneTimeKey(o) == <<"one-time", o>>
SignedPreKey == Key("bob", 0)

\* A chain key: the root it comes from, and how often it was advanced.
Chain(rk) == [root |-> rk, n |-> 0]
NoChain == [root |-> Nothing, n |-> 0]

\* The message key at a step of a chain.
MessageKey(chain) == <<chain.root, chain.n>>
Advance(chain) == [chain EXCEPT !.n = @ + 1]

------------------------------------------------------------------------------
\* X3DHInitiate: what the initiator derives from the bundle.
InitiatorSecret(opk) ==
  << DH(IdentityKey("alice"), SignedPreKey), DH(EphemeralKey, IdentityKey("bob")),
     DH(EphemeralKey, SignedPreKey), DH(EphemeralKey, OneTimeKey(opk)) >>

\* Faulty: the responder mixes in the agreements in another order.
ResponderSecretSwapped(opk) ==
  << DH(IdentityKey("bob"), EphemeralKey), DH(SignedPreKey, IdentityKey("alice")),
     DH(SignedPreKey, EphemeralKey), DH(OneTimeKey(opk), EphemeralKey) >>

\* X3DHRespond: what the responder derives from its own keys.
ResponderSecret(opk) ==
  << DH(SignedPreKey, IdentityKey("alice")), DH(IdentityKey("bob"), EphemeralKey),
     DH(SignedPreKey, EphemeralKey), DH(OneTimeKey(opk), EphemeralKey) >>

NoSession == [on |-> FALSE, DHs |-> Nothing, DHr |-> Nothing, RK |-> Nothing, CKs |-> NoChain,
              CKr |-> NoChain, Nr |-> 0, PN |-> 0, Skipped |-> {}]

InitAlice(opk) ==
  LET own == Key("alice", 0)
      root == kdfRK(InitiatorSecret(opk), DH(own, SignedPreKey))
  IN [NoSession EXCEPT !.on = TRUE, !.DHs = own, !.DHr = SignedPreKey, !.RK = root, !.CKs = Chain(root)]

InitBob(opk) ==
  [NoSession EXCEPT !.on = TRUE, !.DHs = SignedPreKey, !.RK = ResponderSecret(opk)]

RatchetInit ==
  /\ bundle \in OneTimeKeys
  /\ sessions = [p \in Parties |-> IF p = "alice" THEN InitAlice(bundle) ELSE NoSession]
  /\ oneTime = OneTimeKeys
  /\ keyCount = [p \in Parties |-> 1]
  /\ sent = {}
  /\ arrived = {}
  /\ opened = <<>>
  /\ failed = {}
  /\ repeats = 0

------------------------------------------------------------------------------
Established(chain) == chain.root # Nothing

\* skipMessageKeys: stores the keys up to a message number, all of them or as many
\* as there is room for and one more.  The difference is unsigned: a number that
\* has passed is too many.
SkipMessageKeys(s, until) ==
  LET room == MaxSkip + 1 - Cardinality(s.Skipped)
      stored == IF until - s.Nr < room THEN until - s.Nr ELSE IF room > 1 THEN room ELSE 1
      keys == {[DH |-> s.DHr, N |-> s.Nr + i, mk |-> <<s.CKr.root, s.CKr.n + i>>] : i \in 0..stored - 1}
  IN IF ~Established(s.CKr) \/ until = s.Nr THEN [ok |-> TRUE, s |-> s]
     ELSE IF until < s.Nr \/ until - s.Nr > MaxSkip THEN [ok |-> FALSE, s |-> s]
     ELSE [ok |-> Cardinality(s.Skipped \union keys) <= MaxSkip,
           s |-> [s EXCEPT !.Skipped = @ \union keys, !.Nr = @ + stored, !.CKr.n = @ + stored]]

\* Faulty: the number of the last chain's messages is not told to the peer.
DhRatchetForgetting(s, theirs, fresh) ==
  LET root == kdfRK(s.RK, DH(s.DHs, theirs))
      next == kdfRK(root, DH(fresh, theirs))
  IN [s EXCEPT !.PN = 0, !.Nr = 0, !.DHr = theirs, !.DHs = fresh, !.RK = next,
               !.CKr = Chain(root), !.CKs = Chain(next)]

\* dhRatchet, with a fresh key pair of one's own.
DhRatchet(s, theirs, fresh) ==
  LET root == kdfRK(s.RK, DH(s.DHs, theirs))
      next == kdfRK(root, DH(fresh, theirs))
  IN [s EXCEPT !.PN = s.CKs.n, !.Nr = 0, !.DHr = theirs, !.DHs = fresh, !.RK = next,
               !.CKr = Chain(root), !.CKs = Chain(next)]

\* Faulty: a stored key that was used stays.
DecryptKeeping(s, msg, fresh) ==
  LET stored == {k \in s.Skipped : k.DH = msg.DH /\ k.N = msg.N}
      turned == IF msg.DH = s.DHr THEN [ok |-> TRUE, s |-> s]
                ELSE LET old == SkipMessageKeys(s, msg.PN) IN
                     IF old.ok THEN [ok |-> TRUE, s |-> DhRatchet(old.s, msg.DH, fresh)] ELSE old
      skipped == IF turned.ok THEN SkipMessageKeys(turned.s, msg.N) ELSE turned
  IN IF stored # {} THEN [ok |-> \E k \in stored : k.mk = msg.mk, s |-> s]
     ELSE IF ~skipped.ok THEN skipped
     ELSE [ok |-> MessageKey(skipped.s.CKr) = msg.mk,
           s |-> [skipped.s EXCEPT !.CKr = Advance(@), !.Nr = @ + 1]]

\* Decrypt: the session after it, failed or not, and whether it yields the text.  A
\* session that has changed on the way to a failure stays changed.
Decrypt(s, msg, fresh) ==
  LET stored == {k \in s.Skipped : k.DH = msg.DH /\ k.N = msg.N}
      turned == IF msg.DH = s.DHr THEN [ok |-> TRUE, s |-> s]
                ELSE LET old == SkipMessageKeys(s, msg.PN) IN
                     IF old.ok THEN [ok |-> TRUE, s |-> DhRatchet(old.s, msg.DH, fresh)] ELSE old
      skipped == IF turned.ok THEN SkipMessageKeys(turned.s, msg.N) ELSE turned
  IN IF stored # {}
     THEN [ok |-> \E k \in stored : k.mk = msg.mk,
           s |-> [s EXCEPT !.Skipped = {k \in @ : k \notin stored \/ k.mk # msg.mk}]]
     ELSE IF ~skipped.ok THEN skipped
     ELSE [ok |-> MessageKey(skipped.s.CKr) = msg.mk,
           s |-> [skipped.s EXCEPT !.CKr = Advance(@), !.Nr = @ + 1]]

------------------------------------------------------------------------------
Peer(p) == IF p = "alice" THEN "bob" ELSE "alice"

\* Encrypt: the responder must receive first.
Encrypt(p) ==
  LET s == sessions[p] IN
  /\ s.on /\ Established(s.CKs)
  /\ Cardinality({msg \in sent : msg.from = p}) < MaxSent
  /\ sent' = sent \union
       {[from |-> p, DH |-> s.DHs, PN |-> s.PN, N |-> s.CKs.n, mk |-> MessageKey(s.CKs)]}
  /\ sessions' = [sessions EXCEPT ![p].CKs = Advance(@)]
  /\ UNCHANGED <<oneTime, bundle, keyCount, arrived, opened, failed, repeats>>

\* A message of the initiator finds the responder without a session: it takes the
\* one-time prekey that the initiator used, once.
Respond ==
  /\ ~sessions["bob"].on
  /\ \E msg \in sent : msg.from = "alice"
  /\ bundle \in oneTime
  /\ oneTime' = oneTime \ {bundle}
  /\ sessions' = [sessions EXCEPT !["bob"] = InitBob(bundle)]
  /\ UNCHANGED <<bundle, keyCount, sent, arrived, opened, failed, repeats>>

\* A message arrives, for the first time or again.
Arrive(msg) ==
  LET p == Peer(msg.from)
      result == Decrypt(sessions[p], msg, Key(p, keyCount[p]))
  IN
  /\ sessions[p].on
  /\ IF msg \in arrived THEN repeats < MaxRepeats /\ repeats' = repeats + 1 ELSE UNCHANGED repeats
  /\ arrived' = arrived \union {msg}
  /\ sessions' = [sessions EXCEPT ![p] = result.s]
  /\ keyCount' = [keyCount EXCEPT ![p] = IF result.s.DHs # sessions[p].DHs THEN @ + 1 ELSE @]
  /\ IF result.ok THEN opened' = Append(opened, msg.mk) /\ UNCHANGED failed
     ELSE failed' = failed \union {msg.mk} /\ UNCHANGED opened
  /\ UNCHANGED <<oneTime, bundle, sent>>

RatchetNext ==
  \/ \E p \in Parties : Encrypt(p)
  \/ Respond
  \/ \E msg \in sent : Arrive(msg)

------------------------------------------------------------------------------
FewSent == \A p \in Parties : Cardinality({msg \in sent : msg.from = p}) <= MaxSkip

\* Messages that arrive once each, in whatever order and however many are missing,
\* are all opened, unless more keys might have to be stored than there is room for.
LateStillOpens == repeats = 0 /\ FewSent => failed = {}

\* No message is opened twice, and what is left of a session does not yield the key
\* of a message it has opened: not from the stored keys, not from a chain.
KeysForgotten ==
  /\ \A i, j \in DOMAIN opened : opened[i] = opened[j] => i = j
  /\ \A i \in DOMAIN opened, p \in Parties :
       LET s == sessions[p] IN
       /\ \A k \in s.Skipped : k.mk # opened[i]
       /\ \A chain \in {s.CKs, s.CKr} : chain.root = opened[i][1] => chain.n > opened[i][2]

\* Violated by the code: the "bounded map of skipped message keys" (forward-secrecy.md)
\* gets one more key with every gap that finds it full.
SkippedBounded == \A p \in Parties : Cardinality(sessions[p].Skipped) <= MaxSkip + 1

\* Violated by the code: handles the "out-of-order delivery, which the store-and-forward
\* DNS transport needs"; a message that arrives again may turn the ratchet back.
RepeatHarmless == FewSent => \A msg \in arrived : \E i \in DOMAIN opened : opened[i] = msg.mk
==============================================================================
