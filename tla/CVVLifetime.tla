----------------------------- MODULE CVVLifetime -----------------------------
(***************************************************************************)
(* The tokenizer in time.  Tokenizer lets a Redis key expire whenever it   *)
(* likes, an owner key only after the CVV token it names; here every key   *)
(* counts down from the CVV_TTL it was SET with, handlers may be slow or   *)
(* die between any two commands, and that rule has to follow.              *)
(*                                                                         *)
(* A tick is a quarter of a second: TTL rounds to whole seconds, so what   *)
(* it replies in the last half second is the boundary case.                *)
(***************************************************************************)
EXTENDS Tokenizer

CONSTANT
  CVVTTL    \* h.cvvTTL in ticks; any integer, as config.Load checks nothing

ASSUME CVVTTLAssumption == CVVTTL \in Int

VARIABLES
  tokenLeft,   \* tokenLeft[<<t, k>>]: ticks left to key cvvtok:t:k
  ownerLeft    \* ownerLeft[<<t, k>>]: ticks left to key cvvtok_owner:t:k

timers == <<tokenLeft, ownerLeft>>
timedVars == <<vars, timers>>

Persistent == -1    \* a key that was SET with no expiry
Gone == 0           \* no such key, or one that expires at this very moment

\* Mutant: SET is sent with no expiry, as go-redis does for 0.
SetTTLNone(ttl) == Persistent

\* What SET is given by go-redis: an expiry of 0 or less is none at all.
SetTTL(ttl) == IF ttl > 0 THEN ttl ELSE Persistent

\* Mutants: the owner key is given half the time of the token
OwnerTTLHalf == SetTTL(CVVTTL \div 2)

\* Mutant: ... or twice.
OwnerTTLDouble == SetTTL(2 * CVVTTL)

TokenTTL == SetTTL(CVVTTL)
OwnerTTL == SetTTL(CVVTTL)

TimedTypeOK ==
  /\ tokenLeft \in [RedisKeys -> {Persistent, Gone} \cup 1..CVVTTL]
  /\ ownerLeft \in [RedisKeys -> {Persistent, Gone} \cup 1..CVVTTL]
  /\ \A key \in RedisKeys : /\ cvvtok[key] = Nil => tokenLeft[key] = Gone
                            /\ cvvtokOwner[key] = Nil => ownerLeft[key] = Gone

TimedInit ==
  /\ Init
  /\ tokenLeft = [key \in RedisKeys |-> Gone]
  /\ ownerLeft = [key \in RedisKeys |-> Gone]

TokenDue(key) == cvvtok[key] # Nil /\ tokenLeft[key] = Gone
OwnerDue(key) == cvvtokOwner[key] # Nil /\ ownerLeft[key] = Gone
SomethingDue == \E key \in RedisKeys : TokenDue(key) \/ OwnerDue(key)

\* The timer of a key after a command: SET starts it (no handler SETs a key to
\* the value it has, because every CVV token is new), DEL and GETDEL drop it.
Restart(left, value, newValue, ttl) ==
  [key \in RedisKeys |->
     IF newValue[key] = Nil THEN Gone
     ELSE IF newValue[key] # value[key] THEN ttl
     ELSE left[key]]

RunTimers ==
  /\ ~SomethingDue
  /\ tokenLeft' = Restart(tokenLeft, cvvtok, cvvtok', TokenTTL)
  /\ ownerLeft' = Restart(ownerLeft, cvvtokOwner, cvvtokOwner', OwnerTTL)

-----------------------------------------------------------------------------
\* One call of a handler, a new request or a death, as in Tokenizer.
Arrive(r) == (Reject(r) \/ Receive(r)) /\ RunTimers
Serve(r) == (Tokenize(r) \/ UseToken(r)) /\ RunTimers
Die(r) == Crash(r) /\ RunTimers
Administer(t) == TenantDeactivated(t) /\ RunTimers

CountDown(left) == [key \in RedisKeys |-> IF left[key] > 0 THEN left[key] - 1 ELSE left[key]]

\* Time passes; it matters only while some key counts down.
Tick ==
  /\ ~SomethingDue
  /\ \E key \in RedisKeys : tokenLeft[key] > 0 \/ ownerLeft[key] > 0
  /\ tokenLeft' = CountDown(tokenLeft)
  /\ ownerLeft' = CountDown(ownerLeft)
  /\ UNCHANGED vars

\* A key whose time is up is gone for every later command, so it is taken away
\* before the next one.  Keys due at the same moment vanish together: taking
\* the tokens first is one of the orders nobody can tell apart.
ExpireToken(t, k) ==
  /\ TokenDue(<<t, k>>)
  /\ CVVTokenExpires(t, k)
  /\ UNCHANGED <<dbVars, handlerVars, timers>>

ExpireOwner(t, k) ==
  /\ OwnerDue(<<t, k>>)
  /\ \A key \in RedisKeys : ~TokenDue(key)
  /\ cvvtokOwner' = [cvvtokOwner EXCEPT ![<<t, k>>] = Nil]
  /\ UNCHANGED <<dbVars, handlerVars, cvvtok, fate, timers>>

Expire == \E t \in Tenants, k \in TokenIDs : ExpireToken(t, k) \/ ExpireOwner(t, k)

TimedNext ==
  \/ \E r \in Requests : Arrive(r) \/ Serve(r) \/ Die(r)
  \/ \E t \in Tenants : Administer(t)
  \/ Tick
  \/ Expire

TimedSpec == TimedInit /\ [][TimedNext]_timedVars

\* Go runs every handler that can run, and time does not stop.  Nothing makes
\* requests arrive, handlers die or tenants change.
FairTimedSpec ==
  /\ TimedSpec
  /\ WF_timedVars(Tick) /\ WF_timedVars(Expire)
  /\ \A r \in Requests : WF_timedVars(Serve(r))

-----------------------------------------------------------------------------
\* What the untimed store takes for granted: while a CVV token is there, the
\* owner key that names it does not run out before it, because the token was
\* SET first, with the same TTL, by the same request.
OwnerOutlivesToken ==
  \A t \in Tenants, k \in TokenIDs :
    LET c == cvvtokOwner[<<t, k>>]
    IN  c # Nil /\ cvvtok[<<t, c>>] # Nil /\ ownerLeft[<<t, k>>] # Persistent
          => tokenLeft[<<t, c>>] # Persistent /\ ownerLeft[<<t, k>>] >= tokenLeft[<<t, c>>]

\* With real expiry and handlers of any speed the system is still the untimed
\* Tokenizer, whose invariants therefore hold of it too.
ImplementsTokenizer == Spec

\* Mutant: a reply of 0, what is left rounded down, is taken for an absent key.
ExistsByTTLPositive(t, k) ==
  LET left == tokenLeft[<<t, k>>]
  IN  cvvtok[<<t, k>>] # Nil /\ left # Persistent /\ (left + 2) \div 4 > 0

\* ExistsCVVToken as the code has it: TTL replies -2 for an absent key, -1 for
\* one with no expiry, else the seconds left, rounded; negative means absent.
ExistsByTTL(t, k) ==
  LET left == tokenLeft[<<t, k>>]
  IN  cvvtok[<<t, k>>] # Nil /\ left # Persistent /\ (left + 2) \div 4 >= 0

\* A status request sees a CVV token exactly as long as detokenize would reveal
\* it, to its last quarter of a second.
StatusSeesWhatDetokenizeReveals ==
  \A t \in Tenants, k \in TokenIDs : ExistsByTTL(t, k) <=> ExistsCVVToken(t, k)

\* No CVV stays: whatever becomes of the handler that stored it, dead before it
\* could name it the owner or answered 500, the key is consumed, deleted or
\* expires.
EveryCVVGoes ==
  \A k \in TokenIDs : fate[k] = "stored" ~> fate[k] # "stored"
===============================================================================
