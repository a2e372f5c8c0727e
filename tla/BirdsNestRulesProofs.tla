------------------------ MODULE BirdsNestRulesProofs ------------------------
(***************************************************************************)
(* Proofs about the absolute-expiry rule of BirdsNestRules.tla: its int64 *)
(* arithmetic is the only way it departs from the window of spec.md 4.4.  *)
(* When the window in nanoseconds and now -/+ the window are int64 values, *)
(* ValidateRule accepts exactly the keys inside the window, for every      *)
(* word width, clock, expiry and key.                                      *)
(***************************************************************************)
EXTENDS BirdsNestRules, BirdsNestProofs, TLAPS

USE KeysAssumption

(* Two's-complement wrapping leaves an int64 value as it is. *)
LEMMA WrapId ==
    ASSUME NEW x \in Nanos
    PROVE  Wrap(x) = x
<1>1. Word \in Nat /\ HalfWord \in 0 .. Word
  BY WordRange
<1>2. Word > 0 /\ x \in Int /\ x >= HalfWord - Word /\ x <= HalfWord - 1
  BY <1>1 DEF Nanos
<1>3. CASE x >= 0
  <2>1. x % Word = x
    <3>1. x \in 0 .. Word - 1
      BY <1>1, <1>2, <1>3
    <3>2. \A y \in 0 .. Word - 1 : y % Word = y
      BY <1>1, <1>2
    <3>. QED BY <3>1, <3>2, Zenon
  <2>2. ~(x >= HalfWord)
    BY <1>1, <1>2
  <2>3. Int64Of(x) = x
    BY <2>2 DEF Int64Of
  <2>. QED BY <2>1, <2>3 DEF Wrap
<1>4. CASE x < 0
  <2>1. x % Word = x + Word
    BY <1>1, <1>2, <1>4
  <2>2. x + Word >= HalfWord
    BY <1>1, <1>2
  <2>3. Int64Of(x + Word) = x
    BY <1>1, <1>2, <2>2 DEF Int64Of
  <2>. QED BY <2>1, <2>3 DEF Wrap
<1>. QED BY <1>3, <1>4 DEF Nanos

(* GetNano reads a key's timestamp bytes big-endian into an int64. *)
LEMMA GetNanoRange ==
    ASSUME NEW k \in Keys
    PROVE  GetNano(k) \in Nanos
<1>1. KeyBytes[k][1] \in 0 .. ByteBase - 1 /\ KeyBytes[k][2] \in 0 .. ByteBase - 1
  BY DEF NanoWidth
<1>2. KeyBytes[k][1] * ByteBase + KeyBytes[k][2] \in 0 .. Word - 1
  BY <1>1, PrefixRange
<1>. QED BY <1>2, Int64OfRange DEF GetNano, BigEndianNano

(* Without overflow, AbsoluteExpireTimeRule.Validate (rules.go:24-33) of   *)
(* the rule NewAETRule builds (rules.go:35-37) accepts a key exactly when  *)
(* its timestamp is in [now - W, now + W], and ValidateRule                *)
(* (birdsnest.go:149-164) applies it exactly when it is requested.  A     *)
(* negative configured expiry gives an empty window on both sides.        *)
THEOREM RuleCorrectWithoutOverflow ==
    ASSUME SecondNanos \in Int,
           NEW k \in Keys, NEW e \in Int, NEW t \in Nanos, NEW rs,
           e * SecondNanos \in Nanos,
           t - e * SecondNanos \in Nanos,
           t + e * SecondNanos \in Nanos
    PROVE  ValidateRule(k, rs, NewAETRule(e), t)
             <=> ((\E i \in DOMAIN rs : rs[i] = "AbsoluteExpireTime")
                  => t - e * SecondNanos <= GetNano(k) /\ GetNano(k) <= t + e * SecondNanos)
<1>. DEFINE w == e * SecondNanos
<1>1. NewAETRule(e) = w
  BY WrapId DEF NewAETRule
<1>2. Wrap(t - w) = t - w /\ Wrap(t + w) = t + w
  BY WrapId
<1>3. GetNano(k) \in Int
  BY GetNanoRange DEF Nanos
<1>4. AETValidate(k, w, t) <=> (t - w <= GetNano(k) /\ GetNano(k) <= t + w)
  <2>1. \A a, lo, hi \in Int : ~(a < lo \/ a > hi) <=> (lo <= a /\ a <= hi)
    OBVIOUS
  <2>2. t - w \in Int /\ t + w \in Int
    BY DEF Nanos
  <2>3. AETValidate(k, w, t) <=> ~(GetNano(k) < t - w \/ GetNano(k) > t + w)
    BY <1>2 DEF AETValidate
  <2>. HIDE DEF w
  <2>. QED BY <1>3, <2>1, <2>2, <2>3, Zenon
<1>5. ValidateRule(k, rs, NewAETRule(e), t)
        <=> ((\E i \in DOMAIN rs : rs[i] = "AbsoluteExpireTime") => AETValidate(k, w, t))
  BY <1>1, Zenon DEF ValidateRule
<1>. HIDE DEF w
<1>. QED BY <1>4, <1>5, Zenon DEF w
=============================================================================
