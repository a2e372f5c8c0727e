--------------------------- MODULE BirdsNestRules ---------------------------
(***************************************************************************)
(* The rule engine (src/birdsnest/rules.go, BirdsNestImpl.ValidateRule):   *)
(* the absolute-expiry rule accepts a key whose timestamp is within the    *)
(* configured number of seconds of now.  Its arithmetic is int64's: the    *)
(* nanosecond conversion and now -/+ the window wrap around at the width   *)
(* of the word BirdsNest reads timestamps in.  The rules change no state:  *)
(* they are operators of the key, the clock, the configured expiry and the *)
(* requested rule list, and BirdsNestRulesProofs.tla proves what they     *)
(* compute.                                                                *)
(***************************************************************************)
EXTENDS BirdsNest, Sequences

CONSTANT SecondNanos  \* time.Second.Nanoseconds(), scaled to the word

(* Two's-complement int64 arithmetic: the result wraps into Nanos. *)
Wrap(x) == Int64Of(x % Word)

(* NewAETRule (rules.go:35-37): seconds to nanoseconds. *)
NewAETRule(e) == Wrap(e * SecondNanos)

(* AbsoluteExpireTimeRule.Validate (rules.go:24-33) with the clock at t. *)
AETValidate(k, aet, t) ==
    LET nano == GetNano(k)
        start == Wrap(t - aet)
        end == Wrap(t + aet)
    IN  ~(nano < start \/ nano > end)

(* ValidateRule (birdsnest.go:149-164): every requested rule the nest     *)
(* knows must accept the key; unknown kinds are skipped.  The nest's rule *)
(* map holds the absolute-expiry rule only.                               *)
ValidateRule(k, rs, aet, t) ==
    \A i \in DOMAIN rs : rs[i] = "AbsoluteExpireTime" => AETValidate(k, aet, t)

=============================================================================
