----------------------------- MODULE PgNumeric -----------------------------
(***************************************************************************)
(* NUMERIC on the wire of PostgreSQL: encode_decimal_binary of             *)
(* drivers/postgres/writer.rs and parse_numeric of common/pg_binary.rs.    *)
(* A number is written as groups of Width decimal digits (4 in the code),  *)
(* the position of the first group, a sign and the digits to display; a    *)
(* group is here the tuple of its digits, so that printing one with {:04}  *)
(* is the tuple itself.                                                    *)
(***************************************************************************)
EXTENDS Integers, Sequences, FiniteSetsExt, SequencesExt

CONSTANTS Width, MaxDigits  \* digits per group, digits a rust Decimal holds
ASSUME NumericAssumption == Width \in Nat \ {0} /\ MaxDigits \in Nat \ {0}

Zeros(n) == [i \in 1..n |-> 0]
\* How many elements of s, from its start, are z.
Leading(s, z) == Max({n \in 0..Len(s) : \A i \in 1..n : s[i] = z})
DropLeading(s, z) == SubSeq(s, Leading(s, z) + 1, Len(s))
DropTrailing(s, z) == Reverse(DropLeading(Reverse(s), z))

\* A number: sign, digits before the point (none for 0), digits after it.
Decimal(neg, int, frac) == [neg |-> neg, int |-> int, frac |-> frac]
ZERO == Decimal(FALSE, << >>, << >>)
SameNumber(a, b) ==
    /\ a.int = b.int /\ DropTrailing(a.frac, 0) = DropTrailing(b.frac, 0)
    /\ a.neg = b.neg \/ a.int \o DropTrailing(a.frac, 0) = << >>
IsZero(d) == SameNumber(d, ZERO)

Short(digits) == (Width - (Len(digits) % Width)) % Width
Chop(digits) == [g \in 1..(Len(digits) \div Width) |->
                    SubSeq(digits, (g - 1) * Width + 1, g * Width)]
\* A list of groups without the zero groups at an end, one group at least.
KeepOne(s, stripped) == IF stripped = << >> THEN << Head(s) >> ELSE stripped

\* encode_decimal_binary: groups are cut from the point outwards, and zero
\* groups at both ends are dropped "(PostgreSQL does this)".
Encode(d) ==
    IF IsZero(d)
    THEN [digits |-> << >>, weight |-> 0, sign |-> "+", dscale |-> Len(d.frac)]
    ELSE LET int == Chop(Zeros(Short(d.int)) \o d.int)
             frac == Chop(d.frac \o Zeros(Short(d.frac)))
             none == Zeros(Width)
             tail == KeepOne(int \o frac, DropTrailing(int \o frac, none))
         IN  [digits |-> KeepOne(tail, DropLeading(tail, none)),
              weight |-> IF int # << >> THEN Len(int) - 1 ELSE -(Leading(frac, none) + 1),
              sign |-> IF d.neg THEN "-" ELSE "+",
              dscale |-> Len(d.frac)]

\* What PostgreSQL takes a number on the wire for: the group at position w,
\* zero where none is stored, and as many digits after the point as displayed.
DigitGroup(n, w) == IF n.weight - w + 1 \in 1..Len(n.digits) THEN n.digits[n.weight - w + 1] ELSE Zeros(Width)
Meaning(n) ==
    LET above == FlattenSeq([i \in 1..Max({n.weight + 1, 0}) |-> DigitGroup(n, n.weight + 1 - i)])
        below == FlattenSeq([i \in 1..(n.dscale + Width) \div Width |-> DigitGroup(n, -i)])
    IN  Decimal(n.sign = "-", DropLeading(above, 0), SubSeq(below, 1, n.dscale))

NaN == [digits |-> << >>, weight |-> 0, sign |-> "NaN", dscale |-> 0]

\* A variant: one zero group too many before the digits.
FractionShifted(n, positions) ==
    SubSeq(FlattenSeq([i \in 1..(IF n.weight < -1 THEN -n.weight ELSE 0) |-> Zeros(Width)])
           \o FlattenSeq(SubSeq(n.digits, positions + 1, Len(n.digits))) \o Zeros(n.dscale), 1, n.dscale)

\* The digits that parse_numeric writes after the point: the groups the
\* integer part did not use, cut or filled to the display scale.
Fraction(n, positions) ==
    LET written == FlattenSeq([i \in 1..(IF n.weight < -1 THEN -n.weight - 1 ELSE 0) |->
                                  Zeros(Width)])
                   \o FlattenSeq(SubSeq(n.digits, positions + 1, Len(n.digits)))
    IN  SubSeq(written \o Zeros(n.dscale), 1, n.dscale)

\* parse::<Decimal>(): too large a number is an error, too long a fraction is cut.
Parse(neg, int, frac) ==
    IF Len(int) > MaxDigits THEN [ok |-> FALSE, value |-> ZERO]
    ELSE [ok |-> TRUE, value |->
            Decimal(neg, int, SubSeq(frac, 1, Min({Len(frac), MaxDigits - Len(int)})))]

\* Integer groups beyond the stored ones are zero: they were dropped at the end.
Integer(n, positions) ==
    FlattenSeq([i \in 1..positions |-> IF i <= Len(n.digits) THEN n.digits[i] ELSE Zeros(Width)])

\* parse_numeric. NaN becomes zero. With a display scale, the groups from
\* `positions` on are sliced even when fewer are stored, which panics.
Decode(n) ==
    LET positions == Max({n.weight + 1, 0})
    IN  CASE n.sign = "NaN" \/ n.digits = << >> -> [ok |-> TRUE, value |-> ZERO]
          [] n.digits # << >> /\ n.dscale > 0 /\ positions > Len(n.digits) ->
                [ok |-> FALSE, value |-> ZERO]
          [] OTHER -> Parse(n.sign = "-", DropLeading(Integer(n, positions), 0),
                            Fraction(n, positions))
=============================================================================
