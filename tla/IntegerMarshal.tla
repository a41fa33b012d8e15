--------------------------- MODULE IntegerMarshal ---------------------------
(***************************************************************************)
(* What happens to an integer as it goes back and forth between Perl and   *)
(* native code: the argument and result switches of Fiction_trigger        *)
(* (lib/Affix.cxx), those of cbHandlerXXXXX (lib/Affix/Callback.cxx), and  *)
(* sv2ptr and ptr2sv (lib/Affix/marshal.cxx), through which pins, structs  *)
(* and pointers are written and read.                                      *)
(*                                                                         *)
(* The widths are parameters, given as the number of values of a type, 2^w *)
(* for w bits: small ones are checked exhaustively, all of them proved.    *)
(***************************************************************************)
EXTENDS Integers

CONSTANTS
    Size,     \* Size[t]: the number of values of each integer type
    WordSize, \* the number of values of Perl's IV, and of its UV
    Routes    \* the crossings in use: "call", "callback", "memory"

SignedTypes == {"char", "short", "int", "long", "longlong"}
UnsignedTypes == {"uchar", "ushort", "uint", "ulong", "ulonglong"}
Types == SignedTypes \cup UnsignedTypes \cup {"bool"}

\* Powers of two, none greater than Perl's: the halves are whole, and the
\* smaller divides the greater.
ASSUME SizeAssumption ==
    /\ Size \in [Types -> Nat \ {0}] /\ WordSize \in Nat /\ WordSize > 2
    /\ \A t \in Types : Size[t] % 2 = 0 /\ WordSize % Size[t] = 0
    /\ Routes \subseteq {"call", "callback", "memory"}

VARIABLES
    ty,    \* the type in the signature
    orig,  \* the integer that the Perl code started with
    side,  \* who has the integer: "perl", "native" code, or "memory"
    val,   \* the integer as that side sees it
    via,   \* the route that brought it there, or "none"
    inCallback  \* the Perl code that has it, or stored it, runs as a callback

vars == <<ty, orig, side, val, via, inCallback>>

\* The unsigned and the signed (two's complement) integer of `size' values that
\* C makes of n.
ToUnsigned(n, size) == n % size

ToSigned(n, size) ==
    LET u == n % size IN IF u >= size \div 2 THEN u - size ELSE u

\* The C conversion of an integer to type t.
Cast(t, n) ==
    CASE t = "bool"           -> IF n = 0 THEN 0 ELSE 1
      [] t \in SignedTypes    -> ToSigned(n, Size[t])
      [] t \in UnsignedTypes  -> ToUnsigned(n, Size[t])

SvIV(n) == ToSigned(n, WordSize)
SvUV(n) == ToUnsigned(n, WordSize)

\* The integers a Perl scalar can hold, as an IV or as a UV.
PerlIntegers == (-(WordSize \div 2))..(WordSize - 1)

\* The type that the dcCall and dcbArg functions return is the signed one.
DyncallValue(t, n) == IF t = "bool" THEN n ELSE ToSigned(n, Size[t])

\* Mutant: every integer argument is bound with dcArgShort.
ArgumentShort(t, n) == Cast(t, ToSigned(n, Size["short"]))

\* Fiction_trigger, argument switch: what the native function reads.
Argument(t, n) ==
    IF t \in SignedTypes \cup {"uchar"} THEN Cast(t, SvIV(n))
    ELSE IF t = "bool" THEN Cast(t, n)
    ELSE Cast(t, SvUV(n))

\* Mutant: the unsigned short is widened without the cast.
ResultUncut(t, n) ==
    CASE t = "bool"                             -> n
      [] t \in SignedTypes \cup {"uchar"}       -> SvIV(DyncallValue(t, n))
      [] t \in UnsignedTypes \ {"uchar"}        -> SvUV(DyncallValue(t, n))

\* Fiction_trigger, result switch: the number in a->res.
Result(t, n) ==
    CASE t = "bool"                  -> n
      [] t \in SignedTypes           -> SvIV(DyncallValue(t, n))
      [] t = "uchar"                 -> SvIV(SvUV(DyncallValue(t, n)))
      [] t = "ushort"                -> SvUV(Cast("ushort", DyncallValue(t, n)))
      [] t \in UnsignedTypes \ {"uchar", "ushort"} -> SvUV(DyncallValue(t, n))

\* cbHandlerXXXXX, argument switch: the number that the Perl callback gets.
CallbackArgument(t, n) ==
    CASE t = "bool"                    -> n
      [] t \in SignedTypes             -> SvIV(DyncallValue(t, n))
      [] t = "uchar"                   -> SvIV(SvUV(DyncallValue(t, n)))
      [] t \in UnsignedTypes \ {"uchar"} -> SvUV(DyncallValue(t, n))

\* cbHandlerXXXXX, return switch: what the native code gets back.
CallbackResult(t, n) ==
    IF t = "uchar" THEN Cast(t, SvUV(n))
    ELSE IF t = "bool" THEN Cast(t, n)
    ELSE Cast(t, SvIV(n))

\* Mutant: the value is stored as wide as Perl has it.
StoreWide(t, n) == IF t = "bool" THEN Cast(t, n) ELSE SvIV(n)

\* sv2ptr: what is stored; characters are stored as strings there.
sv2ptr(t, n) ==
    CASE t = "bool"                   -> Cast(t, n)
      [] t \in {"ushort", "uint"}     -> Cast(t, SvUV(n))
      [] t \in {"short", "int", "long", "ulong", "longlong", "ulonglong"} -> Cast(t, SvIV(n))

\* ptr2sv: the number read back.
ptr2sv(t, n) == IF t = "ushort" THEN SvUV(n) ELSE SvIV(n)
-----------------------------------------------------------------------------
Init ==
    /\ ty \in Types
    /\ orig \in PerlIntegers
    /\ side = "perl"
    /\ val = orig
    /\ via = "none"
    /\ inCallback = FALSE

Cross(from, to, route, n) ==
    /\ side = from
    /\ side' = to
    /\ via' = route
    /\ val' = n
    /\ UNCHANGED <<ty, orig>>

\* Perl calls a fiction with the integer (not from a callback: that nests, and
\* nothing here depends on depth); the native function returns it.
Pass ==
    /\ Routes \cap {"call", "callback"} # {} /\ ~inCallback
    /\ Cross("perl", "native", "call", Argument(ty, val))
    /\ UNCHANGED inCallback

Return ==
    /\ "call" \in Routes
    /\ Cross("native", "perl", "call", Result(ty, val))
    /\ UNCHANGED inCallback

\* The native function passes the integer to a callback, which returns it.
CallBack ==
    /\ "callback" \in Routes
    /\ Cross("native", "perl", "callback", CallbackArgument(ty, val))
    /\ inCallback' = TRUE

CallbackReturn ==
    /\ inCallback
    /\ Cross("perl", "native", "callback", CallbackResult(ty, val))
    /\ inCallback' = FALSE

\* The integer is written to memory (set_pin, a struct, a pointer) and read.
Store ==
    /\ "memory" \in Routes
    /\ ty \notin {"char", "uchar"}
    /\ Cross("perl", "memory", "memory", sv2ptr(ty, val))
    /\ UNCHANGED inCallback

Load ==
    /\ Cross("memory", "perl", "memory", ptr2sv(ty, val))
    /\ UNCHANGED inCallback

Next == Pass \/ Return \/ CallBack \/ CallbackReturn \/ Store \/ Load

Spec == Init /\ [][Next]_vars
-----------------------------------------------------------------------------
\* The ranges of the integers: outside Perl they fit the C type, which is what
\* the casts in Fiction_trigger, cbHandlerXXXXX and sv2ptr are for.
TypeOK ==
    /\ ty \in Types
    /\ orig \in PerlIntegers
    /\ side \in {"perl", "native", "memory"}
    /\ val \in IF side = "perl" THEN PerlIntegers ELSE {Cast(ty, n) : n \in PerlIntegers}
    /\ via \in Routes \cup {"none", "call"}
    /\ inCallback \in BOOLEAN

\* However often the integer crossed, native code and memory have what C makes
\* of the integer that Perl started with: where Perl was shown a wrong number
\* on the way, handing it back repairs it.
NativeSees == side \in {"native", "memory"} => val = Cast(ty, orig)

\* The crossings that widen an unsigned integer by its sign: the result and the
\* callback argument of types narrower than Perl's, and memory as wide as it.
Widening ==
    LET narrow == {"uchar"} \cup {t \in UnsignedTypes : Size[t] < WordSize}
        wide == {t \in UnsignedTypes : Size[t] = WordSize}
    IN  ((narrow \ {"ushort"}) \X {"call"})
            \cup (narrow \X {"callback"})
            \cup ((wide \ {"ushort"}) \X {"memory"})

\* On every other crossing Perl sees that integer too.
PerlSees ==
    side = "perl" /\ via # "none" /\ <<ty, via>> \notin Widening => val = Cast(ty, orig)

\* An unsigned type is unsigned in Perl too (lib/Affix/Type.pod), which the
\* widening crossings break.
UnsignedInPerl ==
    side = "perl" /\ via # "none" /\ ty \in UnsignedTypes => val = Cast(ty, orig)
=============================================================================
