----------------------------- MODULE LimitOption -----------------------------
(***************************************************************************)
(* The max_unused limit of prune: LimitOption::from_str parses the option *)
(* and decide_repack turns it into a number of bytes, from the used size  *)
(* of the repository (src/crates/core/src/commands/prune.rs).             *)
(*                                                                         *)
(* An option string is abstracted to its shape: "<n>%", "unlimited", a   *)
(* size, or text that parses as neither.  u64 arithmetic is done modulo   *)
(* Word (2^64 in the code, scaled down).  An arithmetic overflow panics   *)
(* in a debug build and wraps in a release build, so both outcomes are    *)
(* possible; a division by zero panics in either.                         *)
(***************************************************************************)
EXTENDS Naturals

CONSTANTS
    MaxPct,     \* percentages "0%" .. "<MaxPct>%" are given
    Sizes,      \* byte sizes: of a "size" option, and of the used blobs
    Word,       \* 2^64, scaled down
    Panic, Rejected

VARIABLES
    arg,        \* the option string
    used,       \* stats.size_sum().used
    repackUncompressed,
    limit,      \* Word until planned; then the max_unused bytes, or Panic
    phase       \* "parse", "plan", "done", or Rejected (from_str failed)

vars == <<arg, used, repackUncompressed, limit, phase>>

Arg == {[shape |-> "pct", n |-> k] : k \in 0..MaxPct}
         \cup {[shape |-> "size", n |-> s] : s \in Sizes}
         \cup {[shape |-> "unlimited", n |-> 0], [shape |-> "junk", n |-> 0]}

\* LimitOption::from_str: a trailing '%' makes the rest a u64 percentage
\* (any value parses), "unlimited" is Unlimited, anything else must parse
\* as a ByteSize.
FromStr(a) ==
    CASE a.shape = "pct" -> [kind |-> "Percentage", n |-> a.n]
      [] a.shape = "unlimited" -> [kind |-> "Unlimited", n |-> 0]
      [] a.shape = "size" -> [kind |-> "Size", n |-> a.n]
      [] OTHER -> Rejected

\* u64 subtraction and multiplication: a result outside 0..Word-1 panics
\* (debug) or wraps (release).
Sub(x, y) == IF x >= y THEN {x - y} ELSE {Panic, (x + Word - y) % Word}
Mul(x, y) == IF x * y < Word THEN {x * y} ELSE {Panic, (x * y) % Word}
Div(x, y) == IF x = Panic \/ y = Panic THEN Panic
             ELSE IF y = 0 THEN Panic ELSE x \div y

\* decide_repack: max_unused from the option.
MaxUnused(opt, ru, u) ==
    CASE ru -> {0}
      [] opt.kind = "Unlimited" -> {Word - 1}
      [] opt.kind = "Size" -> {opt.n}
      [] OTHER -> {Div(x, y) : x \in Mul(opt.n, u), y \in Sub(100, opt.n)}

Init ==
    /\ arg \in Arg
    /\ used \in Sizes
    /\ repackUncompressed \in BOOLEAN
    /\ limit = Word
    /\ phase = "parse"

Parse ==
    /\ phase = "parse"
    /\ phase' = IF FromStr(arg) = Rejected THEN Rejected ELSE "plan"
    /\ UNCHANGED <<arg, used, repackUncompressed, limit>>

Plan ==
    /\ phase = "plan"
    /\ limit' \in MaxUnused(FromStr(arg), repackUncompressed, used)
    /\ phase' = "done"
    /\ UNCHANGED <<arg, used, repackUncompressed>>

Next == Parse \/ Plan

Spec == Init /\ [][Next]_vars

-----------------------------------------------------------------------------
\* Spec, prune: max_unused = Percentage(p) means unused <= p% of the size
\* after prune, i.e. 100 * unused <= p * (used + unused), and "p = 100
\* rejects (divide by zero guarded)".  So a percentage that from_str
\* accepts must either be rejected or give a limit that admits exactly the
\* unused sizes that are at most p% of the result; decide_repack must not
\* panic.
PercentageLimitHonoured ==
    phase = "done" /\ arg.shape = "pct" /\ ~repackUncompressed =>
        /\ limit # Panic
        /\ \A u \in Sizes :
              (u <= limit) <=> (100 * u <= arg.n * (used + u))

=============================================================================
