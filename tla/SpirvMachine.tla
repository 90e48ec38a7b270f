---------------------------- MODULE SpirvMachine ----------------------------
(***************************************************************************)
(* One invocation of the shader on a GPU: the meaning SPIR-V gives to the  *)
(* instructions the lifter emits.  An unsigned 32-bit value is a number    *)
(* modulo UintSize; a 64-bit value is an exact natural number; a float is  *)
(* a number that has been rounded; a Boolean is 0 or 1.  A pointer is      *)
(* <<variable, element>>, and <<0, address>> in a physical storage buffer. *)
(***************************************************************************)
EXTENDS SpirvRules

CONSTANTS
    UintSize,       \* 2^32
    Exact,          \* numbers up to this one are floats: 2^24
    Rounded(_)      \* the float a number is rounded to

ASSUME UintSizeAssumption == UintSize \in Nat \ {0}

ASSUME RoundedAssumption == Exact \in Nat /\ \A n \in 0..Exact : Rounded(n) = n

Uint == 0..(UintSize - 1)

\* What a variable holds before anything is stored to it is undefined: an unknown
\* number that depends on the location and on the seed.
Undefined(seed, location) == (seed * location[1]) % UintSize

BoolUndefined(seed, location) == (seed * location[1]) % 2

Read(m, seed, type, location) ==
    IF location \in DOMAIN m THEN m[location]
    ELSE IF type = G.type_bool THEN BoolUndefined(seed, location) ELSE Undefined(seed, location)

\* The memory m after v has been written to a location.
Written(m, location, v) ==
    [p \in DOMAIN m \cup {location} |-> IF p = location THEN v ELSE m[p]]

\* The pointer an access chain makes: an element of a variable.
Element(pointer, index) == <<pointer[1], index>>

Wrap(type, n) == IF type = G.type_uint THEN n % UintSize ELSE n

Truth(b) == IF b THEN 1 ELSE 0

\* env: the values of the ids, 0 before they have one; m: memory; next: the label control
\* goes to, 0 when inside a block, and Nowhere at the end.
Nowhere == -1

Value(s, seed, w) ==
    LET x(k) == s.env[w.args[k]]
    IN  CASE w.op = "Load"        -> Read(s.m, seed, w.type, x(1))
          [] w.op = "AccessChain" -> Element(x(1), x(2))
          [] w.op = "IAdd"        -> Wrap(w.type, x(1) + x(2))
          [] w.op = "IMul"        -> Wrap(w.type, x(1) * x(2))
          [] w.op = "FAdd"        -> Rounded(x(1) + x(2))
          [] w.op = "FMul"        -> Rounded(x(1) * x(2))
          [] w.op = "UMod"        -> x(1) % x(2)
          [] w.op = "INotEqual"   -> Truth(x(1) # x(2))
          [] w.op = "ULessThan"   -> Truth(x(1) < x(2))
          [] w.op = "LogicalNot"  -> 1 - x(1)
          [] w.op = "ConvertUToPtr" -> <<0, x(1)>>
          [] w.op = "ConvertUToF" -> Rounded(x(1))
          [] w.op = "ConvertFToU" -> IF x(1) < UintSize THEN x(1) ELSE Undefined(seed, <<w.id, 0>>)
          [] w.op = "UConvert"    -> Wrap(w.type, x(1))
          [] w.op = "Constant"    -> w.lits[1]
          [] w.op = "Variable"    -> <<w.id, 0>>

Execute(s, seed, w) ==
    CASE w.op = "Store"  -> [s EXCEPT !.m = Written(s.m, s.env[w.args[1]], s.env[w.args[2]])]
      [] w.op = "Branch" -> [s EXCEPT !.next = w.lits[1]]
      [] w.op = "BranchConditional" ->
           [s EXCEPT !.next = IF s.env[w.args[1]] = 1 THEN w.lits[1] ELSE w.lits[2]]
      [] w.op = "Return" -> [s EXCEPT !.next = Nowhere]
      [] w.type # 0 /\ w.op # "Function" -> [s EXCEPT !.env[w.id] = Value(s, seed, w)]
      [] OTHER -> s

\* Blocks come in order, and one that control does not go to is passed over.
Step(s, seed, w) ==
    IF s.next = 0 THEN Execute(s, seed, w)
    ELSE IF w.op = "Label" /\ w.id = s.next THEN [s EXCEPT !.next = 0]
    ELSE s

\* The state after the words from a + 1 to b, from s.
Between(words, seed, s, a, b) ==
    LET after[k \in a..b] == IF k = a THEN s ELSE Step(after[k - 1], seed, words[k])
    IN  after[b]

\* The memory after the module has run, its declarations and then its only function,
\* from what its inputs and buffers hold.  The state half way is listed first: TLC then
\* has it before it goes on, and recurses half as deep.
Run(words, m, seed) ==
    LET half   == Len(words) \div 2
        start  == [env |-> [id \in Nat |-> 0], m |-> m, next |-> 0]
        middle == Between(words, seed, start, 0, half)
        end    == Between(words, seed, middle, half, Len(words))
    IN  <<middle, end>>[2].m
=============================================================================
