------------------------------ MODULE EString ------------------------------
(***************************************************************************)
(* estring_t (types/src/estring.cpp): a string packed into an array whose  *)
(* byte at MAX_LEN counts the characters that are missing, and its three-  *)
(* way comparison, which compares the arrays as big-endian numbers when    *)
(* both sides have the same MAX_LEN, below 16, and the strings otherwise.  *)
(* Two strings are constructed and compared.  A character is its byte.     *)
(***************************************************************************)
EXTENDS Integers, Sequences, SequencesExt

CONSTANTS
  Base,     \* values of a byte (256)
  MinLen,   \* MIN_LEN
  MaxLens,  \* the MAX_LEN of the types compared
  Inputs    \* the strings given to the constructor

ASSUME EStringAssumption ==
  /\ Base \in Nat \ {0}
  /\ MinLen \in Nat
  /\ MaxLens \subseteq MinLen .. Base - 1
  /\ Inputs \subseteq Seq(0 .. Base - 1)

VARIABLES
  pc,            \* "left", "right", "compare", "done" or "thrown"
  left, right,   \* MAX_LEN of the two sides
  lhs, rhs,      \* v_ of the two sides, <<>> before construction
  source,        \* history: the strings they were made of
  order          \* the result of operator <=>

vars == <<pc, left, right, lhs, rhs, source, order>>

(* The array of an estring_t begins at index 0.                             *)
StorageSize(max) ==
  CASE max < 4  -> 4
    [] max \in 4 .. 7 -> 8
    [] max \in 8 .. 15 -> 16
    [] OTHER -> ((max + 8) \div 8) * 8

(* The constructor refuses other lengths.                                   *)
Fits(s, max) == Len(s) \in MinLen .. max

(* init(s).  Variants: the count of missing characters is left out; the     *)
(* subtraction is the other way round.                                      *)
StoreUncounted(s, max) ==
  [i \in 0 .. StorageSize(max) - 1 |-> IF i < Len(s) THEN s[i + 1] ELSE 0]

StoreNegative(s, max) ==
  [i \in 0 .. StorageSize(max) - 1 |->
     IF i < Len(s) THEN s[i + 1] ELSE IF i = max THEN Len(s) - max ELSE 0]

Store(s, max) ==
  [i \in 0 .. StorageSize(max) - 1 |->
     IF i < Len(s) THEN s[i + 1] ELSE IF i = max THEN max - Len(s) ELSE 0]

(* Variant: the length with the terminating null.                           *)
LengthWithNull(v, max) == max - v[max] + 1
Length(v, max) == max - v[max]

View(v, max) == [i \in 1 .. Length(v, max) |-> v[i - 1]]

(* repr(): the bytes, the first one most significant, as a signed number of *)
(* four, eight or sixteen bytes.                                            *)
Signed(b) == IF b >= Base \div 2 THEN b - Base ELSE b

Quad(r, v, i) == (((r * Base + v[i]) * Base + v[i + 1]) * Base + v[i + 2]) * Base + v[i + 3]
Int32(v) == ((Signed(v[0]) * Base + v[1]) * Base + v[2]) * Base + v[3]

Repr(v, max) ==
  CASE max < 4 -> Int32(v)
    [] max \in 4 .. 7 -> Quad(Int32(v), v, 4)
    [] OTHER -> Quad(Quad(Quad(Int32(v), v, 4), v, 8), v, 12)

(* The order of std::string_view: by unsigned bytes, prefixes first.        *)
Before(s, t) ==
  \/ IsStrictPrefix(s, t)
  \/ \E i \in DOMAIN s \cap DOMAIN t : s[i] < t[i] /\ \A j \in 1 .. i - 1 : s[j] = t[j]

ThreeWay(less, equal) ==
  IF equal THEN "equal" ELSE IF less THEN "less" ELSE "greater"

OrderOfStrings(s, t) == ThreeWay(Before(s, t), s = t)

Compared(v, max1, w, max2) ==
  IF max1 >= 16 \/ max2 >= 16 \/ max1 # max2
  THEN OrderOfStrings(View(v, max1), View(w, max2))
  ELSE ThreeWay(Repr(v, max1) < Repr(w, max2), Repr(v, max1) = Repr(w, max2))

-----------------------------------------------------------------------------
Init ==
  /\ pc = "left"
  /\ left \in MaxLens /\ right \in MaxLens
  /\ lhs = <<>> /\ rhs = <<>>
  /\ source = <<>>
  /\ order = "none"

ConstructLeft(s) ==
  /\ pc = "left" /\ Fits(s, left)
  /\ lhs' = Store(s, left)
  /\ source' = <<s>>
  /\ pc' = "right"
  /\ UNCHANGED <<left, right, rhs, order>>

ConstructRight(s) ==
  /\ pc = "right" /\ Fits(s, right)
  /\ rhs' = Store(s, right)
  /\ source' = Append(source, s)
  /\ pc' = "compare"
  /\ UNCHANGED <<left, right, lhs, order>>

ConstructThrows(s) ==
  /\ \/ pc = "left" /\ ~Fits(s, left)
     \/ pc = "right" /\ ~Fits(s, right)
  /\ pc' = "thrown"
  /\ UNCHANGED <<left, right, lhs, rhs, source, order>>

Compare ==
  /\ pc = "compare"
  /\ order' = Compared(lhs, left, rhs, right)
  /\ pc' = "done"
  /\ UNCHANGED <<left, right, lhs, rhs, source>>

Next ==
  \/ \E s \in Inputs : ConstructLeft(s) \/ ConstructRight(s) \/ ConstructThrows(s)
  \/ Compare

Spec == Init /\ [][Next]_vars

-----------------------------------------------------------------------------
Storage(max) == [0 .. StorageSize(max) - 1 -> 0 .. Base - 1]

TypeOK ==
  /\ pc \in {"left", "right", "compare", "done", "thrown"}
  /\ left \in MaxLens /\ right \in MaxLens
  /\ pc \in {"right", "compare", "done"} => lhs \in Storage(left)
  /\ pc \in {"compare", "done"} => rhs \in Storage(right)
  /\ source \in Seq(Inputs)
  /\ order \in {"none", "less", "equal", "greater"}

(* length() and the string_view of an estring_t give back the string it was *)
(* made of, null characters in it included, although the count of missing   *)
(* characters shares the array with them.                                   *)
ViewIsSource ==
  /\ pc \in {"right", "compare", "done"} => View(lhs, left) = source[1]
  /\ pc \in {"compare", "done"} => View(rhs, right) = source[2]

(* Two estring_t compare equal exactly when they hold the same string, be   *)
(* they compared as numbers or as strings.                                  *)
EqualIffSame ==
  pc = "done" => (order = "equal" <=> source[1] = source[2])

(* The comparison of numbers orders strings as string_view does, as long as *)
(* they have no null characters and their first bytes are both below 128 or *)
(* both not.  Outside this the two orders differ: a first byte from 128 on  *)
(* makes the number negative, and "a" is above "a\0".                       *)
NoNulls(s) == \A i \in DOMAIN s : s[i] # 0
SameSign(s, t) ==
  s # <<>> /\ t # <<>> /\ (s[1] >= Base \div 2 <=> t[1] >= Base \div 2)

OrderAgrees ==
  LET s == source[1]
      t == source[2]
  IN pc = "done" /\ (left # right \/ (NoNulls(s) /\ NoNulls(t) /\ SameSign(s, t)))
       => order = OrderOfStrings(s, t)

(* What a reader of operator <=> expects: it tells strings apart exactly,   *)
(* and orders them like strings wherever the code lets it.                  *)
ComparesLikeStrings == EqualIffSame /\ OrderAgrees
=============================================================================
