-------------------------- MODULE HeaderCodecProofs --------------------------
(***************************************************************************)
(* The text header, proved for any radix, hash length, cap, headers,       *)
(* bodies and odd texts: decode_file_header accepts exactly the documented *)
(* grammar, inverts encode_file_header however the receive events cut the  *)
(* text, never changes its mind once the blank line is there, and gives no *)
(* name that is not one component of a path.                               *)
(*                                                                         *)
(* The argument is by induction over texts and over lines of text.  The    *)
(* codec is built from folds and one recursive function, and the first     *)
(* third of the module shows that these exist and what one step more does  *)
(* to them: induction over the numbers follows from the library's theorem  *)
(* that inclusion is well founded on finite sets, induction over sequences *)
(* follows by their length, and a fold over a sequence is the function of  *)
(* its positions that takes the same steps.                                *)
(***************************************************************************)
EXTENDS HeaderCodec, SequenceTheorems, FiniteSetTheorems, TLAPS

-----------------------------------------------------------------------------
(* Numbers: least and greatest ones, induction, and functions defined by   *)
(* recursion.                                                              *)

Segments(T) == {0..n : n \in T}

\* Every set of numbers has a least member.  The library proves inclusion well
\* founded on finite sets; the segments 0..n of the numbers in T are such sets.
LEMMA LeastOfSet ==
  ASSUME NEW T, T \subseteq Nat, T # {}
  PROVE  \E x \in T : \A y \in T : x <= y
<1> DEFINE R == StrictSubsetOrdering(Nat)
<1> DEFINE F == FiniteSubsetsOf(Nat)
<1> DEFINE D == Segments(T)
<1>1. IsWellFoundedOn(R, F)
  BY FS_StrictSubsetOrderingWellFounded
<1>2. ASSUME NEW n \in T PROVE 0..n \in F
  <2>1. IsFiniteSet(0..n)
    BY FS_Interval
  <2>2. 0..n \subseteq Nat
    OBVIOUS
  <2> QED
    BY <2>1, <2>2 DEF FiniteSubsetsOf
<1>3. D \subseteq F
  BY <1>2 DEF Segments
<1>4. D # {}
  BY DEF Segments
<1>5. \E X \in D : \A Y \in D : <<Y, X>> \notin R
  <2> HIDE DEF R, F, D
  <2> QED BY <1>1, <1>3, <1>4, WFMin
<1>6. PICK x \in T : \A y \in T : <<0..y, 0..x>> \notin R
  BY <1>5 DEF Segments
<1>7. ASSUME NEW y \in T, y < x PROVE FALSE
  <2>1. x \in 0..x /\ x \notin 0..y
    BY <1>7
  <2>2. 0..y \subseteq 0..x /\ 0..y # 0..x
    BY <1>7, <2>1
  <2>3. 0..y \in SUBSET Nat /\ 0..x \in SUBSET Nat
    OBVIOUS
  <2> QED
    BY <1>6, <2>2, <2>3 DEF StrictSubsetOrdering
<1> QED
  BY <1>7

\* Induction up to n: otherwise there would be a least number outside S.
LEMMA Upwards ==
  ASSUME NEW n \in Nat, NEW S, 0 \in S,
         \A i \in 0..(n - 1) : i \in S => i + 1 \in S
  PROVE  0..n \subseteq S
<1> DEFINE T == {i \in 0..n : i \notin S}
<1>1. SUFFICES ASSUME T # {} PROVE FALSE
  OBVIOUS
<1>2. PICK x \in T : \A y \in T : x <= y
  <2>1. T \subseteq Nat
    OBVIOUS
  <2> HIDE DEF T
  <2> QED BY <1>1, <2>1, LeastOfSet
<1>3. x \in 0..n /\ x \notin S /\ x # 0
  OBVIOUS
<1>4. x - 1 \in 0..(n - 1) /\ x - 1 \notin T
  BY <1>2, <1>3
<1>5. x - 1 \in S
  BY <1>4
<1> QED
  BY <1>3, <1>4, <1>5

\* Induction over the natural numbers.
LEMMA UpwardsNat ==
  ASSUME NEW S, 0 \in S, \A i \in Nat : i \in S => i + 1 \in S
  PROVE  Nat \subseteq S
<1>1. SUFFICES ASSUME NEW n \in Nat PROVE n \in S
  OBVIOUS
<1>2. 0..n \subseteq S
  BY Upwards
<1> QED
  BY <1>2

\* A bounded set of numbers has a greatest member.
LEMMA GreatestOfSet ==
  ASSUME NEW n \in Nat, NEW T, T \subseteq 0..n, T # {}
  PROVE  \E x \in T : \A y \in T : x >= y
<1> DEFINE U == {n - t : t \in T}
<1>1. U \subseteq Nat /\ U # {}
  <2>1. \A t \in T : t \in 0..n
    OBVIOUS
  <2>2. \A t \in T : n - t \in Nat
    BY <2>1
  <2> QED BY <2>2
<1>2. PICK u \in U : \A v \in U : u <= v
  BY <1>1, LeastOfSet
<1>3. PICK x \in T : u = n - x
  OBVIOUS
<1>4. ASSUME NEW y \in T PROVE x >= y
  <2>1. n - y \in U
    OBVIOUS
  <2>2. n - x <= n - y
    BY <1>2, <1>3, <2>1
  <2>3. x \in 0..n /\ y \in 0..n
    OBVIOUS
  <2> HIDE DEF U
  <2> QED BY <2>2, <2>3
<1> QED
  BY <1>4

\* What Max and Min of the community modules return.
LEMMA MaxOfSet ==
  ASSUME NEW n \in Nat, NEW T, T \subseteq 0..n, T # {}
  PROVE  Max(T) \in T /\ \A y \in T : Max(T) >= y
BY GreatestOfSet DEF Max

LEMMA MinOfSet ==
  ASSUME NEW T, T \subseteq Nat, T # {}
  PROVE  Min(T) \in T /\ \A y \in T : Min(T) <= y
BY LeastOfSet DEF Min

\* The positions 1..i, one after the other: where a fold takes its last step.
LEMMA TopOfSegment ==
  ASSUME NEW i \in Nat, i # 0
  PROVE  Max(1..i) = i /\ (1..i) \ {Max(1..i)} = 1..(i - 1) /\ 1..i # {}
<1>1. 1..i \subseteq 0..i /\ i \in 1..i
  OBVIOUS
<1>2. Max(1..i) \in 1..i /\ \A y \in 1..i : Max(1..i) >= y
  BY <1>1, MaxOfSet
<1>3. Max(1..i) = i
  BY <1>1, <1>2
<1> QED
  BY <1>1, <1>3

\* f is the recursive function of a fold over the positions 1..n.
Solves(f, n, X, base, step) ==
  /\ f \in [SUBSET (1..n) -> X]
  /\ f = [s \in SUBSET (1..n) |->
            IF s = {} THEN base ELSE step[<<f[s \ {Max(s)}], Max(s)>>]]

\* That function exists: by induction on n, one step more than for n - 1.
LEMMA FoldIsDefined ==
  ASSUME NEW X, NEW base \in X, NEW n \in Nat, NEW step \in [X \X (1..n) -> X]
  PROVE  \E f : Solves(f, n, X, base, step)
<1> DEFINE S == {m \in 0..n : \E f : Solves(f, m, X, base, step)}
<1>1. 0 \in S
  <2> DEFINE f == [s \in SUBSET (1..0) |-> base]
  <2>1. SUBSET (1..0) = {{}}
    OBVIOUS
  <2>2. f \in [SUBSET (1..0) -> X]
    OBVIOUS
  <2>3. f = [s \in SUBSET (1..0) |->
                IF s = {} THEN base ELSE step[<<f[s \ {Max(s)}], Max(s)>>]]
    BY <2>1
  <2>4. Solves(f, 0, X, base, step)
    <3> HIDE DEF f
    <3> QED BY <2>2, <2>3 DEF Solves
  <2> QED BY <2>4
<1>2. ASSUME NEW m \in 0..(n - 1), m \in S PROVE m + 1 \in S
  <2>1. PICK f : Solves(f, m, X, base, step)
    BY <1>2
  <2> DEFINE g == [s \in SUBSET (1..(m + 1)) |->
                     IF m + 1 \in s THEN step[<<f[s \ {m + 1}], m + 1>>] ELSE f[s]]
  <2>2. ASSUME NEW s \in SUBSET (1..(m + 1)), m + 1 \in s
        PROVE  /\ Max(s) = m + 1 /\ s \ {m + 1} \in SUBSET (1..m)
               /\ s # {}
    <3>1. s \subseteq 0..(m + 1)
      OBVIOUS
    <3>2. Max(s) \in s /\ \A y \in s : Max(s) >= y
      <4>1. m + 1 \in Nat /\ s # {}
        BY <2>2
      <4> QED BY <3>1, <4>1, MaxOfSet
    <3>3. Max(s) = m + 1
      <4>1. Max(s) \in 1..(m + 1)
        BY <3>2
      <4>2. Max(s) >= m + 1
        BY <2>2, <3>2
      <4> QED BY <4>1, <4>2
    <3>4. s \ {m + 1} \in SUBSET (1..m)
      OBVIOUS
    <3> QED BY <2>2, <3>3, <3>4
  <2>3. ASSUME NEW s \in SUBSET (1..(m + 1)), m + 1 \notin s
        PROVE  s \in SUBSET (1..m)
    BY <2>3
  <2>4. \A s \in SUBSET (1..m) : s \in SUBSET (1..(m + 1)) /\ m + 1 \notin s
    OBVIOUS
  <2>5. \A s \in SUBSET (1..m) : f[s] \in X
    BY <2>1 DEF Solves
  <2>6. g \in [SUBSET (1..(m + 1)) -> X]
    <3>1. ASSUME NEW s \in SUBSET (1..(m + 1))
          PROVE (IF m + 1 \in s THEN step[<<f[s \ {m + 1}], m + 1>>] ELSE f[s]) \in X
      <4>1. CASE m + 1 \in s
        <5>1. f[s \ {m + 1}] \in X
          BY <2>2, <2>5, <4>1
        <5>2. <<f[s \ {m + 1}], m + 1>> \in X \X (1..n)
          BY <5>1
        <5> QED BY <4>1, <5>2
      <4>2. CASE m + 1 \notin s
        BY <2>3, <2>5, <4>2
      <4> QED BY <4>1, <4>2
    <3> QED BY <3>1
  <2>7. \A s \in SUBSET (1..m) : g[s] = f[s]
    BY <2>4
  <2>8. ASSUME NEW s \in SUBSET (1..(m + 1))
        PROVE  g[s] = IF s = {} THEN base ELSE step[<<g[s \ {Max(s)}], Max(s)>>]
    <3>1. CASE m + 1 \in s
      <4>1. g[s] = step[<<f[s \ {m + 1}], m + 1>>]
        BY <3>1
      <4>2. f[s \ {m + 1}] = g[s \ {m + 1}]
        BY <2>2, <2>7, <3>1
      <4> HIDE DEF g
      <4> QED BY <2>2, <3>1, <4>1, <4>2
    <3>2. CASE m + 1 \notin s
      <4>1. s \in SUBSET (1..m)
        BY <2>3, <3>2
      <4>2. f[s] = IF s = {} THEN base ELSE step[<<f[s \ {Max(s)}], Max(s)>>]
        BY <2>1, <4>1 DEF Solves
      <4>3. g[s] = f[s]
        BY <2>7, <4>1
      <4>4. g[s \ {Max(s)}] = f[s \ {Max(s)}]
        <5>1. s \ {Max(s)} \in SUBSET (1..m)
          BY <4>1
        <5> HIDE DEF g
        <5> QED BY <2>7, <5>1
      <4> HIDE DEF g
      <4> QED BY <4>2, <4>3, <4>4
    <3> QED BY <3>1, <3>2
  <2>9. Solves(g, m + 1, X, base, step)
    <3> DEFINE h == [s \in SUBSET (1..(m + 1)) |->
                IF s = {} THEN base ELSE step[<<g[s \ {Max(s)}], Max(s)>>]]
    <3>1. g = h
      <4>1. \A s \in SUBSET (1..(m + 1)) : g[s] = h[s]
        <5> SUFFICES ASSUME NEW s \in SUBSET (1..(m + 1)) PROVE g[s] = h[s]
          OBVIOUS
        <5>1. h[s] = IF s = {} THEN base ELSE step[<<g[s \ {Max(s)}], Max(s)>>]
          <6> HIDE DEF g
          <6> QED OBVIOUS
        <5> QED BY <2>8, <5>1
      <4>2. DOMAIN h = SUBSET (1..(m + 1)) /\ DOMAIN g = SUBSET (1..(m + 1))
        OBVIOUS
      <4>3. g = [s \in DOMAIN g |-> g[s]] /\ h = [s \in DOMAIN h |-> h[s]]
        OBVIOUS
      <4> HIDE DEF g, h
      <4> QED BY <4>1, <4>2, <4>3
    <3> HIDE DEF g
    <3> QED BY <2>6, <3>1 DEF Solves
  <2>10. m + 1 \in 0..n
    OBVIOUS
  <2> HIDE DEF g
  <2> QED BY <2>9, <2>10
<1>3. n \in S
  <2>1. 0..n \subseteq S
    <3> HIDE DEF S
    <3> QED BY <1>1, <1>2, Upwards
  <2>2. n \in 0..n
    OBVIOUS
  <2> HIDE DEF S
  <2> QED BY <2>1, <2>2
<1> QED
  BY <1>3

-----------------------------------------------------------------------------
(* File names.                                                             *)

\* A function on 1..n is a sequence of length n.
LEMMA FunctionIsSeq ==
  ASSUME NEW S, NEW n \in Nat, NEW f \in [1..n -> S]
  PROVE  f \in Seq(S) /\ Len(f) = n
<1>1. f \in Seq(S)
  BY SeqDef
<1>2. DOMAIN f = 1..n /\ DOMAIN f = 1..Len(f) /\ Len(f) \in Nat
  BY <1>1, LenProperties
<1> QED
  BY <1>1, <1>2

\* The digits are digit characters, and no two of them are the same.
LEMMA DigitFacts ==
  /\ Digits \subseteq {"0", "1", "2", "3", "4", "5", "6", "7", "8", "9"}
  /\ \A i \in 1..Radix : DigitChars[i] \in Digits
  /\ \A i, j \in 1..Radix : DigitChars[i] = DigitChars[j] => i = j
<1>1. \A i \in 1..Radix : i \in 1..10
  BY CodecAssumption
<1>2. \A i \in 1..10 : DigitChars[i] \in {"0", "1", "2", "3", "4", "5", "6", "7", "8", "9"}
  BY DEF DigitChars
<1>3. \A i, j \in 1..10 : DigitChars[i] = DigitChars[j] => i = j
  BY DEF DigitChars
<1> QED
  BY <1>1, <1>2, <1>3 DEF Digits

\* Which characters are which: no newline and no "=" in a hash.
LEMMA CharFacts ==
  /\ Digits \subseteq HexDigits /\ HexDigits \subseteq Chars
  /\ {"LF", "=", "_", ".", "received.bin", "name", "size", "hash", Magic, "a", "A"} \subseteq Chars
  /\ {"LF", "="} \cap HexDigits = {}
  /\ "a" \in HexDigits
BY DigitFacts DEF HexDigits, Chars, Words, Controls, Spaces, Separators, Magic

\* FileName keeps what stands after the last slash (path::filename()).
LEMMA LastSlash ==
  ASSUME NEW raw \in Texts
  PROVE  LET slash == SelectLastInSeq(raw, LAMBDA ch : ch = "/")
         IN  slash \in 0..Len(raw) /\ \A i \in (slash + 1)..Len(raw) : raw[i] # "/"
<1> DEFINE I == {i \in 1..Len(raw) : raw[i] = "/"}
<1> DEFINE slash == IF I # {} THEN Max(I) ELSE 0
<1>1. SelectLastInSeq(raw, LAMBDA ch : ch = "/") = slash
  BY DEF SelectLastInSeq
<1>2. Len(raw) \in Nat
  BY DEF Texts
<1>3. I \subseteq 0..Len(raw)
  BY <1>2
<1>4. CASE I = {}
  BY <1>1, <1>2, <1>4
<1>5. CASE I # {}
  <2>1. Max(I) \in I /\ \A y \in I : Max(I) >= y
    <3> HIDE DEF I
    <3> QED BY <1>2, <1>3, <1>5, MaxOfSet
  <2> DEFINE m == Max(I)
  <2>2. slash = m
    BY <1>5
  <2>3. m \in 1..Len(raw) /\ \A y \in 1..Len(raw) : raw[y] = "/" => m >= y
    BY <2>1
  <2> HIDE DEF m, slash
  <2> QED BY <1>1, <1>2, <2>2, <2>3
<1> QED
  BY <1>4, <1>5

\* It is text without a slash, and the whole name if there was none.
LEMMA FileNameIsText ==
  ASSUME NEW raw \in Texts
  PROVE  /\ FileName(raw) \in Texts
         /\ \A i \in 1..Len(FileName(raw)) : FileName(raw)[i] # "/"
         /\ (\A i \in 1..Len(raw) : raw[i] # "/") => FileName(raw) = raw
<1> DEFINE slash == SelectLastInSeq(raw, LAMBDA ch : ch = "/")
<1>1. slash \in 0..Len(raw) /\ \A i \in (slash + 1)..Len(raw) : raw[i] # "/"
  BY LastSlash
<1>2. FileName(raw) = SubSeq(raw, slash + 1, Len(raw))
  BY DEF FileName
<1>3. Len(raw) \in Nat /\ \A i \in 1..Len(raw) : raw[i] \in Chars
  BY DEF Texts
<1>4. ASSUME \A i \in 1..Len(raw) : raw[i] # "/" PROVE FileName(raw) = raw
  <2>1. slash = 0
    <3>1. {i \in 1..Len(raw) : raw[i] = "/"} = {}
      BY <1>4
    <3> QED BY <3>1 DEF SelectLastInSeq
  <2> HIDE DEF slash
  <2> QED BY <1>2, <2>1, SubSeqFull DEF Texts
<1> HIDE DEF slash
<1>5. \A i \in (slash + 1)..Len(raw) : raw[i] \in Chars
  BY <1>1, <1>3
<1>6. /\ SubSeq(raw, slash + 1, Len(raw)) \in Seq(Chars)
      /\ Len(SubSeq(raw, slash + 1, Len(raw))) = IF slash + 1 <= Len(raw) THEN Len(raw) - (slash + 1) + 1 ELSE 0
      /\ \A i \in 1..(Len(raw) - (slash + 1) + 1) :
           SubSeq(raw, slash + 1, Len(raw))[i] = raw[(slash + 1) + i - 1]
  BY <1>1, <1>3, <1>5, SubSeqProperties
<1>7. \A i \in 1..Len(FileName(raw)) : FileName(raw)[i] # "/"
  BY <1>1, <1>2, <1>3, <1>6
<1> QED
  BY <1>2, <1>4, <1>6, <1>7 DEF Texts

\* The name without the white space at its ends.
Trimmed(name) ==
  name # <<>> => name[1] \notin Spaces /\ name[Len(name)] \notin Spaces

\* Trim returns a part of the name without white space at its ends, and the whole
\* name if it had none there.
LEMMA TrimIsText ==
  ASSUME NEW name \in Texts
  PROVE  /\ Trim(name) \in Texts
         /\ Trimmed(Trim(name))
         /\ \A i \in 1..Len(Trim(name)) : \E j \in 1..Len(name) : Trim(name)[i] = name[j]
         /\ Trimmed(name) => Trim(name) = name
<1> DEFINE I == {i \in 1..Len(name) : name[i] \notin Spaces}
<1> DEFINE first == IF I # {} THEN Min(I) ELSE 0
<1> DEFINE last == IF I # {} THEN Max(I) ELSE 0
<1>1. Trim(name) = IF first = 0 THEN <<>> ELSE SubSeq(name, first, last)
  BY DEF Trim, SelectInSeq, SelectLastInSeq
<1>2. Len(name) \in Nat /\ \A i \in 1..Len(name) : name[i] \in Chars
  BY DEF Texts
<1>3. CASE I = {}
  <2>1. Trim(name) = <<>>
    BY <1>1, <1>3
  <2>2. Trimmed(name) => name = <<>>
    <3> SUFFICES ASSUME Trimmed(name), name # <<>> PROVE FALSE
      OBVIOUS
    <3>1. Len(name) # 0
      BY EmptySeq DEF Texts
    <3> QED BY <1>2, <1>3, <3>1 DEF Trimmed
  <2> QED BY <2>1, <2>2, EmptySeq DEF Trimmed, Texts
<1>4. CASE I # {}
  <2>1. I \subseteq 0..Len(name) /\ I \subseteq Nat
    BY <1>2
  <2>2. Min(I) \in I /\ \A y \in I : Min(I) <= y
    <3> HIDE DEF I
    <3> QED BY <1>4, <2>1, MinOfSet
  <2>3. Max(I) \in I /\ \A y \in I : Max(I) >= y
    <3> HIDE DEF I
    <3> QED BY <1>2, <1>4, <2>1, MaxOfSet
  <2>4. first = Min(I) /\ last = Max(I)
    BY <1>4
  <2>5. /\ first \in 1..Len(name) /\ last \in 1..Len(name) /\ first <= last
        /\ name[first] \notin Spaces /\ name[last] \notin Spaces
        /\ \A y \in I : first <= y /\ y <= last
    <3>1. Min(I) \in 1..Len(name) /\ Max(I) \in 1..Len(name)
      BY <2>2, <2>3
    <3>2. name[Min(I)] \notin Spaces /\ name[Max(I)] \notin Spaces
      BY <2>2, <2>3
    <3>3. \A y \in I : Min(I) <= y /\ y <= Max(I)
      <4> HIDE DEF I
      <4> QED BY <2>1, <2>2, <2>3
    <3>4. Min(I) <= Max(I)
      BY <2>2, <3>3
    <3> HIDE DEF I, first, last
    <3> QED BY <2>4, <3>1, <3>2, <3>3, <3>4
  <2>6. Trim(name) = SubSeq(name, first, last)
    <3> HIDE DEF first, last
    <3> QED BY <1>1, <2>5
  <2>7. \A y \in 1..Len(name) : name[y] \notin Spaces => first <= y /\ y <= last
    <3>1. \A y \in 1..Len(name) : name[y] \notin Spaces => y \in I
      OBVIOUS
    <3> HIDE DEF first, last, I
    <3> QED BY <2>5, <3>1
  <2> HIDE DEF I, first, last
  <2>8. /\ Trim(name) \in Seq(Chars)
        /\ Len(Trim(name)) = last - first + 1
        /\ \A i \in 1..(last - first + 1) : Trim(name)[i] = name[first + i - 1]
    <3>1. \A i \in first..last : name[i] \in Chars
      BY <1>2, <2>5
    <3> QED BY <1>2, <2>5, <2>6, <3>1, SubSeqProperties
  <2>9. Trimmed(Trim(name))
    <3>1. Trim(name)[1] = name[first]
      BY <2>5, <2>8
    <3>2. Trim(name)[Len(Trim(name))] = name[last]
      BY <2>5, <2>8
    <3> QED BY <2>5, <3>1, <3>2 DEF Trimmed
  <2>10. \A i \in 1..Len(Trim(name)) : \E j \in 1..Len(name) : Trim(name)[i] = name[j]
    <3> SUFFICES ASSUME NEW i \in 1..Len(Trim(name))
                 PROVE  \E j \in 1..Len(name) : Trim(name)[i] = name[j]
      OBVIOUS
    <3>1. first + i - 1 \in 1..Len(name)
      BY <2>5, <2>8
    <3> QED BY <2>8, <3>1
  <2>11. Trimmed(name) => Trim(name) = name
    <3> SUFFICES ASSUME Trimmed(name) PROVE Trim(name) = name
      OBVIOUS
    <3>1. name # <<>> /\ Len(name) >= 1
      BY <1>2, <2>5, EmptySeq
    <3>2. 1 \in 1..Len(name) /\ Len(name) \in 1..Len(name)
      BY <1>2, <3>1
    <3>3. first = 1 /\ last = Len(name)
      BY <1>2, <2>5, <2>7, <3>1, <3>2 DEF Trimmed
    <3> QED BY <2>6, <3>3, SubSeqFull DEF Texts
  <2> QED BY <2>8, <2>9, <2>10, <2>11 DEF Texts
<1> QED
  BY <1>3, <1>4

\* What a sanitized name is: one component of a path, trimmed.
SafeName(name) ==
  /\ name \in Texts
  /\ name \notin {<<>>, <<".">>, <<".", ".">>}
  /\ \A i \in 1..Len(name) : name[i] \notin Controls \cup Separators
  /\ Trimmed(name)

\* sanitize_file_name leaves a name alone that is safe already.
LEMMA SafeNameStays ==
  ASSUME NEW name, SafeName(name)
  PROVE  sanitize_file_name(name) = name
<1> DEFINE Replaced == [i \in 1..Len(name) |->
                          IF name[i] \in Controls \cup Separators THEN "_" ELSE name[i]]
<1>1. name \in Texts /\ Len(name) \in Nat
  BY DEF SafeName, Texts
<1>2. \A i \in 1..Len(name) : name[i] # "/"
  BY DEF SafeName, Separators
<1>3. FileName(name) = name
  BY <1>1, <1>2, FileNameIsText
<1>4. Trim(name) = name
  BY <1>1, TrimIsText DEF SafeName
<1>5. Usable(name, name)
  BY DEF SafeName, Usable
<1>6. sanitize_file_name(name) = Replaced
  BY <1>3, <1>4, <1>5 DEF sanitize_file_name
<1>7. \A i \in 1..Len(name) : Replaced[i] = name[i]
  BY DEF SafeName
<1>8. Replaced = name
  <2>1. name = [i \in 1..Len(name) |-> name[i]]
    BY <1>1 DEF Texts
  <2> QED BY <1>7, <2>1
<1> QED
  BY <1>6, <1>8

\* sanitize_file_name always returns a safe name.
LEMMA SanitizedIsSafe ==
  ASSUME NEW raw \in Texts
  PROVE  SafeName(sanitize_file_name(raw))
<1> DEFINE name == Trim(FileName(raw))
<1> DEFINE Replace(ch) == IF ch \in Controls \cup Separators THEN "_" ELSE ch
<1> DEFINE clean == [i \in 1..Len(name) |-> Replace(name[i])]
<1>1. name \in Texts /\ Trimmed(name)
  BY FileNameIsText, TrimIsText
<1>2. sanitize_file_name(raw) = IF Usable(name, FileName(raw)) THEN clean ELSE DefaultName
  BY DEF sanitize_file_name
<1>3. SafeName(DefaultName)
  <2>1. DefaultName \in Texts
    <3>1. "received.bin" \in Chars
      BY CharFacts
    <3> QED BY <3>1 DEF DefaultName, Texts
  <2>2. Len(DefaultName) = 1 /\ DefaultName[1] = "received.bin"
    BY DEF DefaultName
  <2>3. DefaultName \notin {<<>>, <<".">>, <<".", ".">>}
    BY DEF DefaultName
  <2> QED BY <2>1, <2>2, <2>3 DEF SafeName, Trimmed, Controls, Separators, Spaces
<1>4. CASE Usable(name, FileName(raw))
  <2> HIDE DEF name
  <2>1. Len(name) \in Nat /\ \A i \in 1..Len(name) : name[i] \in Chars
    BY <1>1 DEF Texts
  <2>2. \A i \in 1..Len(name) : Replace(name[i]) \in Chars
    BY <2>1, CharFacts
  <2>3. clean \in Texts /\ Len(clean) = Len(name)
    <3>1. clean \in [1..Len(name) -> Chars]
      BY <2>2
    <3> HIDE DEF clean
    <3> QED BY <2>1, <3>1, FunctionIsSeq DEF Texts
  <2>4. \A i \in 1..Len(name) :
          /\ clean[i] \notin Controls \cup Separators
          /\ clean[i] = "." => name[i] = "."
          /\ clean[i] \in Spaces => clean[i] = name[i]
    BY DEF Controls, Separators, Spaces
  <2>5. name # <<>> /\ Len(name) # 0
    BY <1>1, <1>4, EmptySeq DEF Usable, Texts
  <2>6. Trimmed(clean)
    <3>1. 1 \in 1..Len(name) /\ Len(name) \in 1..Len(name)
      BY <2>1, <2>5
    <3> HIDE DEF clean, Replace
    <3> QED BY <1>1, <2>3, <2>4, <2>5, <3>1 DEF Trimmed
  <2>7. clean # <<>>
    BY <2>3, <2>5, EmptySeq DEF Texts
  <2>8. clean # <<".">>
    <3> SUFFICES ASSUME clean = <<".">> PROVE FALSE
      OBVIOUS
    <3> HIDE DEF clean, Replace
    <3>1. Len(name) = 1 /\ name[1] = "."
      BY <2>3, <2>4
    <3>2. name = <<".">>
      BY <1>1, <3>1 DEF Texts
    <3> QED BY <1>4, <3>2 DEF Usable
  <2>9. clean # <<".", ".">>
    <3> SUFFICES ASSUME clean = <<".", ".">> PROVE FALSE
      OBVIOUS
    <3> HIDE DEF clean, Replace
    <3>1. Len(name) = 2 /\ name[1] = "." /\ name[2] = "."
      BY <2>3, <2>4
    <3>2. name = <<".", ".">>
      BY <1>1, <3>1 DEF Texts
    <3> QED BY <1>4, <3>2 DEF Usable
  <2>10. SafeName(clean)
    <3> HIDE DEF clean, Replace
    <3> QED BY <2>3, <2>4, <2>6, <2>7, <2>8, <2>9 DEF SafeName
  <2> HIDE DEF clean, Replace
  <2> QED BY <1>2, <1>4, <2>10
<1> QED
  <2> HIDE DEF clean, name
  <2> QED BY <1>2, <1>3, <1>4

\* sanitize_file_name changes nothing the second time: sender and receiver both
\* apply it, and agree on the name (Protocol's NamesAssumption).
THEOREM SanitizedOnceIsEnough ==
  ASSUME NEW raw \in Texts
  PROVE  sanitize_file_name(sanitize_file_name(raw)) = sanitize_file_name(raw)
BY SanitizedIsSafe, SafeNameStays

-----------------------------------------------------------------------------
(* Folds over sequences.                                                   *)

\* A step of a fold over sequences of E, from values of X to values of X.
IsStep(step, base, X, E) == base \in X /\ step \in [X \X E -> X]

\* A fold as a function of the set of positions read so far.
IsFold(f, base, step, seq) ==
  f = [s \in SUBSET (1..Len(seq)) |->
         IF s = {} THEN base ELSE step[<<f[s \ {Max(s)}], seq[Max(s)]>>]]

Fold(base, step, seq) == (CHOOSE f : IsFold(f, base, step, seq))[1..Len(seq)]

\* The last of a set of positions is one of them.
LEMMA TopOfPositions ==
  ASSUME NEW n \in Nat, NEW s \in SUBSET (1..n), s # {}
  PROVE  Max(s) \in s /\ Max(s) \in 1..n /\ s \ {Max(s)} \in SUBSET (1..n)
<1>1. s \subseteq 0..n
  OBVIOUS
<1>2. Max(s) \in s
  BY <1>1, MaxOfSet
<1> QED
  BY <1>2

\* A fold over a sequence exists, with values of the right type.
LEMMA FoldExists ==
  ASSUME NEW X, NEW E, NEW base, NEW step, IsStep(step, base, X, E), NEW seq \in Seq(E)
  PROVE  \E f \in [SUBSET (1..Len(seq)) -> X] : IsFold(f, base, step, seq)
<1> DEFINE n == Len(seq)
<1> DEFINE at == [p \in X \X (1..n) |-> step[<<p[1], seq[p[2]]>>]]
<1>1. n \in Nat /\ \A i \in 1..n : seq[i] \in E
  OBVIOUS
<1>2. at \in [X \X (1..n) -> X]
  <2>1. ASSUME NEW p \in X \X (1..n) PROVE step[<<p[1], seq[p[2]]>>] \in X
    <3>1. <<p[1], seq[p[2]]>> \in X \X E
      BY <1>1
    <3> QED BY <3>1 DEF IsStep
  <2> QED BY <2>1
<1>3. \A x \in X, i \in 1..n : at[<<x, i>>] = step[<<x, seq[i]>>]
  OBVIOUS
<1> HIDE DEF at, n
<1>4. PICK f : Solves(f, n, X, base, at)
  BY <1>1, <1>2, FoldIsDefined DEF IsStep
<1>5. /\ f \in [SUBSET (1..n) -> X]
       /\ f = [s \in SUBSET (1..n) |->
                  IF s = {} THEN base ELSE at[<<f[s \ {Max(s)}], Max(s)>>]]
  BY <1>4 DEF Solves
<1> DEFINE g == [s \in SUBSET (1..n) |->
                   IF s = {} THEN base ELSE step[<<f[s \ {Max(s)}], seq[Max(s)]>>]]
<1>6. ASSUME NEW s \in SUBSET (1..n) PROVE f[s] = g[s]
  <2>1. CASE s = {}
    <3>1. f[s] = base
      BY <1>5, <2>1
    <3>2. g[s] = base
      BY <2>1
    <3> QED BY <3>1, <3>2
  <2>2. CASE s # {}
    <3>1. Max(s) \in 1..n /\ s \ {Max(s)} \in SUBSET (1..n)
      BY <1>1, <2>2, TopOfPositions
    <3>2. f[s \ {Max(s)}] \in X
      BY <1>5, <3>1
    <3>3. f[s] = at[<<f[s \ {Max(s)}], Max(s)>>]
      BY <1>5, <2>2
    <3>4. g[s] = step[<<f[s \ {Max(s)}], seq[Max(s)]>>]
      BY <2>2
    <3> HIDE DEF g
    <3> QED BY <1>3, <3>1, <3>2, <3>3, <3>4
  <2> QED BY <2>1, <2>2
<1>7. f = g
  <2>1. DOMAIN g = SUBSET (1..n) /\ g = [s \in SUBSET (1..n) |-> g[s]]
    OBVIOUS
  <2>2. f = [s \in SUBSET (1..n) |-> f[s]]
    BY <1>5
  <2> HIDE DEF g
  <2> QED BY <1>6, <2>1, <2>2
<1> QED
  BY <1>5, <1>7 DEF IsFold, n

\* v is what the positions 1, 2, ... up to each one yield.
IsTrace(v, X, base, step, seq) ==
  /\ v \in [0..Len(seq) -> X]
  /\ v[0] = base
  /\ \A i \in 1..Len(seq) : v[i] = step[<<v[i - 1], seq[i]>>]
  /\ Fold(base, step, seq) = v[Len(seq)]

\* v takes the steps of step while its values are in X.
Follows(v, X, E, base, step, n, e) ==
  /\ IsStep(step, base, X, E) /\ n \in Nat
  /\ \A i \in 1..n : e[i] \in E
  /\ v[0] = base
  /\ \A i \in 1..n : v[i - 1] \in X => v[i] = step[<<v[i - 1], e[i]>>]

\* What a fold goes through on its way.
LEMMA FoldTrace ==
  ASSUME NEW X, NEW E, NEW base, NEW step, IsStep(step, base, X, E), NEW seq \in Seq(E)
  PROVE  \E v : IsTrace(v, X, base, step, seq)
<1> DEFINE n == Len(seq)
<1> DEFINE G == CHOOSE f : IsFold(f, base, step, seq)
<1>1. n \in Nat /\ \A i \in 1..n : seq[i] \in E
  OBVIOUS
<1>2. IsFold(G, base, step, seq)
  <2>1. \E f : IsFold(f, base, step, seq)
    BY FoldExists
  <2> QED BY <2>1, Zenon
<1>3. Fold(base, step, seq) = G[1..n]
  BY DEF Fold
<1> HIDE DEF G
<1>4. \A s \in SUBSET (1..n) : G[s] = IF s = {} THEN base ELSE step[<<G[s \ {Max(s)}], seq[Max(s)]>>]
  BY <1>2 DEF IsFold
<1> DEFINE v == [i \in 0..n |-> G[1..i]]
<1> HIDE DEF n
<1>5. v[0] = base
  <2>1. 1..0 = {} /\ {} \in SUBSET (1..n) /\ 0 \in 0..n
    BY <1>1
  <2>2. G[{}] = base
    BY <1>4, <2>1
  <2>3. v[0] = G[1..0]
    BY <2>1
  <2> QED BY <2>1, <2>2, <2>3
<1>6. ASSUME NEW i \in 1..n PROVE v[i] = step[<<v[i - 1], seq[i]>>]
  <2>1. i \in Nat /\ i # 0 /\ 1..i \in SUBSET (1..n) /\ i \in 0..n /\ i - 1 \in 0..n
    BY <1>1
  <2>2. Max(1..i) = i /\ (1..i) \ {Max(1..i)} = 1..(i - 1) /\ 1..i # {}
    BY <2>1, TopOfSegment
  <2>3. G[1..i] = step[<<G[(1..i) \ {Max(1..i)}], seq[Max(1..i)]>>]
    BY <1>4, <2>1, <2>2
  <2>4. v[i] = G[1..i] /\ v[i - 1] = G[1..(i - 1)]
    BY <2>1
  <2> HIDE DEF v
  <2> QED BY <2>2, <2>3, <2>4
<1>7. \A i \in 0..n : v[i] \in X
  <2> DEFINE S == {i \in 0..n : v[i] \in X}
  <2> HIDE DEF v
  <2>1. 0 \in S
    BY <1>1, <1>5 DEF IsStep
  <2>2. ASSUME NEW i \in 0..(n - 1), i \in S PROVE i + 1 \in S
    <3>1. i + 1 \in 1..n /\ i + 1 \in 0..n /\ (i + 1) - 1 = i
      BY <1>1
    <3>2. v[i + 1] = step[<<v[i], seq[i + 1]>>]
      BY <1>6, <3>1
    <3>3. <<v[i], seq[i + 1]>> \in X \X E
      BY <1>1, <2>2, <3>1
    <3>4. v[i + 1] \in X
      BY <3>2, <3>3 DEF IsStep
    <3> QED BY <3>1, <3>4
  <2>3. 0..n \subseteq S
    <3> HIDE DEF S
    <3> QED BY <1>1, <2>1, <2>2, Upwards
  <2> QED BY <2>3
<1>8. v \in [0..n -> X]
  <2>1. v = [i \in 0..n |-> v[i]]
    OBVIOUS
  <2> HIDE DEF v
  <2> QED BY <1>7, <2>1
<1>9. Fold(base, step, seq) = v[n]
  <2>1. n \in 0..n
    BY <1>1
  <2> QED BY <1>3, <2>1
<1> HIDE DEF v
<1> QED
  BY <1>5, <1>6, <1>8, <1>9 DEF n, IsTrace

\* Two computations that take the same steps reach the same result.
LEMMA TracesAgree ==
  ASSUME NEW X, NEW E, NEW base, NEW step, NEW n, NEW e, NEW v, NEW w,
         Follows(v, X, E, base, step, n, e), Follows(w, X, E, base, step, n, e)
  PROVE  v[n] = w[n] /\ v[n] \in X
<1> DEFINE S == {i \in 0..n : v[i] = w[i] /\ v[i] \in X}
<1>1. n \in Nat
  BY DEF Follows
<1>2. 0 \in S
  BY <1>1 DEF Follows, IsStep
<1>3. ASSUME NEW i \in 0..(n - 1), i \in S PROVE i + 1 \in S
  <2>1. i + 1 \in 1..n /\ i + 1 \in 0..n /\ (i + 1) - 1 = i
    BY <1>1
  <2>2. v[i] \in X /\ v[i] = w[i]
    BY <1>3
  <2>3. v[i + 1] = step[<<v[i], e[i + 1]>>] /\ w[i + 1] = step[<<w[i], e[i + 1]>>]
    BY <2>1, <2>2 DEF Follows
  <2>4. <<v[i], e[i + 1]>> \in X \X E
    BY <2>1, <2>2 DEF Follows
  <2>5. v[i + 1] = w[i + 1] /\ v[i + 1] \in X
    BY <2>2, <2>3, <2>4 DEF Follows, IsStep
  <2> QED BY <2>1, <2>5
<1>4. 0..n \subseteq S
  <2> HIDE DEF S
  <2> QED BY <1>1, <1>2, <1>3, Upwards
<1>5. n \in 0..n
  BY <1>1
<1> QED
  BY <1>4, <1>5

\* The fold of no element.
LEMMA FoldOfNothing ==
  ASSUME NEW X, NEW E, NEW base, NEW step, IsStep(step, base, X, E)
  PROVE  Fold(base, step, <<>>) = base
<1>1. <<>> \in Seq(E) /\ Len(<<>>) = 0
  OBVIOUS
<1>2. PICK v : IsTrace(v, X, base, step, <<>>)
  BY <1>1, FoldTrace
<1> QED
  BY <1>1, <1>2 DEF IsTrace

\* The fold of one element more is one step more.
LEMMA FoldOfAppend ==
  ASSUME NEW X, NEW E, NEW base, NEW step, IsStep(step, base, X, E), NEW seq \in Seq(E), NEW e \in E
  PROVE  /\ Fold(base, step, seq) \in X
         /\ Fold(base, step, Append(seq, e)) = step[<<Fold(base, step, seq), e>>]
<1> DEFINE more == Append(seq, e)
<1> DEFINE n == Len(seq)
<1>1. /\ more \in Seq(E) /\ n \in Nat /\ Len(more) = n + 1 /\ more[n + 1] = e
      /\ \A i \in 1..n : more[i] = seq[i] /\ seq[i] \in E
  BY AppendProperties
<1>2. PICK v : IsTrace(v, X, base, step, seq)
  BY FoldTrace
<1> HIDE DEF more, n
<1>3. PICK w : IsTrace(w, X, base, step, more)
  BY <1>1, FoldTrace
<1>4. Follows(v, X, E, base, step, n, seq)
  BY <1>1, <1>2 DEF IsTrace, Follows, n
<1>5. Follows(w, X, E, base, step, n, seq)
  <2>1. w[0] = base /\ \A i \in 1..n : w[i] = step[<<w[i - 1], seq[i]>>]
    BY <1>1, <1>3 DEF IsTrace
  <2> QED BY <1>1, <2>1 DEF Follows
<1>6. v[n] = w[n] /\ v[n] \in X
  BY <1>4, <1>5, TracesAgree
<1>7. w[n + 1] = step[<<w[n], e>>]
  <2>1. n \in Nat
    BY <1>1
  <2>2. n + 1 \in 1..(n + 1) /\ (n + 1) - 1 = n
    BY <2>1
  <2> QED BY <1>1, <1>3, <2>2 DEF IsTrace
<1>8. Fold(base, step, seq) = v[n]
  BY <1>2 DEF IsTrace, n
<1>9. Fold(base, step, more) = w[n + 1]
  BY <1>1, <1>3 DEF IsTrace
<1> QED
  BY <1>6, <1>7, <1>8, <1>9 DEF more

\* Whatever takes the same steps reaches the same result.
LEMMA FollowerIsFold ==
  ASSUME NEW X, NEW E, NEW base, NEW step, NEW seq \in Seq(E),
         NEW w, Follows(w, X, E, base, step, Len(seq), seq)
  PROVE  w[Len(seq)] = Fold(base, step, seq)
<1>1. IsStep(step, base, X, E)
  BY DEF Follows
<1>2. PICK v : IsTrace(v, X, base, step, seq)
  BY <1>1, FoldTrace
<1>3. Follows(v, X, E, base, step, Len(seq), seq)
  BY <1>2 DEF IsTrace, Follows
<1>4. v[Len(seq)] = w[Len(seq)]
  BY <1>3, TracesAgree
<1> QED
  BY <1>2, <1>4 DEF IsTrace

\* The function G of a fold written with an operator takes the steps of step
\* wherever it has a value of X to start from.
Takes(G, X, E, base, step, seq) ==
  /\ IsStep(step, base, X, E) /\ seq \in Seq(E)
  /\ G[{}] = base
  /\ \A s \in SUBSET (1..Len(seq)) :
       s # {} /\ G[s \ {Max(s)}] \in X => G[s] = step[<<G[s \ {Max(s)}], seq[Max(s)]>>]

\* So a definition by FoldLeft, which is one of these, is the fold.
LEMMA FoldIs ==
  ASSUME NEW X, NEW E, NEW base, NEW step, NEW seq, NEW G, Takes(G, X, E, base, step, seq)
  PROVE  G[1..Len(seq)] = Fold(base, step, seq)
<1> DEFINE n == Len(seq)
<1> DEFINE w == [i \in 0..n |-> G[1..i]]
<1>1. /\ IsStep(step, base, X, E) /\ seq \in Seq(E)
      /\ G[{}] = base
      /\ \A s \in SUBSET (1..n) :
           s # {} /\ G[s \ {Max(s)}] \in X => G[s] = step[<<G[s \ {Max(s)}], seq[Max(s)]>>]
  BY DEF Takes
<1>2. n \in Nat /\ \A i \in 1..n : seq[i] \in E
  BY <1>1
<1> HIDE DEF n
<1>3. w[0] = base
  <2>1. 1..0 = {} /\ 0 \in 0..n
    BY <1>2
  <2>2. w[0] = G[1..0]
    BY <2>1
  <2> QED BY <1>1, <2>1, <2>2
<1>4. ASSUME NEW i \in 1..n, w[i - 1] \in X PROVE w[i] = step[<<w[i - 1], seq[i]>>]
  <2>1. i \in Nat /\ i # 0 /\ 1..i \in SUBSET (1..n) /\ i \in 0..n /\ i - 1 \in 0..n
    BY <1>2
  <2>2. Max(1..i) = i /\ (1..i) \ {Max(1..i)} = 1..(i - 1) /\ 1..i # {}
    BY <2>1, TopOfSegment
  <2>3. w[i] = G[1..i] /\ w[i - 1] = G[1..(i - 1)]
    BY <2>1
  <2> HIDE DEF w
  <2>4. G[1..i] = step[<<G[(1..i) \ {Max(1..i)}], seq[Max(1..i)]>>]
    BY <1>1, <1>4, <2>1, <2>2, <2>3
  <2> QED BY <2>2, <2>3, <2>4
<1>5. w[n] = G[1..n]
  <2>1. n \in 0..n
    BY <1>2
  <2> QED BY <2>1
<1> HIDE DEF w
<1>6. Follows(w, X, E, base, step, n, seq)
  BY <1>1, <1>2, <1>3, <1>4 DEF Follows
<1> QED
  BY <1>1, <1>5, <1>6, FollowerIsFold DEF n

-----------------------------------------------------------------------------
(* Numbers as text.                                                        *)

\* DigitValue is below Radix, and each digit is the only one with its value.
LEMMA DigitValueBounds ==
  /\ \A ch \in Digits : DigitValue(ch) \in 0..(Radix - 1) /\ DigitChars[DigitValue(ch) + 1] = ch
  /\ \A d \in 0..(Radix - 1) : DigitChars[d + 1] \in Digits /\ DigitValue(DigitChars[d + 1]) = d
<1>1. Radix \in Nat /\ Radix >= 2
  BY CodecAssumption
<1>2. ASSUME NEW ch \in Digits
      PROVE  DigitValue(ch) \in 0..(Radix - 1) /\ DigitChars[DigitValue(ch) + 1] = ch
  <2>1. \E i \in 1..Radix : DigitChars[i] = ch
    BY DEF Digits
  <2> DEFINE c == CHOOSE i \in 1..Radix : DigitChars[i] = ch
  <2>2. c \in 1..Radix /\ DigitChars[c] = ch
    BY <2>1
  <2>3. DigitValue(ch) = c - 1
    BY DEF DigitValue
  <2> HIDE DEF c
  <2> QED BY <1>1, <2>2, <2>3
<1>3. ASSUME NEW d \in 0..(Radix - 1)
      PROVE  DigitChars[d + 1] \in Digits /\ DigitValue(DigitChars[d + 1]) = d
  <2>1. d + 1 \in 1..Radix
    BY <1>1
  <2>2. DigitChars[d + 1] \in Digits
    BY <2>1, DigitFacts
  <2> DEFINE v == DigitValue(DigitChars[d + 1])
  <2>3. v \in 0..(Radix - 1) /\ DigitChars[v + 1] = DigitChars[d + 1]
    BY <1>2, <2>2
  <2> HIDE DEF v
  <2>4. v + 1 \in 1..Radix
    BY <1>1, <2>3
  <2>5. v + 1 = d + 1
    BY <2>1, <2>3, <2>4, DigitFacts
  <2>6. v = d
    BY <2>3, <2>5
  <2> QED BY <2>2, <2>6 DEF v
<1> QED
  BY <1>2, <1>3

NumberStep == [p \in Nat \X Digits |-> Radix * p[1] + DigitValue(p[2])]

\* NumberOf is a fold over digits.
LEMMA NumberStepType == IsStep(NumberStep, 0, Nat, Digits)
<1> SUFFICES ASSUME NEW p \in Nat \X Digits
             PROVE  Radix * p[1] + DigitValue(p[2]) \in Nat
  BY DEF NumberStep, IsStep
<1>1. DigitValue(p[2]) \in Nat
  BY DigitValueBounds, CodecAssumption
<1>2. Radix \in Nat /\ p[1] \in Nat
  BY CodecAssumption
<1>3. Radix * p[1] \in Nat
  BY <1>2
<1> QED
  BY <1>1, <1>3

LEMMA NumberOfIsFold ==
  ASSUME NEW text \in Seq(Digits)
  PROVE  NumberOf(text) = Fold(0, NumberStep, text)
<1> DEFINE n == Len(text)
<1> DEFINE Reads(g) == g = [s \in SUBSET (1..n) |->
                              IF s = {} THEN 0
                              ELSE Radix * g[s \ {Max(s)}] + DigitValue(text[Max(s)])]
<1> DEFINE G == CHOOSE g : Reads(g)
<1>1. DOMAIN text = 1..n /\ n \in Nat
  OBVIOUS
<1>2. NumberOf(text) = G[1..n]
  <2>1. NumberOf(text) = (CHOOSE g : g = [s \in SUBSET (DOMAIN text) |->
                            IF s = {} THEN 0
                            ELSE Radix * g[s \ {Max(s)}] + DigitValue(text[Max(s)])])[DOMAIN text]
    BY Zenon DEF NumberOf, FoldLeft, MapThenFoldSet
  <2> QED BY <1>1, <2>1, Zenon
<1>3. ASSUME NEW x \in Nat, NEW i \in 1..n
      PROVE  NumberStep[<<x, text[i]>>] = Radix * x + DigitValue(text[i])
  <2>1. text[i] \in Digits
    OBVIOUS
  <2> QED BY <2>1 DEF NumberStep
<1>4. PICK f \in [SUBSET (1..n) -> Nat] : IsFold(f, 0, NumberStep, text)
  BY NumberStepType, FoldExists
<1> HIDE DEF n
<1>5. Reads(f)
  <2> DEFINE g == [s \in SUBSET (1..n) |->
                     IF s = {} THEN 0 ELSE Radix * f[s \ {Max(s)}] + DigitValue(text[Max(s)])]
  <2>1. ASSUME NEW s \in SUBSET (1..n) PROVE f[s] = g[s]
    <3>1. f[s] = IF s = {} THEN 0 ELSE NumberStep[<<f[s \ {Max(s)}], text[Max(s)]>>]
      BY <1>4 DEF IsFold, n
    <3>2. g[s] = IF s = {} THEN 0 ELSE Radix * f[s \ {Max(s)}] + DigitValue(text[Max(s)])
      OBVIOUS
    <3>3. CASE s # {}
      <4>1. Max(s) \in 1..n /\ s \ {Max(s)} \in SUBSET (1..n)
        BY <1>1, <3>3, TopOfPositions
      <4>2. f[s \ {Max(s)}] \in Nat
        BY <4>1
      <4> HIDE DEF g
      <4> QED BY <1>3, <3>1, <3>2, <4>1, <4>2
    <3> HIDE DEF g
    <3> QED BY <3>1, <3>2, <3>3
  <2>2. f = g
    <3>1. g = [s \in SUBSET (1..n) |-> g[s]] /\ f = [s \in SUBSET (1..n) |-> f[s]]
      OBVIOUS
    <3> HIDE DEF g
    <3> QED BY <2>1, <3>1
  <2> QED BY <2>2
<1>6. Reads(G)
  <2> HIDE DEF Reads
  <2> QED BY <1>5, Zenon
<1> HIDE DEF G
<1>7. G[{}] = 0
  BY <1>6
<1>8. ASSUME NEW s \in SUBSET (1..n), s # {}, G[s \ {Max(s)}] \in Nat
      PROVE  G[s] = NumberStep[<<G[s \ {Max(s)}], text[Max(s)]>>]
  <2>1. Max(s) \in 1..n
    BY <1>1, <1>8, TopOfPositions
  <2>2. G[s] = Radix * G[s \ {Max(s)}] + DigitValue(text[Max(s)])
    BY <1>6, <1>8
  <2> HIDE DEF Reads
  <2> QED BY <1>3, <1>8, <2>1, <2>2
<1>9. G[1..n] = Fold(0, NumberStep, text)
  <2>1. Takes(G, Nat, Digits, 0, NumberStep, text)
    <3> HIDE DEF Reads
    <3> QED BY <1>7, <1>8, NumberStepType DEF Takes, n
  <2> QED BY <2>1, FoldIs DEF n
<1> QED
  BY <1>2, <1>9

\* One digit more: Radix times the number before it, and the digit's value.
LEMMA NumberOfAppend ==
  ASSUME NEW text \in Seq(Digits), NEW ch \in Digits
  PROVE  /\ NumberOf(<<>>) = 0
         /\ NumberOf(text) \in Nat
         /\ NumberOf(Append(text, ch)) = Radix * NumberOf(text) + DigitValue(ch)
<1>1. NumberOf(<<>>) = 0
  <2>1. Fold(0, NumberStep, <<>>) = 0
    BY NumberStepType, FoldOfNothing
  <2>2. <<>> \in Seq(Digits)
    OBVIOUS
  <2> QED BY <2>1, <2>2, NumberOfIsFold
<1>2. NumberOf(text) = Fold(0, NumberStep, text) /\ Fold(0, NumberStep, text) \in Nat
  BY NumberOfIsFold, NumberStepType, FoldOfAppend
<1>3. NumberOf(Append(text, ch)) = NumberStep[<<NumberOf(text), ch>>]
  <2>1. Append(text, ch) \in Seq(Digits)
    OBVIOUS
  <2>2. NumberOf(Append(text, ch)) = Fold(0, NumberStep, Append(text, ch))
    BY <2>1, NumberOfIsFold
  <2>3. Fold(0, NumberStep, Append(text, ch)) = NumberStep[<<Fold(0, NumberStep, text), ch>>]
    BY NumberStepType, FoldOfAppend
  <2> QED BY <1>2, <2>2, <2>3
<1>4. NumberStep[<<NumberOf(text), ch>>] = Radix * NumberOf(text) + DigitValue(ch)
  BY <1>2 DEF NumberStep
<1> QED
  BY <1>1, <1>2, <1>3, <1>4

-----------------------------------------------------------------------------
(* Lines of a text.                                                        *)

LineLists == {ls \in Seq(Texts) : ls # <<>>}

LinesStep ==
  [p \in LineLists \X Chars |->
     IF p[2] = "LF" THEN Append(p[1], <<>>)
                    ELSE [p[1] EXCEPT ![Len(p[1])] = Append(@, p[2])]]

\* Lines is a fold over characters.
LEMMA LinesStepType == IsStep(LinesStep, << <<>> >>, LineLists, Chars)
<1>1. << <<>> >> \in LineLists
  BY DEF LineLists, Texts
<1>2. ASSUME NEW ls \in LineLists, NEW ch \in Chars
      PROVE  (IF ch = "LF" THEN Append(ls, <<>>)
                           ELSE [ls EXCEPT ![Len(ls)] = Append(@, ch)]) \in LineLists
  <2>1. ls \in Seq(Texts) /\ ls # <<>> /\ <<>> \in Texts
    BY DEF LineLists, Texts
  <2>2. Append(ls, <<>>) \in LineLists
    BY <2>1, AppendProperties DEF LineLists
  <2>3. Len(ls) \in 1..Len(ls) /\ ls[Len(ls)] \in Texts
    BY <2>1, EmptySeq
  <2>4. Append(ls[Len(ls)], ch) \in Texts
    BY <2>3 DEF Texts
  <2> DEFINE new == [ls EXCEPT ![Len(ls)] = Append(@, ch)]
  <2>5. new = [ls EXCEPT ![Len(ls)] = Append(ls[Len(ls)], ch)]
    BY <2>3
  <2>6. new \in Seq(Texts) /\ Len(new) = Len(ls)
    BY <2>1, <2>3, <2>4, <2>5, ExceptSeq
  <2> HIDE DEF new
  <2>7. new \in LineLists
    BY <2>1, <2>3, <2>6, EmptySeq DEF LineLists
  <2> QED BY <2>2, <2>7 DEF new
<1> QED
  BY <1>1, <1>2 DEF IsStep, LinesStep

LEMMA LinesIsFold ==
  ASSUME NEW text \in Texts
  PROVE  Lines(text) = Fold(<< <<>> >>, LinesStep, text)
<1> DEFINE n == Len(text)
<1> DEFINE X == LineLists
<1> DEFINE Op(ls, ch) == IF ch = "LF" THEN Append(ls, <<>>)
                                      ELSE [ls EXCEPT ![Len(ls)] = Append(@, ch)]
<1> DEFINE Reads(g) == g = [s \in SUBSET (1..n) |->
                              IF s = {} THEN << <<>> >>
                              ELSE Op(g[s \ {Max(s)}], text[Max(s)])]
<1> DEFINE G == CHOOSE g : Reads(g)
<1>1. DOMAIN text = 1..n /\ n \in Nat /\ text \in Seq(Chars)
  BY DEF Texts
<1>2. Lines(text) = G[1..n]
  <2>1. Lines(text) = (CHOOSE g : g = [s \in SUBSET (DOMAIN text) |->
                            IF s = {} THEN << <<>> >>
                            ELSE Op(g[s \ {Max(s)}], text[Max(s)])])[DOMAIN text]
    BY Zenon DEF Lines, FoldLeft, MapThenFoldSet
  <2> QED BY <1>1, <2>1, Zenon
<1>3. ASSUME NEW x \in X, NEW i \in 1..n
      PROVE  LinesStep[<<x, text[i]>>] = Op(x, text[i])
  <2>1. text[i] \in Chars
    BY <1>1
  <2> QED BY <2>1 DEF LinesStep
<1>4. PICK f \in [SUBSET (1..n) -> X] : IsFold(f, << <<>> >>, LinesStep, text)
  BY <1>1, LinesStepType, FoldExists
<1> HIDE DEF n, Op, X
<1>5. Reads(f)
  <2> DEFINE g == [s \in SUBSET (1..n) |->
                     IF s = {} THEN << <<>> >> ELSE Op(f[s \ {Max(s)}], text[Max(s)])]
  <2>1. ASSUME NEW s \in SUBSET (1..n) PROVE f[s] = g[s]
    <3>1. f[s] = IF s = {} THEN << <<>> >> ELSE LinesStep[<<f[s \ {Max(s)}], text[Max(s)]>>]
      BY <1>4 DEF IsFold, n
    <3>2. g[s] = IF s = {} THEN << <<>> >> ELSE Op(f[s \ {Max(s)}], text[Max(s)])
      OBVIOUS
    <3>3. CASE s # {}
      <4>1. Max(s) \in 1..n /\ s \ {Max(s)} \in SUBSET (1..n)
        BY <1>1, <3>3, TopOfPositions
      <4>2. f[s \ {Max(s)}] \in X
        BY <4>1
      <4> HIDE DEF g
      <4> QED BY <1>3, <3>1, <3>2, <4>1, <4>2
    <3> HIDE DEF g
    <3> QED BY <3>1, <3>2, <3>3
  <2>2. f = g
    <3>1. g = [s \in SUBSET (1..n) |-> g[s]] /\ f = [s \in SUBSET (1..n) |-> f[s]]
      OBVIOUS
    <3> HIDE DEF g
    <3> QED BY <2>1, <3>1
  <2> QED BY <2>2
<1>6. Reads(G)
  <2> HIDE DEF Reads
  <2> QED BY <1>5, Zenon
<1> HIDE DEF G
<1>7. G[{}] = << <<>> >>
  BY <1>6
<1>8. ASSUME NEW s \in SUBSET (1..n), s # {}, G[s \ {Max(s)}] \in X
      PROVE  G[s] = LinesStep[<<G[s \ {Max(s)}], text[Max(s)]>>]
  <2>1. Max(s) \in 1..n
    BY <1>1, <1>8, TopOfPositions
  <2>2. G[s] = Op(G[s \ {Max(s)}], text[Max(s)])
    BY <1>6, <1>8
  <2> HIDE DEF Reads
  <2> QED BY <1>3, <1>8, <2>1, <2>2
<1>9. G[1..n] = Fold(<< <<>> >>, LinesStep, text)
  <2>1. Takes(G, X, Chars, << <<>> >>, LinesStep, text)
    <3> HIDE DEF Reads
    <3> QED BY <1>1, <1>7, <1>8, LinesStepType DEF Takes, n, X
  <2> QED BY <2>1, FoldIs DEF n
<1> QED
  BY <1>2, <1>9

\* One character more: a newline begins a line, another continues the last one.
LEMMA LinesOfAppend ==
  ASSUME NEW text \in Texts, NEW ch \in Chars
  PROVE  /\ Lines(<<>>) = << <<>> >>
         /\ Lines(text) \in LineLists
         /\ Lines(Append(text, ch)) =
              IF ch = "LF" THEN Append(Lines(text), <<>>)
              ELSE [Lines(text) EXCEPT ![Len(Lines(text))] = Append(@, ch)]
<1>1. Lines(<<>>) = << <<>> >>
  <2>1. Fold(<< <<>> >>, LinesStep, <<>>) = << <<>> >>
    BY LinesStepType, FoldOfNothing
  <2>2. <<>> \in Texts
    BY DEF Texts
  <2> QED BY <2>1, <2>2, LinesIsFold
<1>2. /\ Lines(text) = Fold(<< <<>> >>, LinesStep, text)
      /\ Fold(<< <<>> >>, LinesStep, text) \in LineLists
  BY LinesIsFold, LinesStepType, FoldOfAppend DEF Texts
<1>3. Lines(Append(text, ch)) = LinesStep[<<Lines(text), ch>>]
  <2>1. Append(text, ch) \in Texts
    BY DEF Texts
  <2>2. Lines(Append(text, ch)) = Fold(<< <<>> >>, LinesStep, Append(text, ch))
    BY <2>1, LinesIsFold
  <2>3. Fold(<< <<>> >>, LinesStep, Append(text, ch)) = LinesStep[<<Fold(<< <<>> >>, LinesStep, text), ch>>]
    BY LinesStepType, FoldOfAppend DEF Texts
  <2> QED BY <1>2, <2>2, <2>3
<1>4. LinesStep[<<Lines(text), ch>>] =
        IF ch = "LF" THEN Append(Lines(text), <<>>)
        ELSE [Lines(text) EXCEPT ![Len(Lines(text))] = Append(@, ch)]
  BY <1>2 DEF LinesStep
<1> QED
  BY <1>1, <1>2, <1>3, <1>4

-----------------------------------------------------------------------------
(* The loop of decode_file_header.                                         *)

Keys == {<<"name">>, <<"size">>, <<"hash">>}

Got == [header : Header, seen : SUBSET Keys, bad : BOOLEAN]

\* Where a line is split: at its first "=", if it has one.
LEMMA FirstEquals ==
  ASSUME NEW line \in Texts
  PROVE  LET eq == SelectInSeq(line, LAMBDA ch : ch = "=")
         IN  \/ eq = 0 /\ \A i \in 1..Len(line) : line[i] # "="
             \/ /\ eq \in 1..Len(line) /\ line[eq] = "="
                /\ \A i \in 1..(eq - 1) : line[i] # "="
<1> DEFINE I == {i \in 1..Len(line) : line[i] = "="}
<1> DEFINE eq == IF I # {} THEN Min(I) ELSE 0
<1>1. SelectInSeq(line, LAMBDA ch : ch = "=") = eq
  BY DEF SelectInSeq
<1>2. Len(line) \in Nat
  BY DEF Texts
<1>3. CASE I = {}
  BY <1>1, <1>3
<1>4. CASE I # {}
  <2>1. I \subseteq Nat
    BY <1>2
  <2>2. Min(I) \in I /\ \A y \in I : Min(I) <= y
    <3> HIDE DEF I
    <3> QED BY <1>4, <2>1, MinOfSet
  <2> DEFINE m == Min(I)
  <2>3. eq = m
    BY <1>4
  <2>4. m \in 1..Len(line) /\ line[m] = "=" /\ \A y \in 1..Len(line) : line[y] = "=" => m <= y
    BY <2>2
  <2> HIDE DEF m, eq
  <2>5. \A i \in 1..(m - 1) : line[i] # "="
    BY <1>2, <2>4
  <2> QED BY <1>1, <2>3, <2>4, <2>5
<1> QED
  BY <1>3, <1>4

\* A part of a text is text.
LEMMA PartIsText ==
  ASSUME NEW text \in Texts, NEW i \in 1..(Len(text) + 1), NEW j \in 0..Len(text)
  PROVE  SubSeq(text, i, j) \in Texts
<1>1. Len(text) \in Nat /\ \A k \in 1..Len(text) : text[k] \in Chars
  BY DEF Texts
<1>2. \A k \in i..j : text[k] \in Chars
  BY <1>1
<1> QED
  BY <1>1, <1>2, SubSeqProperties DEF Texts

\* to_lower changes "A" and nothing else.
LEMMA ToLowerIsText ==
  ASSUME NEW s \in Texts
  PROVE  /\ to_lower(s) \in Texts
         /\ Len(to_lower(s)) = Len(s)
         /\ \A i \in 1..Len(s) : to_lower(s)[i] = IF s[i] = "A" THEN "a" ELSE s[i]
<1> DEFINE low == [i \in 1..Len(s) |-> IF s[i] = "A" THEN "a" ELSE s[i]]
<1>1. Len(s) \in Nat /\ \A i \in 1..Len(s) : s[i] \in Chars
  BY DEF Texts
<1>2. "a" \in Chars
  BY CharFacts
<1>3. low \in [1..Len(s) -> Chars]
  BY <1>1, <1>2
<1>4. \A i \in 1..Len(s) : low[i] = IF s[i] = "A" THEN "a" ELSE s[i]
  OBVIOUS
<1>5. to_lower(s) = low
  BY DEF to_lower
<1> HIDE DEF low
<1> QED
  BY <1>1, <1>3, <1>4, <1>5, FunctionIsSeq DEF Texts

\* Text made of digits is a sequence of digits.
LEMMA DigitTextsAreDigits ==
  ASSUME NEW text \in Texts, Range(text) \subseteq Digits
  PROVE  text \in Seq(Digits)
BY SeqOfRange, SeqMonotonic DEF Texts

\* The loop of decode_file_header keeps the types of what it knows.
LEMMA ReadFieldType ==
  ASSUME NEW got \in Got, NEW key \in Texts, NEW value \in Texts
  PROVE  ReadField(got, key, value) \in Got
<1>1. got.header \in Header /\ got.seen \subseteq Keys
  BY DEF Got
<1>2. sanitize_file_name(value) \in Texts
  BY SanitizedIsSafe DEF SafeName
<1>3. ParsesFully(value) => NumberOf(value) \in Nat
  <2> SUFFICES ASSUME ParsesFully(value) PROVE NumberOf(value) \in Nat
    OBVIOUS
  <2>1. value \in Seq(Digits)
    BY DigitTextsAreDigits DEF ParsesFully
  <2>2. "0" \in Digits
    <3>1. 1 \in 1..Radix
      BY CodecAssumption
    <3> QED BY <3>1, DigitFacts DEF DigitChars
  <2> QED BY <2>1, <2>2, NumberOfAppend
<1>4. to_lower(value) \in Texts
  BY ToLowerIsText
<1>5. Bad(got) \in Got
  BY DEF Got, Bad
<1>6. [got EXCEPT !.header.name = sanitize_file_name(value), !.seen = @ \cup {<<"name">>}] \in Got
  BY <1>1, <1>2 DEF Got, Header, Keys
<1>7. ParsesFully(value) =>
        [got EXCEPT !.header.size = NumberOf(value), !.seen = @ \cup {<<"size">>}] \in Got
  BY <1>1, <1>3 DEF Got, Header, Keys
<1>8. [got EXCEPT !.header.sha256_hex = to_lower(value), !.seen = @ \cup {<<"hash">>}] \in Got
  BY <1>1, <1>4 DEF Got, Header, Keys
<1> QED
  BY <1>5, <1>6, <1>7, <1>8 DEF ReadField, Counts

LEMMA ReadLineType ==
  ASSUME NEW got \in Got, NEW line \in Texts
  PROVE  ReadLine(got, line) \in Got
<1> DEFINE eq == SelectInSeq(line, LAMBDA ch : ch = "=")
<1>1. eq \in 0..Len(line) /\ Len(line) \in Nat
  BY FirstEquals DEF Texts
<1>2. ReadLine(got, line) =
        IF got.bad \/ line = <<>> THEN got
        ELSE IF eq = 0 THEN Bad(got)
        ELSE ReadField(got, SubSeq(line, 1, eq - 1), SubSeq(line, eq + 1, Len(line)))
  BY DEF ReadLine
<1> HIDE DEF eq
<1>3. Bad(got) \in Got
  BY DEF Got, Bad
<1>4. CASE eq # 0
  <2>1. SubSeq(line, 1, eq - 1) \in Texts
    BY <1>1, <1>4, PartIsText
  <2>2. SubSeq(line, eq + 1, Len(line)) \in Texts
    BY <1>1, <1>4, PartIsText
  <2> QED BY <1>2, <1>3, <2>1, <2>2, ReadFieldType
<1> QED
  BY <1>2, <1>3, <1>4

ReadLines(lines) == FoldLeft(ReadLine, NothingRead, lines)

ReadStep == [p \in Got \X Texts |-> ReadLine(p[1], p[2])]

\* Its run over the lines is a fold.
LEMMA ReadStepType == IsStep(ReadStep, NothingRead, Got, Texts)
<1>1. NothingRead \in Got
  BY DEF NothingRead, Got, NoHeader, Header, Texts
<1> QED
  BY <1>1, ReadLineType DEF IsStep, ReadStep

LEMMA ReadLinesIsFold ==
  ASSUME NEW lines \in Seq(Texts)
  PROVE  ReadLines(lines) = Fold(NothingRead, ReadStep, lines)
<1> DEFINE n == Len(lines)
<1> DEFINE Reads(g) == g = [s \in SUBSET (1..n) |->
                              IF s = {} THEN NothingRead
                              ELSE ReadLine(g[s \ {Max(s)}], lines[Max(s)])]
<1> DEFINE G == CHOOSE g : Reads(g)
<1>1. DOMAIN lines = 1..n /\ n \in Nat
  OBVIOUS
<1>2. ReadLines(lines) = G[1..n]
  <2>1. ReadLines(lines) = (CHOOSE g : g = [s \in SUBSET (DOMAIN lines) |->
                            IF s = {} THEN NothingRead
                            ELSE ReadLine(g[s \ {Max(s)}], lines[Max(s)])])[DOMAIN lines]
    BY Zenon DEF ReadLines, FoldLeft, MapThenFoldSet
  <2> QED BY <1>1, <2>1, Zenon
<1>3. ASSUME NEW x \in Got, NEW i \in 1..n
      PROVE  ReadStep[<<x, lines[i]>>] = ReadLine(x, lines[i])
  <2>1. lines[i] \in Texts
    BY <1>1
  <2> QED BY <2>1 DEF ReadStep
<1>4. PICK f \in [SUBSET (1..n) -> Got] : IsFold(f, NothingRead, ReadStep, lines)
  BY <1>1, ReadStepType, FoldExists
<1> HIDE DEF n
<1>5. Reads(f)
  <2> DEFINE g == [s \in SUBSET (1..n) |->
                     IF s = {} THEN NothingRead ELSE ReadLine(f[s \ {Max(s)}], lines[Max(s)])]
  <2>1. ASSUME NEW s \in SUBSET (1..n) PROVE f[s] = g[s]
    <3>1. f[s] = IF s = {} THEN NothingRead ELSE ReadStep[<<f[s \ {Max(s)}], lines[Max(s)]>>]
      BY <1>4 DEF IsFold, n
    <3>2. g[s] = IF s = {} THEN NothingRead ELSE ReadLine(f[s \ {Max(s)}], lines[Max(s)])
      OBVIOUS
    <3>3. CASE s # {}
      <4>1. Max(s) \in 1..n /\ s \ {Max(s)} \in SUBSET (1..n)
        BY <1>1, <3>3, TopOfPositions
      <4>2. f[s \ {Max(s)}] \in Got
        BY <4>1
      <4> HIDE DEF g
      <4> QED BY <1>3, <3>1, <3>2, <4>1, <4>2
    <3> HIDE DEF g
    <3> QED BY <3>1, <3>2, <3>3
  <2>2. f = g
    <3>1. g = [s \in SUBSET (1..n) |-> g[s]] /\ f = [s \in SUBSET (1..n) |-> f[s]]
      OBVIOUS
    <3> HIDE DEF g
    <3> QED BY <2>1, <3>1
  <2> QED BY <2>2
<1>6. Reads(G)
  <2> HIDE DEF Reads
  <2> QED BY <1>5, Zenon
<1> HIDE DEF G
<1>7. G[{}] = NothingRead
  BY <1>6
<1>8. ASSUME NEW s \in SUBSET (1..n), s # {}, G[s \ {Max(s)}] \in Got
      PROVE  G[s] = ReadStep[<<G[s \ {Max(s)}], lines[Max(s)]>>]
  <2>1. Max(s) \in 1..n
    BY <1>1, <1>8, TopOfPositions
  <2>2. G[s] = ReadLine(G[s \ {Max(s)}], lines[Max(s)])
    BY <1>6, <1>8
  <2> HIDE DEF Reads
  <2> QED BY <1>3, <1>8, <2>1, <2>2
<1>9. G[1..n] = Fold(NothingRead, ReadStep, lines)
  <2>1. Takes(G, Got, Texts, NothingRead, ReadStep, lines)
    <3> HIDE DEF Reads
    <3> QED BY <1>1, <1>7, <1>8, ReadStepType DEF Takes, n
  <2> QED BY <2>1, FoldIs DEF n
<1> QED
  BY <1>2, <1>9

\* One line more: one more turn of the loop.
LEMMA ReadLinesOfAppend ==
  ASSUME NEW lines \in Seq(Texts), NEW line \in Texts
  PROVE  /\ ReadLines(<<>>) = NothingRead
         /\ ReadLines(lines) \in Got
         /\ ReadLines(Append(lines, line)) = ReadLine(ReadLines(lines), line)
<1>1. ReadLines(<<>>) = NothingRead
  <2>1. Fold(NothingRead, ReadStep, <<>>) = NothingRead
    BY ReadStepType, FoldOfNothing
  <2>2. <<>> \in Seq(Texts)
    OBVIOUS
  <2> QED BY <2>1, <2>2, ReadLinesIsFold
<1>2. /\ ReadLines(lines) = Fold(NothingRead, ReadStep, lines)
      /\ Fold(NothingRead, ReadStep, lines) \in Got
  BY ReadLinesIsFold, ReadStepType, FoldOfAppend
<1>3. ReadLines(Append(lines, line)) = ReadStep[<<ReadLines(lines), line>>]
  <2>1. Append(lines, line) \in Seq(Texts)
    BY AppendProperties
  <2>2. ReadLines(Append(lines, line)) = Fold(NothingRead, ReadStep, Append(lines, line))
    BY <2>1, ReadLinesIsFold
  <2>3. Fold(NothingRead, ReadStep, Append(lines, line)) = ReadStep[<<Fold(NothingRead, ReadStep, lines), line>>]
    BY ReadStepType, FoldOfAppend
  <2> QED BY <1>2, <2>2, <2>3
<1>4. ReadStep[<<ReadLines(lines), line>>] = ReadLine(ReadLines(lines), line)
  BY <1>2 DEF ReadStep
<1> QED
  BY <1>1, <1>2, <1>3, <1>4

-----------------------------------------------------------------------------
(* Numbers written by operator<<.                                          *)

\* Induction over sequences: what the empty one has, and Append keeps.
LEMMA AppendInduction ==
  ASSUME NEW E, NEW S, <<>> \in S,
         \A s \in Seq(E), e \in E : s \in S => Append(s, e) \in S
  PROVE  Seq(E) \subseteq S
<1> DEFINE T == {n \in Nat : \A s \in Seq(E) : Len(s) = n => s \in S}
<1>1. 0 \in T
  <2> SUFFICES ASSUME NEW s \in Seq(E), Len(s) = 0 PROVE s \in S
    OBVIOUS
  <2>1. s = <<>>
    BY EmptySeq
  <2> QED BY <2>1
<1>2. ASSUME NEW n \in Nat, n \in T PROVE n + 1 \in T
  <2> SUFFICES ASSUME NEW s \in Seq(E), Len(s) = n + 1 PROVE s \in S
    OBVIOUS
  <2>1. s # <<>>
    BY EmptySeq
  <2>2. PICK t \in Seq(E), e \in E : s = Append(t, e)
    BY <2>1, SequenceEmptyOrAppend
  <2>3. Len(t) \in Nat /\ Len(s) = Len(t) + 1
    BY <2>2, AppendProperties
  <2>4. t \in S
    BY <1>2, <2>3
  <2> QED BY <2>2, <2>4
<1>3. Nat \subseteq T
  <2> HIDE DEF T
  <2> QED BY <1>1, <1>2, UpwardsNat
<1>4. \A s \in Seq(E) : Len(s) \in T
  BY <1>3
<1> QED
  BY <1>4

\* Quotient and remainder; the quotient of a number that is not below r is smaller.
LEMMA DivFacts ==
  ASSUME NEW n \in Nat, NEW r \in Nat, r >= 2
  PROVE  /\ n \div r \in Nat /\ n % r \in 0..(r - 1)
         /\ n = r * (n \div r) + (n % r)
         /\ n >= r => n \div r < n
<1>1. n \div r \in Int /\ n % r \in 0..(r - 1) /\ n = r * (n \div r) + (n % r)
  BY Z3
<1> DEFINE q == n \div r
<1> DEFINE m == n % r
<1>2. q \in Int /\ m \in Int /\ 0 <= m /\ m < r /\ n = r * q + m
  BY <1>1
<1> HIDE DEF q, m
<1>3. q >= 0
  <2> SUFFICES ASSUME q <= 0 - 1 PROVE FALSE
    BY <1>2
  <2>1. r * q <= 0 - r
    BY <1>2
  <2> QED BY <1>2, <2>1
<1>4. ASSUME q >= 1 PROVE q < n
  <2>1. r * q >= 2 * q
    BY <1>2, <1>4
  <2> QED BY <1>2, <1>4, <2>1
<1>5. n >= r => q < n
  BY <1>2, <1>3, <1>4
<1> QED
  BY <1>1, <1>2, <1>3, <1>5 DEF q

\* The text of a number from the texts of smaller ones.
TextFrom(f, n) ==
  IF n < Radix THEN << DigitChars[n + 1] >>
               ELSE Append(f[n \div Radix], DigitChars[(n % Radix) + 1])

WritesUpTo(f, m) == f \in [0..m -> Seq(Digits)] /\ \A n \in 0..m : f[n] = TextFrom(f, n)

\* Two functions that write numbers so write the same.
LEMMA WritersAgree ==
  ASSUME NEW f, NEW g, NEW m \in Nat, NEW k \in Nat, WritesUpTo(f, m), WritesUpTo(g, k),
         NEW n \in Nat, n <= m, n <= k
  PROVE  f[n] = g[n]
<1> DEFINE T == {i \in Nat : i <= m /\ i <= k /\ f[i] # g[i]}
<1>1. SUFFICES ASSUME T # {} PROVE FALSE
  OBVIOUS
<1>2. PICK x \in T : \A y \in T : x <= y
  <2>1. T \subseteq Nat
    OBVIOUS
  <2> HIDE DEF T
  <2> QED BY <1>1, <2>1, LeastOfSet
<1>3. x \in Nat /\ x <= m /\ x <= k /\ f[x] # g[x] /\ x \in 0..m /\ x \in 0..k
  OBVIOUS
<1>4. f[x] = TextFrom(f, x) /\ g[x] = TextFrom(g, x)
  BY <1>3 DEF WritesUpTo
<1>5. Radix \in Nat /\ Radix >= 2
  BY CodecAssumption
<1>6. CASE x >= Radix
  <2>1. x \div Radix \in Nat /\ x \div Radix < x
    BY <1>3, <1>5, <1>6, DivFacts
  <2> DEFINE q == x \div Radix
  <2>2. q \in Nat /\ q < x
    BY <2>1
  <2> HIDE DEF q
  <2>3. q \notin T
    <3> HIDE DEF T
    <3> QED BY <1>2, <1>3, <2>2
  <2>4. f[q] = g[q]
    BY <1>3, <2>2, <2>3
  <2> QED BY <1>3, <1>4, <2>4 DEF TextFrom, q
<1>7. CASE x < Radix
  BY <1>3, <1>4, <1>7 DEF TextFrom
<1> QED
  BY <1>3, <1>5, <1>6, <1>7

\* And there is one, up to any number.
LEMMA WriterExists ==
  ASSUME NEW m \in Nat
  PROVE  \E f : WritesUpTo(f, m)
<1> DEFINE S == {i \in Nat : \E f : WritesUpTo(f, i)}
<1>1. Radix \in Nat /\ Radix >= 2
  BY CodecAssumption
<1>2. 0 \in S
  <2> DEFINE f == [i \in 0..0 |-> <<DigitChars[1]>>]
  <2>1. DigitChars[1] \in Digits
    BY <1>1, DigitFacts
  <2>2. f \in [0..0 -> Seq(Digits)]
    BY <2>1
  <2>3. \A n \in 0..0 : f[n] = TextFrom(f, n)
    BY <1>1 DEF TextFrom
  <2>4. WritesUpTo(f, 0)
    <3> HIDE DEF f
    <3> QED BY <2>2, <2>3 DEF WritesUpTo
  <2> QED BY <2>4
<1>3. ASSUME NEW i \in Nat, i \in S PROVE i + 1 \in S
  <2>1. PICK f : WritesUpTo(f, i)
    BY <1>3
  <2>2. f \in [0..i -> Seq(Digits)] /\ \A n \in 0..i : f[n] = TextFrom(f, n)
    BY <2>1 DEF WritesUpTo
  <2> DEFINE g == [n \in 0..(i + 1) |-> IF n = i + 1 THEN TextFrom(f, i + 1) ELSE f[n]]
  <2>3. \A n \in Nat : n >= Radix => n \div Radix \in Nat /\ n \div Radix < n
    BY <1>1, DivFacts
  <2>4. TextFrom(f, i + 1) \in Seq(Digits)
    <3> DEFINE n == i + 1
    <3>1. n \in Nat
      OBVIOUS
    <3>2. CASE n < Radix
      <4>1. n + 1 \in 1..Radix
        BY <1>1, <3>2
      <4>2. DigitChars[n + 1] \in Digits
        BY <4>1, DigitFacts
      <4> HIDE DEF n
      <4>3. TextFrom(f, n) = << DigitChars[n + 1] >>
        BY <3>2 DEF TextFrom
      <4>4. TextFrom(f, n) \in Seq(Digits)
        BY <4>2, <4>3
      <4> QED BY <4>4 DEF n
    <3>3. CASE ~(n < Radix)
      <4> DEFINE q == n \div Radix
      <4>1. n >= Radix
        BY <1>1, <3>3
      <4>2. q \in Nat /\ q < n
        BY <2>3, <3>1, <4>1
      <4>3. n % Radix \in 0..(Radix - 1)
        BY <1>1, <3>1, DivFacts
      <4>4. DigitChars[(n % Radix) + 1] \in Digits
        BY <4>3, DigitValueBounds
      <4>5. TextFrom(f, n) = Append(f[q], DigitChars[(n % Radix) + 1])
        BY <3>3 DEF TextFrom
      <4>6. q \in 0..i
        <5> HIDE DEF q
        <5> QED BY <4>2
      <4>7. f[q] \in Seq(Digits)
        <5> HIDE DEF q
        <5> QED BY <2>2, <4>6
      <4> HIDE DEF q, n
      <4>8. TextFrom(f, n) \in Seq(Digits)
        BY <4>4, <4>5, <4>7
      <4> QED BY <4>8 DEF n
    <3> QED BY <3>2, <3>3
  <2>5. g \in [0..(i + 1) -> Seq(Digits)]
    <3> SUFFICES ASSUME NEW n \in 0..(i + 1)
                 PROVE  (IF n = i + 1 THEN TextFrom(f, i + 1) ELSE f[n]) \in Seq(Digits)
      OBVIOUS
    <3>1. n # i + 1 => n \in 0..i
      OBVIOUS
    <3> QED BY <2>2, <2>4, <3>1
  <2>6. g[i + 1] = TextFrom(f, i + 1) /\ \A n \in 0..i : g[n] = f[n]
    OBVIOUS
  <2> HIDE DEF g
  <2>7. ASSUME NEW n \in 0..(i + 1) PROVE TextFrom(g, n) = TextFrom(f, n)
    <3>1. CASE n < Radix
      BY <3>1 DEF TextFrom
    <3>2. CASE ~(n < Radix)
      <4> DEFINE q == n \div Radix
      <4>1. n \in Nat /\ n >= Radix
        BY <1>1, <3>2
      <4>2. q \in Nat /\ q < n
        BY <2>3, <4>1
      <4>3. q \in 0..i
        <5> HIDE DEF q
        <5> QED BY <4>1, <4>2
      <4>4. g[q] = f[q]
        BY <2>6, <4>3
      <4> QED BY <3>2, <4>4 DEF TextFrom
    <3> QED BY <3>1, <3>2
  <2>8. \A n \in 0..(i + 1) : g[n] = TextFrom(g, n)
    <3> SUFFICES ASSUME NEW n \in 0..(i + 1) PROVE g[n] = TextFrom(g, n)
      OBVIOUS
    <3>1. CASE n = i + 1
      BY <2>6, <2>7, <3>1
    <3>2. CASE n # i + 1
      <4>1. n \in 0..i
        BY <3>2
      <4> QED BY <2>2, <2>6, <2>7, <4>1
    <3> QED BY <3>1, <3>2
  <2>9. WritesUpTo(g, i + 1)
    BY <2>5, <2>8 DEF WritesUpTo
  <2> QED BY <2>9
<1>4. Nat \subseteq S
  <2> HIDE DEF S
  <2> QED BY <1>2, <1>3, UpwardsNat
<1> QED
  BY <1>4

\* NumberText is defined for every number, by its recursion.
LEMMA NumberTextDef ==
  /\ \A n \in Nat : NumberText[n] \in Seq(Digits)
  /\ \A n \in Nat : NumberText[n] = TextFrom(NumberText, n)
<1> DEFINE f(m) == CHOOSE g : WritesUpTo(g, m)
<1> DEFINE h == [n \in Nat |-> f(n)[n]]
<1>1. Radix \in Nat /\ Radix >= 2
  BY CodecAssumption
<1>2. \A m \in Nat : WritesUpTo(f(m), m)
  BY WriterExists
<1> HIDE DEF f
<1>3. ASSUME NEW m \in Nat, NEW n \in 0..m PROVE h[n] = f(m)[n]
  <2>1. n \in Nat /\ n <= n /\ n <= m /\ h[n] = f(n)[n]
    OBVIOUS
  <2>2. WritesUpTo(f(n), n) /\ WritesUpTo(f(m), m)
    BY <1>2, <2>1
  <2> HIDE DEF h
  <2> QED BY <2>1, <2>2, WritersAgree
<1>4. ASSUME NEW n \in Nat PROVE h[n] = TextFrom(h, n) /\ h[n] \in Seq(Digits)
  <2>1. WritesUpTo(f(n), n) /\ n \in 0..n
    BY <1>2
  <2>2. h[n] = f(n)[n]
    OBVIOUS
  <2> HIDE DEF h
  <2>3. h[n] = TextFrom(f(n), n) /\ h[n] \in Seq(Digits)
    BY <2>1, <2>2 DEF WritesUpTo
  <2>4. TextFrom(f(n), n) = TextFrom(h, n)
    <3>1. CASE n < Radix
      BY <3>1 DEF TextFrom
    <3>2. CASE ~(n < Radix)
      <4> DEFINE q == n \div Radix
      <4>1. q \in Nat /\ q < n
        BY <1>1, <3>2, DivFacts
      <4>2. q \in 0..n
        <5> HIDE DEF q
        <5> QED BY <4>1
      <4>3. h[q] = f(n)[q]
        <5> HIDE DEF q
        <5> QED BY <1>3, <4>2
      <4> QED BY <3>2, <4>3 DEF TextFrom
    <3> QED BY <3>1, <3>2
  <2> QED BY <2>3, <2>4
<1> DEFINE Writes(g) == g = [n \in Nat |->
       IF n < Radix THEN << DigitChars[n + 1] >>
                    ELSE Append(g[n \div Radix], DigitChars[(n % Radix) + 1])]
<1>5. Writes(h)
  <2>1. \A n \in Nat : h[n] = IF n < Radix THEN << DigitChars[n + 1] >>
                    ELSE Append(h[n \div Radix], DigitChars[(n % Radix) + 1])
    <3> HIDE DEF h
    <3> QED BY <1>4 DEF TextFrom
  <2>2. h = [n \in Nat |-> h[n]]
    OBVIOUS
  <2> HIDE DEF h
  <2> QED BY <2>1, <2>2
<1>6. NumberText = CHOOSE g : Writes(g)
  BY DEF NumberText
<1>7. Writes(NumberText)
  <2> HIDE DEF Writes, h
  <2> QED BY <1>5, <1>6, Zenon
<1>8. \A n \in Nat : NumberText[n] = TextFrom(NumberText, n)
  BY <1>7 DEF TextFrom
<1>9. ASSUME NEW n \in Nat PROVE NumberText[n] \in Seq(Digits)
  <2> DEFINE T == {i \in Nat : NumberText[i] \notin Seq(Digits)}
  <2>1. SUFFICES ASSUME T # {} PROVE FALSE
    OBVIOUS
  <2>2. PICK x \in T : \A y \in T : x <= y
    <3>1. T \subseteq Nat
      OBVIOUS
    <3> HIDE DEF T
    <3> QED BY <2>1, <3>1, LeastOfSet
  <2>3. x \in Nat /\ NumberText[x] \notin Seq(Digits)
    OBVIOUS
  <2> HIDE DEF T
  <2>4. CASE x < Radix
    <3>1. DigitChars[x + 1] \in Digits
      BY <1>1, <2>3, <2>4, DigitValueBounds
    <3>2. NumberText[x] = << DigitChars[x + 1] >>
      BY <1>8, <2>3, <2>4 DEF TextFrom
    <3> QED BY <2>3, <3>1, <3>2
  <2>5. CASE ~(x < Radix)
    <3>1. x \in Nat /\ x >= Radix
      BY <1>1, <2>3, <2>5
    <3> DEFINE q == x \div Radix
    <3>2. q \in Nat /\ q < x /\ x % Radix \in 0..(Radix - 1)
      BY <1>1, <3>1, DivFacts
    <3>3. NumberText[x] = Append(NumberText[q], DigitChars[(x % Radix) + 1])
      BY <1>8, <2>3, <2>5 DEF TextFrom
    <3>4. DigitChars[(x % Radix) + 1] \in Digits
      BY <3>2, DigitValueBounds
    <3> HIDE DEF q
    <3>5. q \notin T
      BY <2>2, <2>3, <3>2
    <3>6. NumberText[q] \in Seq(Digits)
      BY <3>2, <3>5 DEF T
    <3> QED BY <2>3, <3>3, <3>4, <3>6
  <2> QED BY <2>4, <2>5
<1> QED
  BY <1>8, <1>9

\* What operator<< writes, parse_full_u64 reads.
LEMMA NumberTextReads ==
  ASSUME NEW n \in Nat
  PROVE  /\ NumberText[n] \in Seq(Digits)
         /\ NumberText[n] # <<>>
         /\ NumberOf(NumberText[n]) = n
<1>1. Radix \in Nat /\ Radix >= 2
  BY CodecAssumption
<1>2. NumberText[n] \in Seq(Digits)
  BY NumberTextDef
<1>3. NumberText[n] # <<>>
  <2>1. CASE n < Radix
    <3>1. NumberText[n] = << DigitChars[n + 1] >>
      BY <2>1, NumberTextDef DEF TextFrom
    <3> QED BY <3>1
  <2>2. CASE ~(n < Radix)
    <3>1. n \div Radix \in Nat /\ n % Radix \in 0..(Radix - 1)
      BY <1>1, DivFacts
    <3>2. NumberText[n \div Radix] \in Seq(Digits) /\ DigitChars[(n % Radix) + 1] \in Digits
      BY <3>1, NumberTextDef, DigitValueBounds
    <3>3. NumberText[n] = Append(NumberText[n \div Radix], DigitChars[(n % Radix) + 1])
      BY <2>2, NumberTextDef DEF TextFrom
    <3> QED BY <3>2, <3>3, AppendProperties
  <2> QED BY <2>1, <2>2
<1> DEFINE T == {i \in Nat : NumberOf(NumberText[i]) # i}
<1>4. T = {}
  <2>1. SUFFICES ASSUME T # {} PROVE FALSE
    OBVIOUS
  <2>2. PICK x \in T : \A y \in T : x <= y
    <3>1. T \subseteq Nat
      OBVIOUS
    <3> HIDE DEF T
    <3> QED BY <2>1, <3>1, LeastOfSet
  <2>3. x \in Nat /\ NumberOf(NumberText[x]) # x
    OBVIOUS
  <2> HIDE DEF T
  <2>4. CASE x < Radix
    <3>1. DigitChars[x + 1] \in Digits /\ DigitValue(DigitChars[x + 1]) = x
      BY <1>1, <2>3, <2>4, DigitValueBounds
    <3>2. NumberText[x] = << DigitChars[x + 1] >>
      BY <2>3, <2>4, NumberTextDef DEF TextFrom
    <3>3. <<>> \in Seq(Digits) /\ << DigitChars[x + 1] >> = Append(<<>>, DigitChars[x + 1])
      OBVIOUS
    <3>4. NumberOf(NumberText[x]) = Radix * NumberOf(<<>>) + x /\ NumberOf(<<>>) = 0
      BY <3>1, <3>2, <3>3, NumberOfAppend
    <3>5. Radix * 0 = 0
      BY <1>1
    <3> QED BY <2>3, <3>4, <3>5
  <2>5. CASE ~(x < Radix)
    <3>1. x \in Nat /\ x >= Radix
      BY <1>1, <2>3, <2>5
    <3> DEFINE q == x \div Radix
    <3> DEFINE r == x % Radix
    <3>2. q \in Nat /\ q < x /\ r \in 0..(Radix - 1) /\ x = Radix * q + r
      BY <1>1, <3>1, DivFacts
    <3>3. NumberText[x] = Append(NumberText[q], DigitChars[r + 1])
      BY <2>3, <2>5, NumberTextDef DEF TextFrom
    <3> HIDE DEF q, r
    <3>4. DigitChars[r + 1] \in Digits /\ DigitValue(DigitChars[r + 1]) = r
      BY <3>2, DigitValueBounds
    <3>5. q \notin T
      BY <2>2, <2>3, <3>2
    <3>6. NumberOf(NumberText[q]) = q /\ NumberText[q] \in Seq(Digits)
      BY <3>2, <3>5, NumberTextDef DEF T
    <3>7. NumberOf(NumberText[x]) = Radix * q + r
      BY <3>3, <3>4, <3>6, NumberOfAppend
    <3> QED BY <2>3, <3>2, <3>7
  <2> QED BY <2>4, <2>5
<1> QED
  BY <1>2, <1>3, <1>4

-----------------------------------------------------------------------------
(* The blank line.                                                         *)

\* A blank line ends at position i of data: two newlines, the first at i.
BlankAt(data, i) == data[i] = "LF" /\ data[i + 1] = "LF"

\* BlankLine returns the first blank line, or 0 if there is none (find("\n\n")).
LEMMA BlankLineFound ==
  ASSUME NEW data \in Texts
  PROVE  /\ BlankLine(data) \in 0..Len(data)
         /\ BlankLine(data) = 0 => \A i \in 1..(Len(data) - 1) : ~BlankAt(data, i)
         /\ BlankLine(data) # 0 =>
              /\ BlankLine(data) \in 1..(Len(data) - 1)
              /\ BlankAt(data, BlankLine(data))
              /\ \A i \in 1..(BlankLine(data) - 1) : ~BlankAt(data, i)
<1> DEFINE Ends == {i \in 1..(Len(data) - 1) : data[i] = "LF" /\ data[i + 1] = "LF"}
<1>1. Len(data) \in Nat
  BY DEF Texts
<1>2. BlankLine(data) = IF Ends = {} THEN 0 ELSE CHOOSE i \in Ends : \A j \in Ends : i <= j
  BY DEF BlankLine
<1>3. CASE Ends = {}
  <2>1. BlankLine(data) = 0
    BY <1>2, <1>3
  <2>2. \A i \in 1..(Len(data) - 1) : ~BlankAt(data, i)
    BY <1>3 DEF BlankAt
  <2> QED BY <1>1, <2>1, <2>2
<1>4. CASE Ends # {}
  <2> DEFINE e == CHOOSE i \in Ends : \A j \in Ends : i <= j
  <2>1. Ends \subseteq Nat
    BY <1>1
  <2>2. e \in Ends /\ \A j \in Ends : e <= j
    <3> HIDE DEF Ends
    <3>1. \E i \in Ends : \A j \in Ends : i <= j
      BY <1>4, <2>1, LeastOfSet
    <3> QED BY <3>1
  <2>3. BlankLine(data) = e
    BY <1>2, <1>4
  <2> HIDE DEF e
  <2>4. e \in 1..(Len(data) - 1) /\ BlankAt(data, e)
    BY <2>2 DEF BlankAt
  <2>5. \A i \in 1..(e - 1) : ~BlankAt(data, i)
    <3> SUFFICES ASSUME NEW i \in 1..(e - 1), BlankAt(data, i) PROVE FALSE
      OBVIOUS
    <3>1. i \in Ends
      BY <1>1, <2>4 DEF BlankAt
    <3> HIDE DEF Ends
    <3> QED BY <1>1, <2>2, <2>4, <3>1
  <2> QED BY <1>1, <2>3, <2>4, <2>5
<1> QED
  BY <1>3, <1>4

\* A position with these properties is the blank line.
LEMMA BlankLineIs ==
  ASSUME NEW data \in Texts, NEW e \in 1..(Len(data) - 1), BlankAt(data, e),
         \A i \in 1..(e - 1) : ~BlankAt(data, i)
  PROVE  BlankLine(data) = e
<1> DEFINE b == BlankLine(data)
<1>1. Len(data) \in Nat
  BY DEF Texts
<1>2. b # 0
  BY BlankLineFound
<1>3. b \in 1..(Len(data) - 1) /\ BlankAt(data, b) /\ \A i \in 1..(b - 1) : ~BlankAt(data, i)
  BY <1>2, BlankLineFound
<1> HIDE DEF b
<1>4. ~(b < e)
  BY <1>1, <1>3
<1>5. ~(e < b)
  BY <1>1, <1>3
<1> QED
  BY <1>1, <1>3, <1>4, <1>5 DEF b

\* A blank line that has arrived decides: whatever follows, what decode_file_header
\* says stays the same.
LEMMA BlankLineStays ==
  ASSUME NEW data \in Texts, NEW more \in Texts, BlankLine(data) # 0
  PROVE  /\ BlankLine(data \o more) = BlankLine(data)
         /\ decode_file_header(data \o more) = decode_file_header(data)
<1> DEFINE e == BlankLine(data)
<1> DEFINE all == data \o more
<1>1. e \in 1..(Len(data) - 1) /\ BlankAt(data, e) /\ \A i \in 1..(e - 1) : ~BlankAt(data, i)
  BY BlankLineFound
<1>2. /\ all \in Texts /\ Len(all) = Len(data) + Len(more)
      /\ Len(data) \in Nat /\ Len(more) \in Nat
      /\ \A i \in 1..Len(data) : all[i] = data[i]
  BY DEF Texts
<1>3. \A i \in 1..(Len(data) - 1) : BlankAt(all, i) <=> BlankAt(data, i)
  BY <1>2 DEF BlankAt
<1>4. BlankLine(all) = e
  <2> HIDE DEF e, all
  <2>1. e \in 1..(Len(all) - 1)
    BY <1>1, <1>2
  <2>2. BlankAt(all, e) /\ \A i \in 1..(e - 1) : ~BlankAt(all, i)
    BY <1>1, <1>2, <1>3
  <2> QED BY <1>2, <2>1, <2>2, BlankLineIs
<1>5. SubSeq(all, 1, e - 1) = SubSeq(data, 1, e - 1)
  <2>1. CASE e = 1
    BY <2>1, SubSeqEmpty
  <2>2. CASE e # 1
    <3> HIDE DEF e
    <3>1. 1 \in 1..Len(data) /\ e - 1 \in 1..Len(data)
      BY <1>1, <1>2, <2>2
    <3> QED BY <3>1, SubSeqOfConcat1 DEF Texts
  <2> QED BY <2>1, <2>2
<1> HIDE DEF all
<1> QED
  BY <1>4, <1>5 DEF decode_file_header, all

\* Text has at least one line, and its lines are texts.
LEMMA LinesOfTexts ==
  ASSUME NEW text \in Texts
  PROVE  Lines(text) \in Seq(Texts) /\ Lines(text) # <<>>
BY LinesOfAppend, CharFacts DEF LineLists

\* A header has three fields, so three seen keys are all of them.
LEMMA KeysAreThree ==
  /\ IsFiniteSet(Keys) /\ Cardinality(Keys) = 3
  /\ \A S \in SUBSET Keys : Cardinality(S) >= 3 <=> S = Keys
<1>1. IsFiniteSet({}) /\ Cardinality({}) = 0
  BY FS_EmptySet
<1>2. <<"name">> # <<"size">> /\ <<"name">> # <<"hash">> /\ <<"size">> # <<"hash">>
  OBVIOUS
<1>3. IsFiniteSet({<<"name">>}) /\ Cardinality({<<"name">>}) = 1
  BY FS_Singleton
<1>4. {<<"name">>} \cup {<<"size">>} = {<<"name">>, <<"size">>}
  OBVIOUS
<1>5. IsFiniteSet({<<"name">>, <<"size">>}) /\ Cardinality({<<"name">>, <<"size">>}) = 2
  <2>1. <<"size">> \notin {<<"name">>}
    BY <1>2
  <2> DEFINE one == {<<"name">>}
  <2>2. IsFiniteSet(one) /\ Cardinality(one) = 1 /\ <<"size">> \notin one
    BY <1>3, <2>1
  <2> HIDE DEF one
  <2>3. IsFiniteSet(one \cup {<<"size">>}) /\ Cardinality(one \cup {<<"size">>}) = 2
    BY <2>2, FS_AddElement
  <2> QED BY <1>4, <2>3 DEF one
<1>6. {<<"name">>, <<"size">>} \cup {<<"hash">>} = Keys
  BY DEF Keys
<1>7. IsFiniteSet(Keys) /\ Cardinality(Keys) = 3
  <2>1. <<"hash">> \notin {<<"name">>, <<"size">>}
    BY <1>2
  <2> DEFINE two == {<<"name">>, <<"size">>}
  <2>2. IsFiniteSet(two) /\ Cardinality(two) = 2 /\ <<"hash">> \notin two
    BY <1>5, <2>1
  <2> HIDE DEF two
  <2>3. IsFiniteSet(two \cup {<<"hash">>}) /\ Cardinality(two \cup {<<"hash">>}) = 3
    BY <2>2, FS_AddElement
  <2> QED BY <1>6, <2>3 DEF two
<1>8. ASSUME NEW S \in SUBSET Keys PROVE Cardinality(S) >= 3 <=> S = Keys
  <2>1. /\ IsFiniteSet(S) /\ Cardinality(S) <= 3
        /\ Cardinality(S) = Cardinality(Keys) => Keys = S
    BY <1>7, FS_Subset
  <2>2. Cardinality(S) \in Nat
    BY <2>1, FS_CardinalityType
  <2> QED BY <1>7, <2>1, <2>2
<1> QED
  BY <1>7, <1>8

\* The name the loop has read went through sanitize_file_name.
LEMMA ReadNameIsSafe ==
  ASSUME NEW lines \in Seq(Texts), <<"name">> \in ReadLines(lines).seen
  PROVE  SafeName(ReadLines(lines).header.name)
<1> DEFINE Safe(got) == <<"name">> \in got.seen => SafeName(got.header.name)
<1> DEFINE S == {ls \in Seq(Texts) : Safe(ReadLines(ls))}
<1>1. <<>> \in S
  <2>1. ReadLines(<<>>) = NothingRead /\ <<>> \in Seq(Texts)
    <3>1. <<>> \in Texts /\ <<>> \in Seq(Texts)
      BY DEF Texts
    <3> QED BY <3>1, ReadLinesOfAppend
  <2>2. Safe(NothingRead)
    BY DEF NothingRead
  <2> QED BY <2>1, <2>2
<1>2. ASSUME NEW got \in Got, Safe(got), NEW key \in Texts, NEW value \in Texts
      PROVE  Safe(ReadField(got, key, value))
  <2>1. SafeName(sanitize_file_name(value))
    BY SanitizedIsSafe
  <2>2. /\ got.header \in Header
        /\ got = [header |-> got.header, seen |-> got.seen, bad |-> got.bad]
    BY DEF Got
  <2> DEFINE named == [got EXCEPT !.header.name = sanitize_file_name(value), !.seen = @ \cup {key}]
  <2>3. Safe(named)
    <3>1. named.header.name = sanitize_file_name(value)
      BY <2>2 DEF Header
    <3> QED BY <2>1, <3>1
  <2> DEFINE sized == [got EXCEPT !.header.size = NumberOf(value), !.seen = @ \cup {key}]
  <2>4. ASSUME key = <<"size">> PROVE Safe(sized)
    <3>1. sized.header.name = got.header.name /\ sized.seen = got.seen \cup {<<"size">>}
      BY <2>2, <2>4 DEF Header
    <3>2. <<"name">> # <<"size">>
      OBVIOUS
    <3> QED BY <1>2, <3>1, <3>2
  <2> DEFINE hashed == [got EXCEPT !.header.sha256_hex = to_lower(value), !.seen = @ \cup {key}]
  <2>5. ASSUME key = <<"hash">> PROVE Safe(hashed)
    <3>1. hashed.header.name = got.header.name /\ hashed.seen = got.seen \cup {<<"hash">>}
      BY <2>2, <2>5 DEF Header
    <3>2. <<"name">> # <<"hash">>
      OBVIOUS
    <3> QED BY <1>2, <3>1, <3>2
  <2>6. Safe(Bad(got))
    BY <1>2, <2>2 DEF Bad
  <2>7. \/ ReadField(got, key, value) = got
        \/ ReadField(got, key, value) = named
        \/ key = <<"size">> /\ ReadField(got, key, value) = sized
        \/ key = <<"hash">> /\ ReadField(got, key, value) = hashed
        \/ ReadField(got, key, value) = Bad(got)
    BY DEF ReadField, Counts
  <2> HIDE DEF named, sized, hashed, Safe
  <2> QED BY <1>2, <2>3, <2>4, <2>5, <2>6, <2>7
<1>3. ASSUME NEW ls \in Seq(Texts), NEW line \in Texts, ls \in S
      PROVE  Append(ls, line) \in S
  <2> DEFINE got == ReadLines(ls)
  <2> DEFINE eq == SelectInSeq(line, LAMBDA ch : ch = "=")
  <2>1. got \in Got /\ Safe(got) /\ ReadLines(Append(ls, line)) = ReadLine(got, line)
    BY <1>3, ReadLinesOfAppend
  <2>2. eq \in 0..Len(line) /\ Len(line) \in Nat
    BY FirstEquals DEF Texts
  <2>3. ReadLine(got, line) =
          IF got.bad \/ line = <<>> THEN got
          ELSE IF eq = 0 THEN Bad(got)
          ELSE ReadField(got, SubSeq(line, 1, eq - 1), SubSeq(line, eq + 1, Len(line)))
    BY DEF ReadLine
  <2>4. Safe(Bad(got))
    BY <2>1 DEF Got, Bad
  <2>5. Append(ls, line) \in Seq(Texts)
    BY AppendProperties
  <2> HIDE DEF eq, got, Safe
  <2>6. ASSUME eq # 0
        PROVE  Safe(ReadField(got, SubSeq(line, 1, eq - 1), SubSeq(line, eq + 1, Len(line))))
    <3>1. SubSeq(line, 1, eq - 1) \in Texts /\ SubSeq(line, eq + 1, Len(line)) \in Texts
      BY <2>2, <2>6, PartIsText
    <3> QED BY <1>2, <2>1, <3>1
  <2>7. Safe(ReadLine(got, line))
    BY <2>1, <2>3, <2>4, <2>6
  <2> QED BY <2>1, <2>5, <2>7
<1>4. Seq(Texts) \subseteq S
  <2> HIDE DEF S
  <2> QED BY <1>1, <1>3, AppendInduction
<1> QED
  BY <1>4

\* The types of what is read of a block, and its name is safe.
LEMMA ReadBlockType ==
  ASSUME NEW block \in Texts
  PROVE  /\ ReadBlock(block) \in Got
         /\ <<"name">> \in ReadBlock(block).seen => SafeName(ReadBlock(block).header.name)
<1>1. Lines(block) \in Seq(Texts) /\ Lines(block) # <<>>
  BY LinesOfTexts
<1>2. Tail(Lines(block)) \in Seq(Texts)
  BY <1>1, HeadTailProperties
<1>3. ReadLines(Tail(Lines(block))) \in Got
  <2>1. <<>> \in Texts
    BY DEF Texts
  <2> QED BY <1>2, <2>1, ReadLinesOfAppend
<1>4. Bad(NothingRead) \in Got /\ Bad(NothingRead).seen = {}
  BY ReadStepType DEF Bad, NothingRead, IsStep, Got
<1> QED
  BY <1>2, <1>3, <1>4, ReadNameIsSafe DEF ReadBlock, ReadLines

\* What decode_file_header accepts has a safe name, and ends within the data.
LEMMA DecodedIsSafe ==
  ASSUME NEW data \in Texts, decode_file_header(data).ok
  PROVE  LET got == decode_file_header(data)
         IN  /\ got.header \in Header /\ SafeName(got.header.name)
             /\ BlankLine(data) # 0
             /\ got.header_byte_count = BlankLine(data) + 1
             /\ got.header_byte_count \in 0..Len(data)
<1> DEFINE end == BlankLine(data)
<1> DEFINE block == SubSeq(data, 1, end - 1)
<1> DEFINE got == ReadBlock(block)
<1>1. Len(data) \in Nat
  BY DEF Texts
<1>2. ~(end = 0 \/ got.bad \/ Cardinality(got.seen) < 3)
  BY DEF decode_file_header, NotDecoded
<1>3. end \in 1..(Len(data) - 1)
  BY <1>2, BlankLineFound
<1>4. block \in Texts
  <2> HIDE DEF end
  <2> QED BY <1>1, <1>3, PartIsText
<1>5. got \in Got /\ (<<"name">> \in got.seen => SafeName(got.header.name))
  BY <1>4, ReadBlockType
<1>6. got.seen = Keys
  <2> HIDE DEF got, end
  <2>1. got.seen \in SUBSET Keys
    BY <1>5 DEF Got
  <2>2. Cardinality(got.seen) \in Nat
    <3>1. IsFiniteSet(Keys)
      BY KeysAreThree
    <3> QED BY <2>1, <3>1, FS_Subset, FS_CardinalityType
  <2> QED BY <1>2, <2>1, <2>2, KeysAreThree
<1>7. decode_file_header(data) = [ok |-> TRUE, header |-> got.header, header_byte_count |-> end + 1]
  BY <1>2 DEF decode_file_header
<1> HIDE DEF end, got, block
<1> QED
  BY <1>1, <1>2, <1>3, <1>5, <1>6, <1>7 DEF Got, Keys, end

-----------------------------------------------------------------------------
(* Texts joined line by line.                                              *)

\* One line of text.
OneLine(w) == w \in Texts /\ \A i \in 1..Len(w) : w[i] # "LF"

\* Text without a blank line in it.
Tidy(t) == t \in Texts /\ \A i \in 1..(Len(t) - 1) : ~BlankAt(t, i)

\* Text with one character more.
LEMMA AppendText ==
  ASSUME NEW t \in Texts, NEW ch \in Chars
  PROVE  /\ Append(t, ch) \in Texts /\ Len(Append(t, ch)) = Len(t) + 1
         /\ Len(t) \in Nat
         /\ Append(t, ch)[Len(t) + 1] = ch
         /\ \A i \in 1..Len(t) : Append(t, ch)[i] = t[i]
BY AppendProperties, LenProperties DEF Texts

\* Text after text.
LEMMA JoinText ==
  ASSUME NEW s \in Texts, NEW t \in Texts
  PROVE  /\ s \o t \in Texts /\ Len(s \o t) = Len(s) + Len(t)
         /\ Len(s) \in Nat /\ Len(t) \in Nat
         /\ \A i \in 1..Len(s) : (s \o t)[i] = s[i]
         /\ \A i \in 1..Len(t) : (s \o t)[Len(s) + i] = t[i]
<1>1. /\ s \o t \in Texts /\ Len(s \o t) = Len(s) + Len(t)
      /\ Len(s) \in Nat /\ Len(t) \in Nat
      /\ \A i \in 1..(Len(s) + Len(t)) : (s \o t)[i] = IF i <= Len(s) THEN s[i] ELSE t[i - Len(s)]
  BY ConcatProperties, LenProperties DEF Texts
<1>2. \A i \in 1..Len(s) : (s \o t)[i] = s[i]
  BY <1>1
<1>3. ASSUME NEW i \in 1..Len(t) PROVE (s \o t)[Len(s) + i] = t[i]
  <2>1. Len(s) + i \in 1..(Len(s) + Len(t)) /\ ~(Len(s) + i <= Len(s)) /\ (Len(s) + i) - Len(s) = i
    BY <1>1
  <2> QED BY <1>1, <2>1
<1> QED
  BY <1>1, <1>2, <1>3

\* Joining and appending commute.
LEMMA JoinAppend ==
  ASSUME NEW s \in Texts, NEW t \in Texts, NEW ch \in Chars
  PROVE  s \o Append(t, ch) = Append(s \o t, ch)
<1>1. <<ch>> \in Texts
  BY DEF Texts
<1>2. Append(t, ch) = t \o <<ch>> /\ Append(s \o t, ch) = (s \o t) \o <<ch>>
  BY AppendIsConcat, JoinText DEF Texts
<1> QED
  BY <1>1, <1>2, ConcatAssociative DEF Texts

\* Text without a newline is one line.
LEMMA FirstLine ==
  ASSUME NEW w, OneLine(w)
  PROVE  Lines(w) = <<w>>
<1> DEFINE S == {t \in Texts : OneLine(t) => Lines(t) = <<t>>}
<1>1. <<>> \in S
  <2>1. <<>> \in Texts
    BY DEF Texts
  <2>2. "LF" \in Chars
    BY CharFacts
  <2> QED BY <2>1, <2>2, LinesOfAppend
<1>2. ASSUME NEW t \in Texts, NEW ch \in Chars, t \in S
      PROVE  Append(t, ch) \in S
  <2>1. Append(t, ch) \in Texts
    BY AppendText
  <2>2. ASSUME OneLine(Append(t, ch)) PROVE Lines(Append(t, ch)) = <<Append(t, ch)>>
    <3>1. OneLine(t) /\ ch # "LF"
      <4>1. /\ Len(Append(t, ch)) = Len(t) + 1 /\ Len(t) \in Nat
            /\ Append(t, ch)[Len(t) + 1] = ch
            /\ \A i \in 1..Len(t) : Append(t, ch)[i] = t[i]
        BY AppendText
      <4>2. \A i \in 1..(Len(t) + 1) : Append(t, ch)[i] # "LF"
        BY <2>2, <4>1 DEF OneLine
      <4>3. ch # "LF" /\ \A i \in 1..Len(t) : t[i] # "LF"
        BY <4>1, <4>2
      <4> QED BY <4>3 DEF OneLine
    <3>2. Lines(t) = <<t>>
      BY <1>2, <3>1
    <3>3. Lines(Append(t, ch)) = [Lines(t) EXCEPT ![Len(Lines(t))] = Append(@, ch)]
      BY <3>1, LinesOfAppend
    <3> QED BY <3>2, <3>3
  <2> QED BY <2>1, <2>2
<1>3. Seq(Chars) \subseteq S
  <2> HIDE DEF S
  <2> QED BY <1>1, <1>2, AppendInduction DEF Texts
<1> QED
  BY <1>3 DEF OneLine, Texts

\* A newline and a line after some text: one line more.
LEMMA NextLine ==
  ASSUME NEW text \in Texts, NEW w, OneLine(w)
  PROVE  Lines(Append(text, "LF") \o w) = Append(Lines(text), w)
<1> DEFINE base == Append(text, "LF")
<1> DEFINE S == {t \in Texts : OneLine(t) => Lines(base \o t) = Append(Lines(text), t)}
<1>1. "LF" \in Chars /\ base \in Texts
  BY CharFacts, AppendText
<1>2. <<>> \in S
  <2>1. <<>> \in Texts
    BY DEF Texts
  <2>2. base \o <<>> = base
    BY <1>1, ConcatEmptySeq DEF Texts
  <2>3. Lines(base) = Append(Lines(text), <<>>)
    BY <1>1, LinesOfAppend
  <2> HIDE DEF base
  <2> QED BY <2>1, <2>2, <2>3
<1>3. ASSUME NEW t \in Texts, NEW ch \in Chars, t \in S
      PROVE  Append(t, ch) \in S
  <2>1. Append(t, ch) \in Texts
    BY AppendText
  <2>2. ASSUME OneLine(Append(t, ch)) PROVE Lines(base \o Append(t, ch)) = Append(Lines(text), Append(t, ch))
    <3>1. OneLine(t) /\ ch # "LF"
      <4>1. /\ Len(Append(t, ch)) = Len(t) + 1 /\ Len(t) \in Nat
            /\ Append(t, ch)[Len(t) + 1] = ch
            /\ \A i \in 1..Len(t) : Append(t, ch)[i] = t[i]
        BY AppendText
      <4>2. \A i \in 1..(Len(t) + 1) : Append(t, ch)[i] # "LF"
        BY <2>2, <4>1 DEF OneLine
      <4>3. ch # "LF" /\ \A i \in 1..Len(t) : t[i] # "LF"
        BY <4>1, <4>2
      <4> QED BY <4>3 DEF OneLine
    <3>2. Lines(base \o t) = Append(Lines(text), t)
      BY <1>3, <3>1
    <3> HIDE DEF base
    <3>3. base \o Append(t, ch) = Append(base \o t, ch) /\ base \o t \in Texts
      BY <1>1, JoinAppend, JoinText
    <3> DEFINE ls == Lines(text)
    <3> DEFINE old == Append(ls, t)
    <3>4. Lines(base \o Append(t, ch)) = [old EXCEPT ![Len(old)] = Append(@, ch)]
      BY <3>1, <3>2, <3>3, LinesOfAppend
    <3>5. ls \in Seq(Texts)
      BY LinesOfTexts
    <3> HIDE DEF ls
    <3>6. [old EXCEPT ![Len(old)] = Append(@, ch)] = Append(ls, Append(t, ch))
      <4> DEFINE new == [old EXCEPT ![Len(old)] = Append(@, ch)]
      <4> DEFINE want == Append(ls, Append(t, ch))
      <4>1. /\ old \in Seq(Texts) /\ Len(old) = Len(ls) + 1 /\ old[Len(ls) + 1] = t
            /\ Len(ls) \in Nat /\ \A i \in 1..Len(ls) : old[i] = ls[i]
        BY <3>5, AppendProperties
      <4>2. /\ want \in Seq(Texts) /\ Len(want) = Len(ls) + 1 /\ want[Len(ls) + 1] = Append(t, ch)
            /\ \A i \in 1..Len(ls) : want[i] = ls[i]
        BY <2>1, <3>5, AppendProperties
      <4>3. Len(old) \in 1..Len(old)
        BY <4>1
      <4>4. new = [old EXCEPT ![Len(old)] = Append(t, ch)]
        BY <4>1
      <4> HIDE DEF old, want, new
      <4>5. /\ new \in Seq(Texts) /\ Len(new) = Len(old)
            /\ \A j \in 1..Len(old) : new[j] = IF j = Len(old) THEN Append(t, ch) ELSE old[j]
        BY <2>1, <4>1, <4>3, <4>4, ExceptSeq
      <4>6. \A j \in 1..Len(new) : new[j] = want[j]
        <5> SUFFICES ASSUME NEW j \in 1..Len(new) PROVE new[j] = want[j]
          OBVIOUS
        <5>1. CASE j = Len(old)
          BY <4>1, <4>2, <4>5, <5>1
        <5>2. CASE j # Len(old)
          <6>1. j \in 1..Len(ls)
            BY <4>1, <4>5, <5>2
          <6> QED BY <4>1, <4>2, <4>5, <5>2, <6>1
        <5> QED BY <5>1, <5>2
      <4>7. new = want
        BY <4>1, <4>2, <4>5, <4>6, SeqEqual
      <4> QED BY <4>7 DEF new, want
    <3> HIDE DEF old
    <3> QED BY <3>4, <3>6 DEF ls
  <2> HIDE DEF base
  <2> QED BY <2>1, <2>2
<1>4. Seq(Chars) \subseteq S
  <2> HIDE DEF S
  <2> QED BY <1>2, <1>3, AppendInduction DEF Texts
<1> QED
  BY <1>4 DEF OneLine, Texts

\* Joining texts makes no blank line if the second begins with something else.
LEMMA TidyJoin ==
  ASSUME NEW s, NEW t, Tidy(s), Tidy(t), t # <<>>, t[1] # "LF"
  PROVE  Tidy(s \o t)
<1>1. s \in Texts /\ t \in Texts
  BY DEF Tidy
<1> DEFINE a == s \o t
<1>2. /\ a \in Texts /\ Len(a) = Len(s) + Len(t) /\ Len(s) \in Nat /\ Len(t) \in Nat
      /\ \A i \in 1..Len(s) : a[i] = s[i]
      /\ \A i \in 1..Len(t) : a[Len(s) + i] = t[i]
  BY <1>1, JoinText
<1>3. Len(t) >= 1
  BY <1>1, EmptySeq DEF Texts
<1> HIDE DEF a
<1>4. ASSUME NEW i \in 1..(Len(a) - 1), BlankAt(a, i) PROVE FALSE
  <2>1. a[i] = "LF" /\ a[i + 1] = "LF"
    BY <1>4 DEF BlankAt
  <2>2. CASE i + 1 <= Len(s)
    <3>1. i \in 1..(Len(s) - 1) /\ i \in 1..Len(s) /\ i + 1 \in 1..Len(s)
      BY <1>2, <2>2
    <3>2. s[i] = "LF" /\ s[i + 1] = "LF"
      BY <1>2, <2>1, <3>1
    <3> QED BY <3>1, <3>2 DEF Tidy, BlankAt
  <2>3. CASE i = Len(s)
    <3>1. a[Len(s) + 1] = t[1]
      BY <1>2, <1>3
    <3> QED BY <2>1, <2>3, <3>1
  <2>4. CASE i > Len(s)
    <3> DEFINE k == i - Len(s)
    <3>1. k \in 1..(Len(t) - 1) /\ k \in 1..Len(t) /\ k + 1 \in 1..Len(t)
          /\ i = Len(s) + k /\ i + 1 = Len(s) + (k + 1)
      BY <1>2, <2>4
    <3> HIDE DEF k
    <3>2. t[k] = "LF" /\ t[k + 1] = "LF"
      BY <1>2, <2>1, <3>1
    <3> QED BY <3>1, <3>2 DEF Tidy, BlankAt
  <2> QED BY <1>2, <2>2, <2>3, <2>4
<1> QED
  BY <1>2, <1>4 DEF Tidy, a

\* A line that is not empty makes no blank line.
LEMMA TidyLine ==
  ASSUME NEW w, OneLine(w), w # <<>>
  PROVE  Tidy(Append(w, "LF")) /\ Append(w, "LF")[1] # "LF"
<1> DEFINE a == Append(w, "LF")
<1>1. "LF" \in Chars /\ w \in Texts
  BY CharFacts DEF OneLine
<1>2. /\ a \in Texts /\ Len(a) = Len(w) + 1 /\ Len(w) \in Nat
      /\ \A i \in 1..Len(w) : a[i] = w[i]
  BY <1>1, AppendText
<1>3. Len(w) >= 1
  BY <1>1, EmptySeq DEF Texts
<1> HIDE DEF a
<1>4. \A i \in 1..Len(w) : a[i] # "LF"
  BY <1>2 DEF OneLine
<1>5. \A i \in 1..(Len(a) - 1) : ~BlankAt(a, i)
  BY <1>2, <1>4 DEF BlankAt
<1>6. a[1] # "LF"
  BY <1>3, <1>2, <1>4
<1> QED
  BY <1>2, <1>5, <1>6 DEF Tidy, a

-----------------------------------------------------------------------------
(* An encoded header, and how it is decoded.                               *)

KeyNames == {"name", "size", "hash"}

\* A key, "=" and a value: where the line is split, and into what.
LEMMA PairText ==
  ASSUME NEW k \in KeyNames, NEW v \in Texts
  PROVE  LET w == <<k, "=">> \o v
         IN  /\ w \in Texts /\ Len(w) = Len(v) + 2 /\ w # <<>>
             /\ w[1] = k /\ w[2] = "="
             /\ SubSeq(w, 1, 1) = <<k>> /\ SubSeq(w, 3, Len(w)) = v
             /\ SelectInSeq(w, LAMBDA ch : ch = "=") = 2
             /\ OneLine(v) => OneLine(w)
<1> DEFINE w == <<k, "=">> \o v
<1>1. k \in Chars /\ "=" \in Chars /\ k # "=" /\ k # "LF"
  BY CharFacts DEF KeyNames
<1>2. <<k, "=">> \in Texts /\ Len(<<k, "=">>) = 2 /\ <<k, "=">>[1] = k /\ <<k, "=">>[2] = "="
  BY <1>1 DEF Texts
<1>3. /\ w \in Texts /\ Len(w) = 2 + Len(v) /\ Len(v) \in Nat
      /\ w[1] = k /\ w[2] = "="
      /\ \A i \in 1..Len(v) : w[2 + i] = v[i]
  <2> DEFINE p == <<k, "=">>
  <2>1. p \in Texts /\ Len(p) = 2 /\ p[1] = k /\ p[2] = "=" /\ w = p \o v
    BY <1>2
  <2> HIDE DEF p, w
  <2>2. /\ w \in Texts /\ Len(w) = Len(p) + Len(v) /\ Len(v) \in Nat
        /\ \A i \in 1..Len(p) : w[i] = p[i]
        /\ \A i \in 1..Len(v) : w[Len(p) + i] = v[i]
    BY <2>1, JoinText
  <2> QED BY <2>1, <2>2
<1> HIDE DEF w
<1>4. w # <<>>
  BY <1>3
<1>5. SubSeq(w, 1, 1) = <<k>>
  <2>1. \A i \in 1..1 : w[i] \in Chars
    BY <1>1, <1>3
  <2>2. /\ SubSeq(w, 1, 1) \in Seq(Chars) /\ Len(SubSeq(w, 1, 1)) = 1
        /\ SubSeq(w, 1, 1)[1] = w[1]
    BY <2>1, SubSeqProperties
  <2> DEFINE p == SubSeq(w, 1, 1)
  <2>3. p \in Seq(Chars) /\ Len(p) = 1 /\ p[1] = k
    BY <1>3, <2>2
  <2> HIDE DEF p
  <2>4. p = <<k>>
    BY <2>3
  <2> QED BY <2>4 DEF p
<1>6. SubSeq(w, 3, Len(w)) = v
  <2>1. \A i \in 1..Len(w) : w[i] \in Chars
    BY <1>3 DEF Texts
  <2>2. \A i \in 3..Len(w) : w[i] \in Chars
    BY <1>3, <2>1
  <2>3. 3 \in Int /\ Len(w) \in Int
    BY <1>3
  <2> DEFINE rest == SubSeq(w, 3, Len(w))
  <2>4. /\ rest \in Seq(Chars)
        /\ Len(rest) = IF 3 <= Len(w) THEN Len(w) - 3 + 1 ELSE 0
        /\ \A i \in 1..(Len(w) - 3 + 1) : rest[i] = w[3 + i - 1]
    BY <2>2, <2>3, SubSeqProperties
  <2> HIDE DEF rest
  <2>5. Len(rest) = Len(v)
    BY <1>3, <2>4
  <2>6. \A i \in 1..Len(rest) : rest[i] = v[i]
    <3> SUFFICES ASSUME NEW i \in 1..Len(rest) PROVE rest[i] = v[i]
      OBVIOUS
    <3>1. i \in 1..Len(v) /\ i \in 1..(Len(w) - 3 + 1) /\ 3 + i - 1 = 2 + i
      BY <1>3, <2>5
    <3> QED BY <1>3, <2>4, <3>1
  <2>7. rest = v
    BY <2>4, <2>5, <2>6, SeqEqual DEF Texts
  <2> QED BY <2>7 DEF rest
<1>7. SelectInSeq(w, LAMBDA ch : ch = "=") = 2
  <2> DEFINE eq == SelectInSeq(w, LAMBDA ch : ch = "=")
  <2>1. \/ eq = 0 /\ \A i \in 1..Len(w) : w[i] # "="
        \/ /\ eq \in 1..Len(w) /\ w[eq] = "="
           /\ \A i \in 1..(eq - 1) : w[i] # "="
    BY <1>3, FirstEquals
  <2> HIDE DEF eq
  <2>2. eq # 0
    BY <1>3, <2>1
  <2>3. eq # 1
    BY <1>1, <1>3, <2>1
  <2>4. ~(eq > 2)
    BY <1>3, <2>1
  <2>5. eq = 2
    BY <1>3, <2>1, <2>2, <2>3, <2>4
  <2> QED BY <2>5 DEF eq
<1>8. OneLine(v) => OneLine(w)
  <2> SUFFICES ASSUME OneLine(v), NEW i \in 1..Len(w) PROVE w[i] # "LF"
    BY <1>3 DEF OneLine
  <2>1. CASE i = 1
    BY <1>1, <1>3, <2>1
  <2>2. CASE i = 2
    BY <1>3, <2>2
  <2>3. CASE i > 2
    <3>1. i - 2 \in 1..Len(v) /\ i = 2 + (i - 2)
      BY <1>3, <2>3
    <3>2. w[i] = v[i - 2]
      BY <1>3, <3>1
    <3> QED BY <3>1, <3>2 DEF OneLine
  <2> QED BY <1>3, <2>1, <2>2, <2>3
<1> QED
  BY <1>3, <1>4, <1>5, <1>6, <1>7, <1>8 DEF w

\* So the loop reads the pair that was written.
LEMMA ReadPair ==
  ASSUME NEW got \in Got, ~got.bad, NEW k \in KeyNames, NEW v \in Texts
  PROVE  ReadLine(got, <<k, "=">> \o v) = ReadField(got, <<k>>, v)
<1> DEFINE w == <<k, "=">> \o v
<1> DEFINE eq == SelectInSeq(w, LAMBDA ch : ch = "=")
<1>1. w # <<>> /\ eq = 2 /\ SubSeq(w, 1, 1) = <<k>> /\ SubSeq(w, 3, Len(w)) = v
  BY PairText
<1>2. ReadLine(got, w) =
        IF got.bad \/ w = <<>> THEN got
        ELSE IF eq = 0 THEN Bad(got)
        ELSE ReadField(got, SubSeq(w, 1, eq - 1), SubSeq(w, eq + 1, Len(w)))
  BY DEF ReadLine
<1> HIDE DEF w, eq
<1>3. eq - 1 = 1 /\ eq + 1 = 3 /\ eq # 0
  BY <1>1
<1>4. ReadLine(got, w) = ReadField(got, SubSeq(w, 1, eq - 1), SubSeq(w, eq + 1, Len(w)))
  BY <1>1, <1>2, <1>3
<1> QED
  BY <1>1, <1>3, <1>4 DEF w

\* A hash in lower case is a hash, one line, and stays as it is.
LEMMA LowerFacts ==
  ASSUME NEW s \in Texts, is_sha256_hex(s)
  PROVE  /\ OneLine(to_lower(s))
         /\ is_sha256_hex(to_lower(s))
         /\ to_lower(to_lower(s)) = to_lower(s)
<1> DEFINE low == to_lower(s)
<1>1. /\ low \in Texts /\ Len(low) = Len(s) /\ Len(s) \in Nat
      /\ \A i \in 1..Len(s) : low[i] = IF s[i] = "A" THEN "a" ELSE s[i]
  BY ToLowerIsText DEF Texts
<1>2. \A i \in 1..Len(s) : s[i] \in HexDigits
  <2>1. Range(s) = {s[i] : i \in 1..Len(s)}
    BY RangeEquality DEF Texts
  <2> QED BY <2>1 DEF is_sha256_hex
<1> HIDE DEF low
<1>3. \A i \in 1..Len(low) : low[i] \in HexDigits /\ low[i] # "A"
  BY <1>1, <1>2, CharFacts
<1>4. OneLine(low)
  BY <1>1, <1>3, CharFacts DEF OneLine
<1>5. is_sha256_hex(low)
  <2>1. Range(low) = {low[i] : i \in 1..Len(low)}
    BY <1>1, RangeEquality DEF Texts
  <2> QED BY <1>1, <1>3, <2>1 DEF is_sha256_hex
<1>6. to_lower(low) = low
  <2>1. /\ to_lower(low) \in Texts /\ Len(to_lower(low)) = Len(low)
        /\ \A i \in 1..Len(low) : to_lower(low)[i] = IF low[i] = "A" THEN "a" ELSE low[i]
    BY <1>1, ToLowerIsText
  <2>2. \A i \in 1..Len(low) : to_lower(low)[i] = low[i]
    BY <1>3, <2>1
  <2> QED BY <1>1, <2>1, <2>2, SeqEqual DEF Texts
<1> QED
  BY <1>4, <1>5, <1>6 DEF low

\* A size that fits is written as one line, and read back.
LEMMA SizeFacts ==
  ASSUME NEW n \in Nat, n <= MaxSize
  PROVE  /\ OneLine(NumberText[n])
         /\ ParsesFully(NumberText[n])
         /\ NumberOf(NumberText[n]) = n
<1> DEFINE t == NumberText[n]
<1>1. t \in Seq(Digits) /\ t # <<>> /\ NumberOf(t) = n
  BY NumberTextReads
<1> HIDE DEF t
<1>2. t \in Texts
  BY <1>1, CharFacts, SeqMonotonic DEF Texts
<1>3. \A i \in 1..Len(t) : t[i] \in Digits
  BY <1>1
<1>4. OneLine(t)
  BY <1>2, <1>3, CharFacts DEF OneLine
<1>5. Range(t) \subseteq Digits
  BY <1>1, RangeOfSeq
<1> QED
  BY <1>1, <1>4, <1>5 DEF ParsesFully, t

\* A safe name is one line.
LEMMA SafeNameIsOneLine ==
  ASSUME NEW name, SafeName(name)
  PROVE  OneLine(name)
BY DEF SafeName, OneLine, Controls

\* The text of a header is its four lines, each ended by a newline, and one more.
NameLine(h) == <<"name", "=">> \o sanitize_file_name(h.name)
SizeLine(h) == <<"size", "=">> \o NumberText[h.size]
HashLine(h) == <<"hash", "=">> \o to_lower(h.sha256_hex)

First(h)  == Append(<<Magic>>, "LF") \o NameLine(h)
Second(h) == Append(First(h), "LF") \o SizeLine(h)
Block(h)  == Append(Second(h), "LF") \o HashLine(h)

\* A header that a sender announces: its size is a uint64_t and its hash is one.
Proper(h) == h \in Header /\ h.size <= MaxSize /\ is_sha256_hex(h.sha256_hex)

\* The lines a header is made of, none of them empty.
LEMMA HeaderLines ==
  ASSUME NEW h, Proper(h)
  PROVE  /\ OneLine(<<Magic>>) /\ <<Magic>> # <<>>
         /\ OneLine(NameLine(h)) /\ NameLine(h) # <<>>
         /\ OneLine(SizeLine(h)) /\ SizeLine(h) # <<>>
         /\ OneLine(HashLine(h)) /\ HashLine(h) # <<>>
         /\ First(h) \in Texts /\ Second(h) \in Texts /\ Block(h) \in Texts
         /\ "LF" \in Chars
<1>1. h.name \in Texts /\ h.size \in Nat /\ h.size <= MaxSize /\ h.sha256_hex \in Texts
      /\ is_sha256_hex(h.sha256_hex)
  BY DEF Proper, Header
<1>2. "LF" \in Chars
  BY CharFacts
<1>3. OneLine(<<Magic>>) /\ <<Magic>> # <<>>
  <2>1. Magic \in Chars /\ Magic # "LF"
    BY CharFacts DEF Magic
  <2> QED BY <2>1 DEF OneLine, Texts
<1>4. OneLine(NameLine(h)) /\ NameLine(h) # <<>>
  <2>1. SafeName(sanitize_file_name(h.name))
    BY <1>1, SanitizedIsSafe
  <2>2. OneLine(sanitize_file_name(h.name)) /\ sanitize_file_name(h.name) \in Texts
    BY <2>1, SafeNameIsOneLine DEF OneLine
  <2> QED BY <2>2, PairText DEF NameLine, KeyNames
<1>5. OneLine(SizeLine(h)) /\ SizeLine(h) # <<>>
  <2>1. OneLine(NumberText[h.size]) /\ NumberText[h.size] \in Texts
    BY <1>1, SizeFacts DEF OneLine
  <2> QED BY <2>1, PairText DEF SizeLine, KeyNames
<1>6. OneLine(HashLine(h)) /\ HashLine(h) # <<>>
  <2>1. OneLine(to_lower(h.sha256_hex)) /\ to_lower(h.sha256_hex) \in Texts
    BY <1>1, LowerFacts DEF OneLine
  <2> QED BY <2>1, PairText DEF HashLine, KeyNames
<1>7. First(h) \in Texts
  BY <1>2, <1>3, <1>4, AppendText, JoinText DEF First, OneLine
<1>8. Second(h) \in Texts
  BY <1>2, <1>5, <1>7, AppendText, JoinText DEF Second, OneLine
<1>9. Block(h) \in Texts
  BY <1>2, <1>6, <1>8, AppendText, JoinText DEF Block, OneLine
<1> QED
  BY <1>2, <1>3, <1>4, <1>5, <1>6, <1>7, <1>8, <1>9

\* encode_file_header writes these lines, a newline after each, and one more.
LEMMA EncodedIs ==
  ASSUME NEW h, Proper(h)
  PROVE  encode_file_header(h) = Append(Append(Block(h), "LF"), "LF")
<1>1. /\ OneLine(NameLine(h)) /\ OneLine(SizeLine(h)) /\ OneLine(HashLine(h)) /\ OneLine(<<Magic>>)
      /\ First(h) \in Texts /\ Second(h) \in Texts /\ Block(h) \in Texts /\ "LF" \in Chars
  BY HeaderLines
<1>2. NameLine(h) \in Texts /\ SizeLine(h) \in Texts /\ HashLine(h) \in Texts /\ <<Magic>> \in Texts
      /\ <<"LF">> \in Texts
  BY <1>1 DEF OneLine, Texts
<1>3. \A t \in Texts : t \o <<"LF">> = Append(t, "LF")
  BY <1>1, AppendIsConcat DEF Texts
<1> DEFINE start == <<Magic, "LF">>
<1>4. start = Append(<<Magic>>, "LF") /\ start \in Texts
  <2>1. Append(<<Magic>>, "LF") \in Texts
    BY <1>1, <1>2, AppendText
  <2>2. start = Append(<<Magic>>, "LF")
    OBVIOUS
  <2> QED BY <2>1, <2>2
<1>5. /\ Line("name", sanitize_file_name(h.name)) = Append(NameLine(h), "LF")
      /\ Line("size", NumberText[h.size]) = Append(SizeLine(h), "LF")
      /\ Line("hash", to_lower(h.sha256_hex)) = Append(HashLine(h), "LF")
  BY <1>2, <1>3 DEF Line, NameLine, SizeLine, HashLine
<1>6. encode_file_header(h) =
        (((start \o Append(NameLine(h), "LF")) \o Append(SizeLine(h), "LF"))
           \o Append(HashLine(h), "LF")) \o <<"LF">>
  BY <1>5 DEF encode_file_header
<1> HIDE DEF start
<1>7. start \o Append(NameLine(h), "LF") = Append(First(h), "LF")
  BY <1>1, <1>2, <1>4, JoinAppend DEF First
<1>8. Append(First(h), "LF") \in Texts /\ Append(Second(h), "LF") \in Texts /\ Append(Block(h), "LF") \in Texts
  BY <1>1, AppendText
<1>9. Append(First(h), "LF") \o Append(SizeLine(h), "LF") = Append(Second(h), "LF")
  BY <1>1, <1>2, <1>8, JoinAppend DEF Second
<1>10. Append(Second(h), "LF") \o Append(HashLine(h), "LF") = Append(Block(h), "LF")
  BY <1>1, <1>2, <1>8, JoinAppend DEF Block
<1> QED
  BY <1>3, <1>6, <1>7, <1>8, <1>9, <1>10

\* There is no blank line among them.
LEMMA BlockIsTidy ==
  ASSUME NEW h, Proper(h)
  PROVE  Tidy(Append(Block(h), "LF"))
<1>1. /\ OneLine(NameLine(h)) /\ OneLine(SizeLine(h)) /\ OneLine(HashLine(h)) /\ OneLine(<<Magic>>)
      /\ NameLine(h) # <<>> /\ SizeLine(h) # <<>> /\ HashLine(h) # <<>> /\ <<Magic>> # <<>>
      /\ First(h) \in Texts /\ Second(h) \in Texts /\ Block(h) \in Texts /\ "LF" \in Chars
  BY HeaderLines
<1>2. NameLine(h) \in Texts /\ SizeLine(h) \in Texts /\ HashLine(h) \in Texts /\ <<Magic>> \in Texts
  BY <1>1 DEF OneLine
<1> DEFINE t0 == Append(<<Magic>>, "LF")
<1> DEFINE t1 == Append(NameLine(h), "LF")
<1> DEFINE t2 == Append(SizeLine(h), "LF")
<1> DEFINE t3 == Append(HashLine(h), "LF")
<1>3. /\ Tidy(t0)
      /\ Tidy(t1) /\ t1[1] # "LF" /\ Tidy(t2) /\ t2[1] # "LF" /\ Tidy(t3) /\ t3[1] # "LF"
  <2>1. Tidy(t0)
    BY <1>1, TidyLine
  <2>2. Tidy(t1) /\ t1[1] # "LF"
    BY <1>1, TidyLine
  <2>3. Tidy(t2) /\ t2[1] # "LF"
    BY <1>1, TidyLine
  <2>4. Tidy(t3) /\ t3[1] # "LF"
    BY <1>1, TidyLine
  <2> QED BY <2>1, <2>2, <2>3, <2>4
<1>4. t1 # <<>> /\ t2 # <<>> /\ t3 # <<>>
  <2>1. ASSUME NEW t \in Texts PROVE Append(t, "LF") # <<>>
    <3>1. "LF" \in Chars /\ t \in Seq(Chars)
      BY <1>1 DEF Texts
    <3> QED BY <3>1, AppendProperties
  <2> QED BY <1>2, <2>1
<1>5. t0 \in Texts /\ Append(First(h), "LF") \in Texts /\ Append(Second(h), "LF") \in Texts
  BY <1>1, <1>2, AppendText
<1>6. /\ Append(First(h), "LF") = t0 \o t1
      /\ Append(Second(h), "LF") = Append(First(h), "LF") \o t2
      /\ Append(Block(h), "LF") = Append(Second(h), "LF") \o t3
  <2> HIDE DEF t0
  <2>1. Append(First(h), "LF") = t0 \o t1
    BY <1>1, <1>2, <1>5, JoinAppend DEF First, t0
  <2>2. Append(Second(h), "LF") = Append(First(h), "LF") \o t2
    BY <1>1, <1>2, <1>5, JoinAppend DEF Second
  <2>3. Append(Block(h), "LF") = Append(Second(h), "LF") \o t3
    BY <1>1, <1>2, <1>5, JoinAppend DEF Block
  <2> QED BY <2>1, <2>2, <2>3
<1> HIDE DEF t0, t1, t2, t3
<1>7. Tidy(Append(First(h), "LF"))
  BY <1>3, <1>4, <1>6, TidyJoin
<1>8. Tidy(Append(Second(h), "LF"))
  BY <1>3, <1>4, <1>6, <1>7, TidyJoin
<1> QED
  BY <1>3, <1>4, <1>6, <1>8, TidyJoin

\* The header ends with its first blank line, and before it stands the block.
LEMMA EncodedEnds ==
  ASSUME NEW h, Proper(h)
  PROVE  LET s == encode_file_header(h)
         IN  /\ s \in Texts /\ Len(s) = Len(Block(h)) + 2 /\ Len(Block(h)) \in Nat
             /\ BlankLine(s) = Len(Block(h)) + 1
             /\ SubSeq(s, 1, Len(Block(h))) = Block(h)
<1> DEFINE b == Block(h)
<1> DEFINE n == Len(b)
<1> DEFINE u == Append(b, "LF")
<1> DEFINE s == Append(u, "LF")
<1>1. "LF" \in Chars /\ b \in Texts
  BY HeaderLines
<1>2. encode_file_header(h) = s
  BY EncodedIs
<1>3. Tidy(u)
  BY BlockIsTidy
<1> HIDE DEF b
<1>4. /\ u \in Texts /\ Len(u) = n + 1 /\ n \in Nat /\ u[n + 1] = "LF"
      /\ \A i \in 1..n : u[i] = b[i]
  BY <1>1, AppendText
<1> HIDE DEF u
<1>5. /\ s \in Texts /\ Len(s) = Len(u) + 1 /\ s[Len(u) + 1] = "LF"
      /\ \A i \in 1..Len(u) : s[i] = u[i]
  BY <1>1, <1>4, AppendText
<1> HIDE DEF s, n
<1>6. Len(s) = n + 2 /\ s[n + 1] = "LF" /\ s[(n + 1) + 1] = "LF"
  BY <1>4, <1>5
<1>7. BlankLine(s) = n + 1
  <2>1. n + 1 \in 1..(Len(s) - 1) /\ BlankAt(s, n + 1)
    BY <1>4, <1>6 DEF BlankAt
  <2>2. \A i \in 1..((n + 1) - 1) : ~BlankAt(s, i)
    <3> SUFFICES ASSUME NEW i \in 1..((n + 1) - 1), BlankAt(s, i) PROVE FALSE
      OBVIOUS
    <3>1. i \in 1..Len(u) /\ i + 1 \in 1..Len(u) /\ i \in 1..(Len(u) - 1)
      BY <1>4
    <3>2. BlankAt(u, i)
      BY <1>5, <3>1 DEF BlankAt
    <3> QED BY <1>3, <3>1, <3>2 DEF Tidy
  <2> QED BY <1>5, <2>1, <2>2, BlankLineIs
<1>8. SubSeq(s, 1, n) = b
  <2> DEFINE p == SubSeq(s, 1, n)
  <2>1. \A i \in 1..n : s[i] = b[i] /\ b[i] \in Chars
    BY <1>1, <1>4, <1>5 DEF Texts, n
  <2>2. \A i \in 1..n : s[i] \in Chars
    BY <2>1
  <2>3. /\ p \in Seq(Chars) /\ Len(p) = IF 1 <= n THEN n - 1 + 1 ELSE 0
        /\ \A i \in 1..(n - 1 + 1) : p[i] = s[1 + i - 1]
    BY <1>4, <2>2, SubSeqProperties
  <2> HIDE DEF p
  <2>4. Len(p) = n
    BY <1>4, <2>3
  <2>5. \A i \in 1..Len(p) : p[i] = b[i]
    BY <1>4, <2>1, <2>3, <2>4
  <2>6. p = b
    BY <1>1, <2>3, <2>4, <2>5, SeqEqual DEF Texts, n
  <2> QED BY <2>6 DEF p
<1> QED
  BY <1>2, <1>4, <1>5, <1>6, <1>7, <1>8 DEF n, b

\* Read line by line, it is the lines that were written.
LEMMA BlockLines ==
  ASSUME NEW h, Proper(h)
  PROVE  /\ Head(Lines(Block(h))) = <<Magic>>
         /\ Tail(Lines(Block(h))) =
              Append(Append(Append(<<>>, NameLine(h)), SizeLine(h)), HashLine(h))
<1>1. /\ OneLine(NameLine(h)) /\ OneLine(SizeLine(h)) /\ OneLine(HashLine(h)) /\ OneLine(<<Magic>>)
      /\ First(h) \in Texts /\ Second(h) \in Texts /\ Block(h) \in Texts
  BY HeaderLines
<1>2. Lines(<<Magic>>) = << <<Magic>> >>
  BY <1>1, FirstLine
<1>3. Lines(First(h)) = Append(<< <<Magic>> >>, NameLine(h))
  <2>1. <<Magic>> \in Texts
    BY <1>1 DEF OneLine
  <2> QED BY <1>1, <1>2, <2>1, NextLine DEF First
<1>4. Lines(Second(h)) = Append(Append(<< <<Magic>> >>, NameLine(h)), SizeLine(h))
  BY <1>1, <1>3, NextLine DEF Second
<1>5. Lines(Block(h)) = Append(Append(Append(<< <<Magic>> >>, NameLine(h)), SizeLine(h)), HashLine(h))
  BY <1>1, <1>4, NextLine DEF Block
<1> DEFINE one == Append(<< <<Magic>> >>, NameLine(h))
<1> DEFINE two == Append(one, SizeLine(h))
<1> DEFINE all == Append(two, HashLine(h))
<1>6. NameLine(h) \in Texts /\ SizeLine(h) \in Texts /\ HashLine(h) \in Texts /\ <<Magic>> \in Texts
  BY <1>1 DEF OneLine
<1>7. << <<Magic>> >> \in Seq(Texts) /\ << <<Magic>> >> # <<>>
      /\ Head(<< <<Magic>> >>) = <<Magic>> /\ Tail(<< <<Magic>> >>) = <<>>
  BY <1>6
<1>8. /\ one \in Seq(Texts) /\ one # <<>>
      /\ Head(one) = <<Magic>> /\ Tail(one) = Append(<<>>, NameLine(h))
  <2> DEFINE m == << <<Magic>> >>
  <2>1. m \in Seq(Texts) /\ m # <<>> /\ Head(m) = <<Magic>> /\ Tail(m) = <<>>
    BY <1>7
  <2> HIDE DEF m
  <2>2. Append(m, NameLine(h)) \in Seq(Texts) /\ Append(m, NameLine(h)) # <<>>
    BY <1>6, <2>1, AppendProperties
  <2>3. /\ Head(Append(m, NameLine(h))) = Head(m)
        /\ Tail(Append(m, NameLine(h))) = Append(Tail(m), NameLine(h))
    BY <2>1, HeadTailAppend
  <2> QED BY <2>1, <2>2, <2>3 DEF m
<1> HIDE DEF one
<1>9. /\ two \in Seq(Texts) /\ two # <<>>
      /\ Head(two) = <<Magic>> /\ Tail(two) = Append(Append(<<>>, NameLine(h)), SizeLine(h))
  <2>1. two \in Seq(Texts) /\ two # <<>>
    BY <1>6, <1>8, AppendProperties
  <2>2. Head(two) = Head(one) /\ Tail(two) = Append(Tail(one), SizeLine(h))
    BY <1>8, HeadTailAppend
  <2> QED BY <1>8, <2>1, <2>2
<1> HIDE DEF two
<1>10. /\ Head(all) = <<Magic>>
      /\ Tail(all) = Append(Append(Append(<<>>, NameLine(h)), SizeLine(h)), HashLine(h))
  BY <1>6, <1>9, HeadTailAppend
<1> QED
  BY <1>5, <1>10 DEF two, one

\* decode_file_header inverts encode_file_header, but for the name, which it
\* sanitizes again, and the case of the hash.
LEMMA EncodedDecodes ==
  ASSUME NEW h, Proper(h)
  PROVE  decode_file_header(encode_file_header(h)) =
           [ok |-> TRUE, header |-> Canonical(h), header_byte_count |-> Len(encode_file_header(h))]
<1> DEFINE s == encode_file_header(h)
<1> DEFINE n == Len(Block(h))
<1> DEFINE name == sanitize_file_name(h.name)
<1> DEFINE digits == NumberText[h.size]
<1> DEFINE hash == to_lower(h.sha256_hex)
<1>1. s \in Texts /\ Len(s) = n + 2 /\ n \in Nat /\ BlankLine(s) = n + 1 /\ SubSeq(s, 1, n) = Block(h)
  BY EncodedEnds
<1>2. h.name \in Texts /\ h.size \in Nat /\ h.size <= MaxSize /\ h.sha256_hex \in Texts
      /\ is_sha256_hex(h.sha256_hex)
  BY DEF Proper, Header
<1>3. SafeName(name) /\ name \in Texts /\ sanitize_file_name(name) = name
  <2>1. SafeName(name)
    BY <1>2, SanitizedIsSafe
  <2> QED BY <2>1, SafeNameStays DEF SafeName
<1>4. digits \in Texts /\ ParsesFully(digits) /\ NumberOf(digits) = h.size
  BY <1>2, SizeFacts DEF OneLine
<1>5. hash \in Texts /\ is_sha256_hex(hash) /\ to_lower(hash) = hash
  BY <1>2, LowerFacts DEF OneLine
<1> HIDE DEF name, digits, hash
<1> DEFINE g1 == [NothingRead EXCEPT !.header.name = name, !.seen = @ \cup {<<"name">>}]
<1> DEFINE g2 == [g1 EXCEPT !.header.size = h.size, !.seen = @ \cup {<<"size">>}]
<1> DEFINE g3 == [g2 EXCEPT !.header.sha256_hex = hash, !.seen = @ \cup {<<"hash">>}]
<1>6. NothingRead \in Got /\ ~NothingRead.bad
  BY ReadStepType DEF IsStep, NothingRead
<1>7. ReadLine(NothingRead, NameLine(h)) = g1
  <2>1. ReadLine(NothingRead, NameLine(h)) = ReadField(NothingRead, <<"name">>, name)
    BY <1>3, <1>6, ReadPair DEF NameLine, name, KeyNames
  <2>2. ReadField(NothingRead, <<"name">>, name) = g1
    BY <1>3 DEF ReadField, Counts
  <2> QED BY <2>1, <2>2
<1>8. g1 \in Got /\ ~g1.bad
  BY <1>3, <1>6 DEF Got, Header, NothingRead, NoHeader, Keys
<1>9. ReadLine(g1, SizeLine(h)) = g2
  <2> HIDE DEF g1
  <2>1. ReadLine(g1, SizeLine(h)) = ReadField(g1, <<"size">>, digits)
    BY <1>4, <1>8, ReadPair DEF SizeLine, digits, KeyNames
  <2>2. <<"size">> # <<"name">>
    OBVIOUS
  <2>3. ReadField(g1, <<"size">>, digits) = g2
    BY <1>4, <2>2 DEF ReadField, Counts
  <2> QED BY <2>1, <2>3
<1>10. g2 \in Got /\ ~g2.bad
  <2> HIDE DEF g1
  <2> QED BY <1>2, <1>8 DEF Got, Header, Keys
<1>11. ReadLine(g2, HashLine(h)) = g3
  <2> HIDE DEF g1, g2
  <2>1. ReadLine(g2, HashLine(h)) = ReadField(g2, <<"hash">>, hash)
    BY <1>5, <1>10, ReadPair DEF HashLine, hash, KeyNames
  <2>2. <<"hash">> # <<"name">> /\ <<"hash">> # <<"size">>
    OBVIOUS
  <2>3. ReadField(g2, <<"hash">>, hash) = g3
    BY <1>5, <2>2 DEF ReadField, Counts
  <2> QED BY <2>1, <2>3
<1>12. g3.seen = Keys /\ g3.bad = FALSE /\ g3.header = Canonical(h)
  <2>1. g3.seen = Keys
    BY DEF NothingRead, Keys
  <2>2. g3.bad = FALSE
    BY DEF NothingRead
  <2>3. g3.header = [name |-> name, size |-> h.size, sha256_hex |-> hash]
    BY DEF NothingRead, NoHeader
  <2> QED BY <2>1, <2>2, <2>3 DEF Canonical, name, hash
<1>13. ReadBlock(Block(h)) = g3
  <2> DEFINE none == <<>>
  <2> DEFINE one == Append(none, NameLine(h))
  <2> DEFINE two == Append(one, SizeLine(h))
  <2> DEFINE all == Append(two, HashLine(h))
  <2> HIDE DEF g1, g2, g3
  <2>1. Head(Lines(Block(h))) = <<Magic>> /\ Tail(Lines(Block(h))) = all
    BY BlockLines
  <2>2. NameLine(h) \in Texts /\ SizeLine(h) \in Texts /\ HashLine(h) \in Texts
    BY HeaderLines DEF OneLine
  <2>3. none \in Seq(Texts) /\ one \in Seq(Texts) /\ two \in Seq(Texts)
    BY <2>2, AppendProperties
  <2>4. ReadLines(none) = NothingRead
    BY <2>2, <2>3, ReadLinesOfAppend
  <2> HIDE DEF none
  <2>5. ReadLines(one) = g1
    BY <1>7, <2>2, <2>3, <2>4, ReadLinesOfAppend
  <2> HIDE DEF one
  <2>6. ReadLines(two) = g2
    BY <1>9, <2>2, <2>3, <2>5, ReadLinesOfAppend
  <2> HIDE DEF two
  <2>7. ReadLines(all) = g3
    BY <1>11, <2>2, <2>3, <2>6, ReadLinesOfAppend
  <2> HIDE DEF all
  <2> QED BY <2>1, <2>7 DEF ReadBlock, ReadLines
<1>14. Cardinality(g3.seen) = 3
  BY <1>12, KeysAreThree
<1> HIDE DEF g1, g2, g3, s, n
<1>15. BlankLine(s) - 1 = n /\ BlankLine(s) # 0 /\ BlankLine(s) + 1 = Len(s)
  BY <1>1
<1>16. ReadBlock(SubSeq(s, 1, BlankLine(s) - 1)) = g3
  BY <1>1, <1>13, <1>15
<1> DEFINE end == BlankLine(s)
<1> DEFINE got == ReadBlock(SubSeq(s, 1, end - 1))
<1>17. decode_file_header(s) =
         IF end = 0 \/ got.bad \/ Cardinality(got.seen) < 3 THEN NotDecoded
         ELSE [ok |-> TRUE, header |-> got.header, header_byte_count |-> end + 1]
  BY DEF decode_file_header
<1>18. end # 0 /\ end + 1 = Len(s) /\ got = g3
  BY <1>15, <1>16
<1> HIDE DEF end, got
<1>19. got.bad = FALSE /\ Cardinality(got.seen) = 3 /\ got.header = Canonical(h)
  BY <1>12, <1>14, <1>18
<1>20. ~(Cardinality(got.seen) < 3)
  BY <1>19
<1>21. decode_file_header(s) = [ok |-> TRUE, header |-> got.header, header_byte_count |-> end + 1]
  BY <1>17, <1>18, <1>19, <1>20
<1> QED
  BY <1>18, <1>19, <1>21 DEF s

-----------------------------------------------------------------------------
(* A header arrives in pieces.                                             *)

\* Joining is associative, and can be undone.
LEMMA JoinJoin ==
  ASSUME NEW a \in Texts, NEW b \in Texts, NEW c \in Texts
  PROVE  (a \o b) \o c = a \o (b \o c)
BY ConcatAssociative DEF Texts

LEMMA JoinCancel ==
  ASSUME NEW a \in Texts, NEW b \in Texts, NEW c \in Texts, a \o b = a \o c
  PROVE  b = c
BY ConcatSimplifications DEF Texts

\* A text cut in two is joined again.
LEMMA CutAt ==
  ASSUME NEW t \in Texts, NEW n \in 0..Len(t)
  PROVE  /\ SubSeq(t, 1, n) \in Texts /\ SubSeq(t, n + 1, Len(t)) \in Texts
         /\ SubSeq(t, 1, n) \o SubSeq(t, n + 1, Len(t)) = t
<1>1. Len(t) \in Nat
  BY DEF Texts
<1> DEFINE m == Len(t)
<1>2. 1 \in 1..(m + 1) /\ n \in 0..m /\ n \in (1 - 1)..m /\ n + 1 \in 1..(m + 1) /\ m \in 0..m /\ m \in n..m
  BY <1>1
<1>3. SubSeq(t, 1, n) \in Texts /\ SubSeq(t, n + 1, m) \in Texts
  BY <1>2, PartIsText
<1>4. t \in Seq(Chars)
  BY DEF Texts
<1>5. SubSeq(t, 1, n) \o SubSeq(t, n + 1, m) = SubSeq(t, 1, m)
  BY <1>2, <1>4, ConcatAdjacentSubSeq
<1> QED
  BY <1>3, <1>4, <1>5, SubSeqFull

\* Two ways to cut one text: the longer front continues the shorter one.
LEMMA ShorterFront ==
  ASSUME NEW a \in Texts, NEW b \in Texts, NEW c \in Texts, NEW d \in Texts,
         a \o b = c \o d, Len(a) <= Len(c)
  PROVE  SubSeq(c, 1, Len(a)) = a
<1>1. Len(a) \in Nat /\ Len(c) \in Nat
  BY DEF Texts
<1>2. CASE Len(a) = 0
  <2>1. a = <<>>
    BY <1>2, EmptySeq DEF Texts
  <2>2. SubSeq(c, 1, 0) = <<>>
    BY SubSeqEmpty
  <2> QED BY <1>2, <2>1, <2>2
<1>3. CASE Len(a) # 0
  <2>1. 1 \in 1..Len(a) /\ Len(a) \in 1..Len(a) /\ 1 \in 1..Len(c) /\ Len(a) \in 1..Len(c)
    BY <1>1, <1>3
  <2>2. SubSeq(a \o b, 1, Len(a)) = SubSeq(a, 1, Len(a))
    BY <2>1, SubSeqOfConcat1 DEF Texts
  <2>3. SubSeq(c \o d, 1, Len(a)) = SubSeq(c, 1, Len(a))
    BY <2>1, SubSeqOfConcat1 DEF Texts
  <2>4. SubSeq(a, 1, Len(a)) = a
    BY SubSeqFull DEF Texts
  <2> QED BY <2>2, <2>3, <2>4
<1> QED
  BY <1>2, <1>3

\* Concatenation, and what follows a front of c's length in text a, under names
\* the provers do not expand.
Glue(a, b) == a \o b

Beyond(a, c) == SubSeq(a, Len(c) + 1, Len(a))

LEMMA LongerFront ==
  ASSUME NEW a \in Texts, NEW b \in Texts, NEW c \in Texts, NEW d \in Texts,
         Glue(a, b) = Glue(c, d), Len(c) <= Len(a)
  PROVE  /\ Beyond(a, c) \in Texts
         /\ Glue(c, Beyond(a, c)) = a
         /\ Glue(Beyond(a, c), b) = d
<1> DEFINE x == Beyond(a, c)
<1>1. Len(a) \in Nat /\ Len(c) \in Nat
  BY DEF Texts
<1>2. a \o b = c \o d
  BY DEF Glue
<1>3. SubSeq(a, 1, Len(c)) = c
  BY <1>2, ShorterFront
<1>4. Len(c) \in 0..Len(a)
  BY <1>1
<1>5. x \in Texts /\ c \o x = a
  BY <1>3, <1>4, CutAt DEF Beyond
<1> HIDE DEF x
<1>6. c \o (x \o b) = c \o d
  <2>1. (c \o x) \o b = c \o (x \o b)
    <3>1. x \in Texts
      BY <1>5
    <3> QED BY <3>1, JoinJoin, SMTT(30)
  <2> QED BY <1>2, <1>5, <2>1
<1>7. x \o b \in Texts
  BY <1>5, JoinText
<1>8. x \o b = d
  BY <1>6, <1>7, JoinCancel
<1> QED
  BY <1>5, <1>8 DEF x, Glue

\* decode_file_header recovers the header that encode_file_header wrote, whatever
\* follows it in the buffer: the name as sanitize_file_name makes it, the size, and
\* the hash in lower case.
THEOREM DecodeInvertsEncode ==
  ASSUME NEW h, Proper(h), NEW x \in Texts
  PROVE  decode_file_header(encode_file_header(h) \o x) =
           [ok |-> TRUE, header |-> Canonical(h), header_byte_count |-> Len(encode_file_header(h))]
<1>1. /\ encode_file_header(h) \in Texts
      /\ BlankLine(encode_file_header(h)) = Len(Block(h)) + 1 /\ Len(Block(h)) \in Nat
  BY EncodedEnds
<1>2. BlankLine(encode_file_header(h)) # 0
  BY <1>1
<1>3. decode_file_header(encode_file_header(h) \o x) = decode_file_header(encode_file_header(h))
  BY <1>1, <1>2, BlankLineStays
<1> QED
  BY <1>3, EncodedDecodes

\* Less than a header decodes to nothing.
LEMMA PartOfHeader ==
  ASSUME NEW h, Proper(h), NEW a \in Texts, NEW y \in Texts,
         encode_file_header(h) = a \o y, Len(a) < Len(encode_file_header(h))
  PROVE  decode_file_header(a) = NotDecoded
<1> DEFINE s == encode_file_header(h)
<1>1. s \in Texts /\ Len(s) = Len(Block(h)) + 2 /\ BlankLine(s) = Len(Block(h)) + 1 /\ Len(Block(h)) \in Nat
  BY EncodedEnds
<1>2. BlankLine(a) = 0
  <2> SUFFICES ASSUME BlankLine(a) # 0 PROVE FALSE
    OBVIOUS
  <2>1. BlankLine(a) \in 1..(Len(a) - 1)
    BY BlankLineFound
  <2>2. BlankLine(s) = BlankLine(a)
    BY BlankLineStays
  <2>3. Len(a) \in Nat
    BY DEF Texts
  <2> QED BY <1>1, <2>1, <2>2, <2>3
<1> QED
  BY <1>2 DEF decode_file_header

\* Of a header and what follows it some text has arrived: it decodes to the header
\* when that is whole, and to nothing before.
LEMMA SomeOfHeader ==
  ASSUME NEW h, Proper(h), NEW text \in Texts, NEW rest \in Texts, NEW b \in Texts,
         text \o rest = encode_file_header(h) \o b
  PROVE  /\ Len(text) < Len(encode_file_header(h)) => decode_file_header(text) = NotDecoded
         /\ Len(encode_file_header(h)) <= Len(text) =>
              /\ decode_file_header(text) =
                   [ok |-> TRUE, header |-> Canonical(h), header_byte_count |-> Len(encode_file_header(h))]
              /\ b = SubSeq(text, Len(encode_file_header(h)) + 1, Len(text)) \o rest
<1> DEFINE s == encode_file_header(h)
<1>1. s \in Texts /\ text \o rest = s \o b
  BY EncodedEnds
<1>2. Len(s) \in Nat /\ Len(text) \in Nat
  BY <1>1 DEF Texts
<1> HIDE DEF s
<1>3. Glue(text, rest) = Glue(s, b)
  BY <1>1 DEF Glue
<1>4. ASSUME Len(text) < Len(s) PROVE decode_file_header(text) = NotDecoded
  <2>1. Len(text) <= Len(s)
    BY <1>2, <1>4
  <2> DEFINE y == Beyond(s, text)
  <2>2. y \in Texts /\ Glue(text, y) = s
    BY <1>1, <1>3, <2>1, LongerFront
  <2>3. s = text \o y
    BY <2>2 DEF Glue
  <2> HIDE DEF y
  <2> QED BY <1>4, <2>2, <2>3, PartOfHeader DEF s
<1>5. ASSUME Len(s) <= Len(text)
      PROVE  /\ decode_file_header(text) =
                  [ok |-> TRUE, header |-> Canonical(h), header_byte_count |-> Len(s)]
             /\ b = SubSeq(text, Len(s) + 1, Len(text)) \o rest
  <2> DEFINE x == Beyond(text, s)
  <2>1. x \in Texts /\ Glue(s, x) = text /\ Glue(x, rest) = b
    BY <1>1, <1>3, <1>5, LongerFront
  <2>2. x \in Texts /\ s \o x = text /\ x \o rest = b
    BY <2>1 DEF Glue
  <2> HIDE DEF x
  <2>3. decode_file_header(s \o x) =
          [ok |-> TRUE, header |-> Canonical(h), header_byte_count |-> Len(s)]
    BY <2>2, DecodeInvertsEncode DEF s
  <2> QED BY <2>2, <2>3 DEF x, Beyond
<1> QED
  BY <1>4, <1>5 DEF s

\* What a sender announces is sent as text.
LEMMA EncodedIsText ==
  ASSUME NEW h \in Headers
  PROVE  encode_file_header(h) \in Texts
<1>1. h.name \in Texts /\ h.size \in Nat /\ h.sha256_hex \in Texts
  BY CodecAssumption DEF Header
<1>2. sanitize_file_name(h.name) \in Texts
  BY <1>1, SanitizedIsSafe DEF SafeName
<1>3. NumberText[h.size] \in Texts
  <2>1. NumberText[h.size] \in Seq(Digits)
    BY <1>1, NumberTextReads
  <2> QED BY <2>1, CharFacts, SeqMonotonic DEF Texts
<1>4. to_lower(h.sha256_hex) \in Texts
  BY <1>1, ToLowerIsText
<1>5. ASSUME NEW k \in KeyNames, NEW v \in Texts PROVE Line(k, v) \in Texts
  <2>1. "LF" \in Chars
    BY CharFacts
  <2>2. <<"LF">> \in Texts
    BY <2>1 DEF Texts
  <2>3. <<k, "=">> \o v \in Texts
    BY PairText
  <2>4. (<<k, "=">> \o v) \o <<"LF">> \in Texts
    BY <2>2, <2>3, JoinText
  <2> QED BY <2>4 DEF Line
<1>6. <<Magic, "LF">> \in Texts /\ <<"LF">> \in Texts
  <2>1. "LF" \in Chars /\ Magic \in Chars
    BY CharFacts
  <2> QED BY <2>1 DEF Texts
<1> DEFINE l1 == Line("name", sanitize_file_name(h.name))
<1> DEFINE l2 == Line("size", NumberText[h.size])
<1> DEFINE l3 == Line("hash", to_lower(h.sha256_hex))
<1>7. l1 \in Texts /\ l2 \in Texts /\ l3 \in Texts
  BY <1>2, <1>3, <1>4, <1>5 DEF KeyNames
<1>8. encode_file_header(h) = (((<<Magic, "LF">> \o l1) \o l2) \o l3) \o <<"LF">>
  BY DEF encode_file_header
<1> HIDE DEF l1, l2, l3
<1>9. ((<<Magic, "LF">> \o l1) \o l2) \o l3 \in Texts
  BY <1>6, <1>7, JoinText
<1> QED
  BY <1>6, <1>8, <1>9, JoinText

TypeInv ==
  /\ announced \in Headers \cup {NoHeader}
  /\ to_come \in Texts /\ buffer \in Texts /\ body \in Texts
  /\ phase \in Phases
  /\ file_header \in Header

SafeInv == phase = "parsed" => SafeName(file_header.name)

UndecidedInv == phase = "reading" => ~decode_file_header(buffer).ok

Announcing == announced # NoHeader /\ is_sha256_hex(announced.sha256_hex)

SentInv ==
  Announcing =>
    \E b \in Bodies :
      /\ phase = "reading" => buffer \o to_come = Sent \o b /\ Len(buffer) < Len(Sent)
      /\ phase = "parsed"  => file_header = Canonical(announced) /\ b = body \o to_come
      /\ phase = "refused" => Len(Sent) > MaxHeaderBytes

CodecInv == TypeInv /\ SafeInv /\ UndecidedInv /\ SentInv

\* A sender that announces a SHA-256 hash announces a proper header.
LEMMA AnnouncedIsProper ==
  ASSUME announced \in Headers
  PROVE  is_sha256_hex(announced.sha256_hex) => Proper(announced)
BY CodecAssumption DEF Proper

\* At the beginning nothing has been read.
LEMMA InitCodecInv == Init => CodecInv
<1> SUFFICES ASSUME Init PROVE CodecInv
  OBVIOUS
<1>1. buffer = <<>> /\ phase = "reading" /\ file_header = NoHeader /\ body = <<>>
  BY DEF Init
<1>2. \/ \E h \in Headers, b \in Bodies : announced = h /\ to_come = encode_file_header(h) \o b
      \/ \E t \in OddTexts : announced = NoHeader /\ to_come = t
  BY DEF Init
<1>3. <<>> \in Texts /\ NoHeader \in Header
  BY DEF Texts, NoHeader, Header
<1>4. to_come \in Texts /\ announced \in Headers \cup {NoHeader}
  <2>1. ASSUME NEW h \in Headers, NEW b \in Bodies PROVE encode_file_header(h) \o b \in Texts
    BY CodecAssumption, EncodedIsText, JoinText
  <2> QED BY <1>2, <2>1, CodecAssumption
<1>5. TypeInv
  BY <1>1, <1>3, <1>4 DEF TypeInv, Phases
<1>6. UndecidedInv
  <2>1. BlankLine(<<>>) = 0
    <3>1. BlankLine(<<>>) \in 0..Len(<<>>) /\ Len(<<>>) = 0
      BY <1>3, BlankLineFound
    <3> QED BY <3>1
  <2> QED BY <1>1, <2>1 DEF UndecidedInv, decode_file_header, NotDecoded
<1>7. SentInv
  <2> SUFFICES ASSUME Announcing
               PROVE  \E b \in Bodies : buffer \o to_come = Sent \o b /\ Len(buffer) < Len(Sent)
    BY <1>1 DEF SentInv
  <2>1. announced \in Headers /\ Proper(announced)
    BY <1>4, AnnouncedIsProper DEF Announcing
  <2>2. PICK b \in Bodies : to_come = encode_file_header(announced) \o b
    BY <1>2 DEF Announcing
  <2>3. buffer \o to_come = to_come
    BY <1>1, <1>4, ConcatEmptySeq DEF Texts
  <2>4. Len(Sent) = Len(Block(announced)) + 2 /\ Len(Block(announced)) \in Nat
    BY <2>1, EncodedEnds DEF Sent
  <2>5. Len(buffer) < Len(Sent)
    BY <1>1, <2>4
  <2> QED BY <2>2, <2>3, <2>5 DEF Sent
<1> QED
  BY <1>1, <1>5, <1>6, <1>7 DEF CodecInv, SafeInv

\* append_file_bytes keeps CodecInv, wherever the receive events cut the text.
LEMMA StepCodecInv == CodecInv /\ [Next]_vars => CodecInv'
<1> SUFFICES ASSUME CodecInv, [Next]_vars PROVE CodecInv'
  OBVIOUS
<1>1. /\ TypeInv /\ SafeInv /\ UndecidedInv /\ SentInv
      /\ announced \in Headers \cup {NoHeader}
      /\ to_come \in Texts /\ buffer \in Texts /\ body \in Texts
      /\ phase \in Phases /\ file_header \in Header
  BY DEF CodecInv, TypeInv
<1>2. CASE UNCHANGED vars
  BY <1>1, <1>2 DEF vars, CodecInv, TypeInv, SafeInv, UndecidedInv, SentInv, Announcing, Sent
<1>3. CASE AllRead
  BY <1>2, <1>3 DEF AllRead
<1>4. ASSUME NEW n \in 1..Len(to_come), append_file_bytes(n) PROVE CodecInv'
  <2> DEFINE data == SubSeq(to_come, 1, n)
  <2> DEFINE rest == SubSeq(to_come, n + 1, Len(to_come))
  <2> DEFINE text == buffer \o data
  <2> DEFINE got == decode_file_header(text)
  <2> DEFINE after == SubSeq(text, got.header_byte_count + 1, Len(text))
  <2>1. /\ announced' = announced /\ to_come' = rest
        /\ \/ phase = "reading" /\ try_parse_file_header(text)
           \/ phase = "parsed" /\ body' = body \o data /\ UNCHANGED <<buffer, phase, file_header>>
           \/ phase = "refused" /\ UNCHANGED <<buffer, phase, file_header, body>>
    BY <1>4 DEF append_file_bytes
  <2>2. data \in Texts /\ rest \in Texts /\ data \o rest = to_come
    <3>1. n \in 0..Len(to_come)
      BY <1>1 DEF Texts
    <3> QED BY <1>1, <3>1, CutAt
  <2> HIDE DEF data, rest
  <2>3. text \in Texts /\ text \o rest = buffer \o to_come
    <3>1. text \in Texts
      BY <1>1, <2>2, JoinText
    <3>2. (buffer \o data) \o rest = buffer \o (data \o rest)
      <4>1. buffer \in Texts /\ data \in Texts /\ rest \in Texts
        BY <1>1, <2>2
      <4> QED BY <4>1, JoinJoin
    <3> QED BY <2>2, <3>1, <3>2
  <2> HIDE DEF text
  <2>4. got.ok => /\ got.header \in Header /\ SafeName(got.header.name)
                  /\ got.header_byte_count \in 0..Len(text)
    BY <2>3, DecodedIsSafe
  <2>5. got.ok => after \in Texts
    <3> HIDE DEF got
    <3> SUFFICES ASSUME got.ok PROVE after \in Texts
      OBVIOUS
    <3> QED BY <2>3, <2>4, CutAt
  <2>6. phase = "reading" =>
          \/ /\ ~got.ok /\ Len(text) > MaxHeaderBytes
             /\ phase' = "refused" /\ buffer' = <<>> /\ UNCHANGED <<file_header, body>>
          \/ /\ got.ok
             /\ phase' = "parsed" /\ file_header' = got.header /\ body' = after /\ buffer' = <<>>
          \/ /\ ~got.ok
             /\ phase' = "reading" /\ buffer' = text /\ UNCHANGED <<file_header, body>>
    <3> SUFFICES ASSUME phase = "reading" PROVE
          \/ /\ ~got.ok /\ Len(text) > MaxHeaderBytes
             /\ phase' = "refused" /\ buffer' = <<>> /\ UNCHANGED <<file_header, body>>
          \/ /\ got.ok
             /\ phase' = "parsed" /\ file_header' = got.header /\ body' = after /\ buffer' = <<>>
          \/ /\ ~got.ok
             /\ phase' = "reading" /\ buffer' = text /\ UNCHANGED <<file_header, body>>
      OBVIOUS
    <3>1. try_parse_file_header(text)
      BY <2>1
    <3> QED BY <3>1 DEF try_parse_file_header, TooLong
  <2> HIDE DEF got, after
  <2>7. <<>> \in Texts
    BY DEF Texts
  <2>8. TypeInv'
    <3>1. body \o data \in Texts
      BY <1>1, <2>2, JoinText
    <3>2. announced' \in Headers \cup {NoHeader} /\ to_come' \in Texts
      BY <1>1, <2>1, <2>2
    <3>3. buffer' \in Texts /\ body' \in Texts /\ phase' \in Phases /\ file_header' \in Header
      BY <1>1, <2>1, <2>3, <2>4, <2>5, <2>6, <2>7, <3>1 DEF Phases
    <3> QED BY <3>2, <3>3 DEF TypeInv
  <2>9. SafeInv'
    BY <1>1, <2>1, <2>4, <2>6 DEF SafeInv
  <2>10. UndecidedInv'
    <3> SUFFICES ASSUME phase' = "reading" PROVE ~decode_file_header(buffer').ok
      BY DEF UndecidedInv
    <3>1. ~got.ok /\ buffer' = text
      BY <2>1, <2>6
    <3> QED BY <3>1 DEF got
  <2>11. SentInv'
    <3> SUFFICES ASSUME Announcing PROVE SentInv'
      BY <2>1 DEF SentInv, Announcing
    <3>1. announced \in Headers /\ Proper(announced)
      BY <1>1, AnnouncedIsProper DEF Announcing
    <3>2. Sent' = Sent /\ Sent \in Texts /\ Len(Sent) \in Nat
      BY <2>1, <3>1, EncodedIsText DEF Sent, Texts
    <3>3. PICK b \in Bodies :
            /\ phase = "reading" => buffer \o to_come = Sent \o b /\ Len(buffer) < Len(Sent)
            /\ phase = "parsed"  => file_header = Canonical(announced) /\ b = body \o to_come
            /\ phase = "refused" => Len(Sent) > MaxHeaderBytes
      BY <1>1 DEF SentInv
    <3>4. b \in Texts
      BY CodecAssumption
    <3>5. \A c \in Bodies :
            /\ phase' = "reading" => buffer' \o to_come' = Sent \o c /\ Len(buffer') < Len(Sent)
            /\ phase' = "parsed"  => file_header' = Canonical(announced) /\ c = body' \o to_come'
            /\ phase' = "refused" => Len(Sent) > MaxHeaderBytes
            => SentInv'
      BY <2>1, <3>2 DEF SentInv
    <3>6. CASE phase = "refused"
      BY <2>1, <3>3, <3>5, <3>6
    <3>7. CASE phase = "parsed"
      <4>1. b = (body \o data) \o rest
        BY <1>1, <2>2, <3>3, <3>7, JoinJoin
      <4> QED BY <2>1, <3>3, <3>5, <3>7, <4>1
    <3>8. CASE phase = "reading"
      <4>1. text \o rest = Sent \o b
        BY <2>3, <3>3, <3>8
      <4>2. Len(text) \in Nat
        BY <2>3 DEF Texts
      <4>3. /\ Len(text) < Len(Sent) => got = NotDecoded
            /\ Len(Sent) <= Len(text) =>
                 /\ got = [ok |-> TRUE, header |-> Canonical(announced), header_byte_count |-> Len(Sent)]
                 /\ b = SubSeq(text, Len(Sent) + 1, Len(text)) \o rest
        BY <2>2, <2>3, <3>1, <3>4, <4>1, SomeOfHeader DEF got, Sent
      <4>4. CASE Len(text) < Len(Sent)
        <5>1. ~got.ok
          BY <4>3, <4>4 DEF NotDecoded
        <5>2. MaxHeaderBytes \in Nat
          BY CodecAssumption
        <5>3. CASE phase' = "refused"
          <6>1. Len(text) > MaxHeaderBytes
            BY <2>6, <3>8, <5>1, <5>3
          <6>2. Len(Sent) > MaxHeaderBytes
            BY <3>2, <4>2, <4>4, <5>2, <6>1
          <6> QED BY <3>5, <5>3, <6>2
        <5>4. CASE phase' = "reading"
          <6>1. buffer' = text
            BY <2>6, <3>8, <5>1, <5>4
          <6> QED BY <2>1, <3>5, <4>1, <4>4, <5>4, <6>1
        <5> QED BY <2>6, <3>8, <5>1, <5>3, <5>4
      <4>5. CASE Len(Sent) <= Len(text)
        <5>1. got.ok /\ got.header = Canonical(announced) /\ b = after \o rest
          <6> DEFINE part == SubSeq(text, Len(Sent) + 1, Len(text))
          <6>1. got.ok /\ got.header = Canonical(announced) /\ got.header_byte_count = Len(Sent)
            BY <4>3, <4>5
          <6>2. b = part \o rest
            BY <4>3, <4>5
          <6>3. after = part
            BY <6>1 DEF after
          <6> HIDE DEF part
          <6> QED BY <6>1, <6>2, <6>3
        <5>2. phase' = "parsed" /\ file_header' = Canonical(announced) /\ body' = after
          BY <2>6, <3>8, <5>1
        <5> QED BY <2>1, <3>5, <5>1, <5>2
      <4> QED BY <3>2, <4>2, <4>4, <4>5
    <3> QED BY <1>1, <3>6, <3>7, <3>8 DEF Phases
  <2> QED BY <2>8, <2>9, <2>10, <2>11 DEF CodecInv
<1> QED
  BY <1>2, <1>3, <1>4 DEF Next

\* CodecInv holds in every state.
THEOREM CodecInvariant == Spec => []CodecInv
BY InitCodecInv, StepCodecInv, PTL DEF Spec

\* What CodecInv says of the four properties.
LEMMA NameIsSafeFollows == CodecInv => NameIsSafe
<1> SUFFICES ASSUME CodecInv, phase = "parsed"
             PROVE  /\ file_header.name \notin {<<>>, <<".">>, <<".", ".">>}
                    /\ Range(file_header.name) \cap (Controls \cup Separators) = {}
  BY DEF NameIsSafe
<1> DEFINE name == file_header.name
<1>1. SafeName(name)
  BY DEF CodecInv, SafeInv
<1> HIDE DEF name
<1>2. Range(name) = {name[i] : i \in 1..Len(name)}
  BY <1>1, RangeEquality DEF SafeName, Texts
<1> QED
  BY <1>1, <1>2 DEF SafeName, name

\* sanitize_file_name makes every received name one component of a path.
THEOREM ReadNamesAreSafe == Spec => []NameIsSafe
BY CodecInvariant, NameIsSafeFollows, PTL

LEMMA MalformedFollows == CodecInv => MalformedStaysMalformed
BY BlankLineStays DEF CodecInv, TypeInv, UndecidedInv, MalformedStaysMalformed

\* A block that does not decode once its blank line is there never will.
THEOREM MalformedIsFinal == Spec => []MalformedStaysMalformed
BY CodecInvariant, MalformedFollows, PTL

LEMMA ReadsFollows == CodecInv => ReadsWhatWasSent
<1> SUFFICES ASSUME CodecInv, Announcing
             PROVE  /\ phase = "reading" => Len(buffer) < Len(Sent) /\ IsPrefix(buffer, Sent)
                    /\ phase = "parsed"  => /\ file_header = Canonical(announced)
                                            /\ \E b \in Bodies : b = body \o to_come
                    /\ phase = "refused" => Len(Sent) > MaxHeaderBytes
  BY DEF ReadsWhatWasSent, Announcing
<1>1. buffer \in Texts /\ to_come \in Texts /\ announced \in Headers
  BY DEF CodecInv, TypeInv, Announcing
<1>2. PICK b \in Bodies :
        /\ phase = "reading" => buffer \o to_come = Sent \o b /\ Len(buffer) < Len(Sent)
        /\ phase = "parsed"  => file_header = Canonical(announced) /\ b = body \o to_come
        /\ phase = "refused" => Len(Sent) > MaxHeaderBytes
  BY DEF CodecInv, SentInv
<1>3. Sent \in Texts /\ b \in Texts /\ Len(Sent) \in Nat /\ Len(buffer) \in Nat
  BY <1>1, EncodedIsText, CodecAssumption DEF Sent, Texts
<1>4. ASSUME phase = "reading" PROVE IsPrefix(buffer, Sent)
  <2>1. buffer \o to_come = Sent \o b /\ Len(buffer) <= Len(Sent)
    BY <1>2, <1>3, <1>4
  <2>2. SubSeq(Sent, 1, Len(buffer)) = buffer
    BY <1>1, <1>3, <2>1, ShorterFront
  <2>3. SubSeq(buffer, 1, Len(buffer)) = buffer
    BY <1>1, SubSeqFull DEF Texts
  <2> QED BY <2>1, <2>2, <2>3 DEF IsPrefix
<1> QED
  BY <1>2, <1>4

\* try_parse_file_header recovers what encode_file_header wrote, however the
\* receive events cut it, and loses nothing of the body.
THEOREM HeadersAreReadBack == Spec => []ReadsWhatWasSent
BY CodecInvariant, ReadsFollows, PTL

-----------------------------------------------------------------------------
(* The grammar of a block.                                                 *)

NameKey == <<"name">>
SizeKey == <<"size">>
HashKey == <<"hash">>

\* How the grammar splits a line: at its first "=".
FirstEq(line) ==
  CHOOSE i \in 1..Len(line) : /\ line[i] = "="
                              /\ \A j \in 1..(i - 1) : line[j] # "="

KeyOf(line) == SubSeq(line, 1, FirstEq(line) - 1)
ValueOf(line) == SubSeq(line, FirstEq(line) + 1, Len(line))

\* A line the grammar admits.
GoodLine(line) ==
  /\ "=" \in Range(line)
  /\ KeyOf(line) = SizeKey => ParsesFully(ValueOf(line))
  /\ KeyOf(line) = HashKey => is_sha256_hex(ValueOf(line))

\* Three different keys.
LEMMA KeysDiffer ==
  /\ NameKey # SizeKey /\ NameKey # HashKey /\ SizeKey # HashKey
  /\ Keys = {NameKey, SizeKey, HashKey}
BY DEF NameKey, SizeKey, HashKey, Keys

\* One field more: bad if its value does not parse, and else recorded under its key.
LEMMA FieldIsRead ==
  ASSUME NEW got \in Got, ~got.bad, NEW key, NEW value
  PROVE  LET after == ReadField(got, key, value)
             good  == /\ key = SizeKey => ParsesFully(value)
                      /\ key = HashKey => is_sha256_hex(value)
         IN  /\ after.bad <=> ~good
             /\ good =>
                  /\ after.seen = got.seen \cup ({key} \cap Keys)
                  /\ after.header.name =
                       IF key = NameKey THEN sanitize_file_name(value) ELSE got.header.name
                  /\ after.header.size = IF key = SizeKey THEN NumberOf(value) ELSE got.header.size
                  /\ after.header.sha256_hex =
                       IF key = HashKey THEN to_lower(value) ELSE got.header.sha256_hex
<1>1. /\ got = [header |-> got.header, seen |-> got.seen, bad |-> got.bad]
      /\ got.header \in Header /\ got.bad = FALSE
  BY DEF Got
<1> DEFINE after == ReadField(got, key, value)
<1> DEFINE named == [got EXCEPT !.header.name = sanitize_file_name(value), !.seen = @ \cup {key}]
<1> DEFINE sized == [got EXCEPT !.header.size = NumberOf(value), !.seen = @ \cup {key}]
<1> DEFINE hashed == [got EXCEPT !.header.sha256_hex = to_lower(value), !.seen = @ \cup {key}]
<1>2. after = IF key = NameKey THEN named
              ELSE IF key = SizeKey THEN IF ParsesFully(value) THEN sized ELSE Bad(got)
              ELSE IF key = HashKey THEN IF is_sha256_hex(value) THEN hashed ELSE Bad(got)
              ELSE got
  <2> HIDE DEF named, sized, hashed
  <2>1. after = CASE ~Counts(got, key) -> got
                  [] key = NameKey -> named
                  [] key = SizeKey -> IF ParsesFully(value) THEN sized ELSE Bad(got)
                  [] key = HashKey -> IF is_sha256_hex(value) THEN hashed ELSE Bad(got)
                  [] OTHER -> got
    BY DEF ReadField, NameKey, SizeKey, HashKey, named, sized, hashed
  <2> HIDE DEF after
  <2> QED BY <2>1, KeysDiffer DEF Counts
<1>3. /\ named.bad = FALSE /\ named.seen = got.seen \cup {key}
      /\ named.header.name = sanitize_file_name(value)
      /\ named.header.size = got.header.size /\ named.header.sha256_hex = got.header.sha256_hex
  BY <1>1 DEF Header
<1>4. /\ sized.bad = FALSE /\ sized.seen = got.seen \cup {key}
      /\ sized.header.size = NumberOf(value)
      /\ sized.header.name = got.header.name /\ sized.header.sha256_hex = got.header.sha256_hex
  BY <1>1 DEF Header
<1>5. /\ hashed.bad = FALSE /\ hashed.seen = got.seen \cup {key}
      /\ hashed.header.sha256_hex = to_lower(value)
      /\ hashed.header.name = got.header.name /\ hashed.header.size = got.header.size
  BY <1>1 DEF Header
<1>6. Bad(got).bad = TRUE
  BY <1>1 DEF Bad
<1>7. (key \in Keys => {key} \cap Keys = {key}) /\ (key \notin Keys => {key} \cap Keys = {})
  OBVIOUS
<1> HIDE DEF after, named, sized, hashed
<1>8. CASE key = NameKey
  BY <1>2, <1>3, <1>7, <1>8, KeysDiffer DEF after
<1>9. CASE key = SizeKey
  BY <1>2, <1>4, <1>6, <1>7, <1>9, KeysDiffer DEF after
<1>10. CASE key = HashKey
  BY <1>2, <1>5, <1>6, <1>7, <1>10, KeysDiffer DEF after
<1>11. CASE key \notin Keys
  <2>1. after = got /\ {key} \cap Keys = {} /\ key # NameKey /\ key # SizeKey /\ key # HashKey
    BY <1>2, <1>7, <1>11, KeysDiffer
  <2> QED BY <1>1, <2>1 DEF after
<1> QED
  BY <1>8, <1>9, <1>10, <1>11, KeysDiffer

\* One line more: bad if the grammar does not admit it.
LEMMA LineIsRead ==
  ASSUME NEW got \in Got, ~got.bad, NEW line \in Texts, line # <<>>
  PROVE  LET after == ReadLine(got, line)
         IN  /\ after.bad <=> ~GoodLine(line)
             /\ GoodLine(line) =>
                  /\ after.seen = got.seen \cup ({KeyOf(line)} \cap Keys)
                  /\ after.header.name =
                       IF KeyOf(line) = NameKey THEN sanitize_file_name(ValueOf(line)) ELSE got.header.name
                  /\ after.header.size =
                       IF KeyOf(line) = SizeKey THEN NumberOf(ValueOf(line)) ELSE got.header.size
                  /\ after.header.sha256_hex =
                       IF KeyOf(line) = HashKey THEN to_lower(ValueOf(line)) ELSE got.header.sha256_hex
<1> DEFINE eq == SelectInSeq(line, LAMBDA ch : ch = "=")
<1>1. \/ eq = 0 /\ \A i \in 1..Len(line) : line[i] # "="
      \/ /\ eq \in 1..Len(line) /\ line[eq] = "="
         /\ \A i \in 1..(eq - 1) : line[i] # "="
  BY FirstEquals
<1>2. ReadLine(got, line) =
        IF got.bad \/ line = <<>> THEN got
        ELSE IF eq = 0 THEN Bad(got)
        ELSE ReadField(got, SubSeq(line, 1, eq - 1), SubSeq(line, eq + 1, Len(line)))
  BY DEF ReadLine
<1>3. Range(line) = {line[i] : i \in 1..Len(line)}
  BY RangeEquality DEF Texts
<1>4. Len(line) \in Nat
  BY DEF Texts
<1> HIDE DEF eq
<1>5. CASE eq = 0
  <2>1. "=" \notin Range(line)
    BY <1>1, <1>3, <1>5
  <2>2. ReadLine(got, line) = Bad(got)
    BY <1>2, <1>5
  <2>3. Bad(got).bad = TRUE
    BY DEF Bad, Got
  <2> QED BY <2>1, <2>2, <2>3 DEF GoodLine
<1>6. CASE eq # 0
  <2>1. "=" \in Range(line)
    BY <1>1, <1>3, <1>6
  <2>2. FirstEq(line) = eq
    <3> DEFINE f == FirstEq(line)
    <3>1. f \in 1..Len(line) /\ line[f] = "=" /\ \A j \in 1..(f - 1) : line[j] # "="
      <4>1. \E i \in 1..Len(line) : line[i] = "=" /\ \A j \in 1..(i - 1) : line[j] # "="
        BY <1>1, <1>6
      <4> QED BY <4>1 DEF FirstEq
    <3> HIDE DEF f
    <3>2. ~(f < eq)
      BY <1>1, <1>4, <1>6, <3>1
    <3>3. ~(eq < f)
      BY <1>1, <1>4, <1>6, <3>1
    <3>4. f = eq
      BY <1>1, <1>4, <1>6, <3>1, <3>2, <3>3
    <3> QED BY <3>4 DEF f
  <2> DEFINE key == KeyOf(line)
  <2> DEFINE value == ValueOf(line)
  <2>3. ReadLine(got, line) = ReadField(got, key, value)
    BY <1>2, <1>6, <2>2 DEF KeyOf, ValueOf
  <2>4. GoodLine(line) <=> /\ key = SizeKey => ParsesFully(value)
                           /\ key = HashKey => is_sha256_hex(value)
    BY <2>1 DEF GoodLine
  <2> HIDE DEF key, value
  <2> DEFINE after == ReadField(got, key, value)
  <2> DEFINE good == /\ key = SizeKey => ParsesFully(value)
                     /\ key = HashKey => is_sha256_hex(value)
  <2>5. /\ after.bad <=> ~good
        /\ good =>
             /\ after.seen = got.seen \cup ({key} \cap Keys)
             /\ after.header.name = IF key = NameKey THEN sanitize_file_name(value) ELSE got.header.name
             /\ after.header.size = IF key = SizeKey THEN NumberOf(value) ELSE got.header.size
             /\ after.header.sha256_hex = IF key = HashKey THEN to_lower(value) ELSE got.header.sha256_hex
    BY FieldIsRead
  <2> HIDE DEF after, good
  <2>6. ReadLine(got, line) = after /\ (GoodLine(line) <=> good)
    BY <2>3, <2>4 DEF after, good
  <2> QED BY <2>5, <2>6 DEF key, value
<1> QED
  BY <1>5, <1>6

\* Line k is the last of these lines that has this key.
LastOf(lines, k, key) ==
  /\ k \in 1..Len(lines) /\ KeyOf(lines[k]) = key
  /\ \A l \in (k + 1)..Len(lines) : KeyOf(lines[l]) # key

HasKey(lines, key) == \E k \in 1..Len(lines) : KeyOf(lines[k]) = key

AllGood(lines) == \A k \in 1..Len(lines) : GoodLine(lines[k])

NoneEmpty(lines) == \A k \in 1..Len(lines) : lines[k] # <<>>

\* What the loop of decode_file_header knows of lines it has read.
Understood(lines, got) ==
  /\ got.bad <=> ~AllGood(lines)
  /\ AllGood(lines) =>
       /\ \A key \in Keys : key \in got.seen <=> HasKey(lines, key)
       /\ \A k \in 1..Len(lines) :
            /\ LastOf(lines, k, NameKey) => got.header.name = sanitize_file_name(ValueOf(lines[k]))
            /\ LastOf(lines, k, SizeKey) => got.header.size = NumberOf(ValueOf(lines[k]))
            /\ LastOf(lines, k, HashKey) => got.header.sha256_hex = to_lower(ValueOf(lines[k]))

\* What a line more changes of these.
LEMMA OneLineMore ==
  ASSUME NEW lines \in Seq(Texts), NEW line \in Texts
  PROVE  LET more == Append(lines, line)
         IN  /\ AllGood(more) <=> AllGood(lines) /\ GoodLine(line)
             /\ NoneEmpty(more) <=> NoneEmpty(lines) /\ line # <<>>
             /\ \A key : HasKey(more, key) <=> HasKey(lines, key) \/ KeyOf(line) = key
             /\ Len(lines) \in Nat /\ Len(more) = Len(lines) + 1 /\ more[Len(more)] = line
             /\ \A k \in 1..Len(lines) : more[k] = lines[k]
             /\ \A key : \A k \in 1..Len(lines) :
                  LastOf(more, k, key) => LastOf(lines, k, key) /\ KeyOf(line) # key
             /\ \A key : LastOf(more, Len(more), key) => KeyOf(line) = key
<1> DEFINE more == Append(lines, line)
<1> DEFINE n == Len(lines)
<1>1. /\ n \in Nat /\ Len(more) = n + 1 /\ more[n + 1] = line
      /\ \A k \in 1..n : more[k] = lines[k]
  BY AppendProperties
<1> HIDE DEF more
<1>2. 1..Len(more) = (1..n) \cup {n + 1}
  BY <1>1
<1> HIDE DEF n
<1>3. AllGood(more) <=> AllGood(lines) /\ GoodLine(line)
  BY <1>1, <1>2 DEF AllGood, n
<1>4. NoneEmpty(more) <=> NoneEmpty(lines) /\ line # <<>>
  BY <1>1, <1>2 DEF NoneEmpty, n
<1>5. ASSUME NEW key PROVE HasKey(more, key) <=> HasKey(lines, key) \/ KeyOf(line) = key
  BY <1>1, <1>2 DEF HasKey, n
<1>6. ASSUME NEW key, NEW k \in 1..n, LastOf(more, k, key)
      PROVE  LastOf(lines, k, key) /\ KeyOf(line) # key
  <2>1. KeyOf(more[k]) = key /\ \A l \in (k + 1)..(n + 1) : KeyOf(more[l]) # key
    BY <1>1, <1>6 DEF LastOf
  <2>2. n + 1 \in (k + 1)..(n + 1) /\ \A l \in (k + 1)..n : l \in (k + 1)..(n + 1) /\ l \in 1..n
    BY <1>1
  <2>3. \A l \in (k + 1)..n : KeyOf(lines[l]) # key
    BY <1>1, <2>1, <2>2
  <2>4. KeyOf(lines[k]) = key /\ KeyOf(line) # key
    BY <1>1, <2>1, <2>2
  <2> QED BY <2>3, <2>4 DEF LastOf, n
<1>7. ASSUME NEW key, LastOf(more, Len(more), key) PROVE KeyOf(line) = key
  BY <1>1, <1>7 DEF LastOf
<1> QED
  BY <1>1, <1>3, <1>4, <1>5, <1>6, <1>7 DEF more, n

\* The loop understands lines as the grammar does, if none of them is empty (an
\* empty line would end the header).
LEMMA LinesAreUnderstood ==
  ASSUME NEW lines \in Seq(Texts), NoneEmpty(lines)
  PROVE  Understood(lines, ReadLines(lines))
<1> DEFINE S == {ls \in Seq(Texts) : NoneEmpty(ls) => Understood(ls, ReadLines(ls))}
<1>1. \A ls \in Seq(Texts) : ReadLines(ls) \in Got
  <2>1. <<>> \in Texts
    BY DEF Texts
  <2> QED BY <2>1, ReadLinesOfAppend
<1>2. <<>> \in S
  <2>1. <<>> \in Seq(Texts) /\ Len(<<>>) = 0
    OBVIOUS
  <2>2. <<>> \in Texts
    BY DEF Texts
  <2>3. ReadLines(<<>>) = NothingRead
    BY <2>1, <2>2, ReadLinesOfAppend
  <2>4. AllGood(<<>>) /\ \A key : ~HasKey(<<>>, key)
    BY <2>1 DEF AllGood, HasKey
  <2>5. NothingRead.bad = FALSE /\ NothingRead.seen = {}
    BY DEF NothingRead
  <2>6. Understood(<<>>, NothingRead)
    BY <2>1, <2>4, <2>5 DEF Understood
  <2> QED BY <2>1, <2>3, <2>6
<1>3. ASSUME NEW ls \in Seq(Texts), NEW line \in Texts, ls \in S
      PROVE  Append(ls, line) \in S
  <2> DEFINE more == Append(ls, line)
  <2> DEFINE got == ReadLines(ls)
  <2> DEFINE after == ReadLines(more)
  <2>1. /\ AllGood(more) <=> AllGood(ls) /\ GoodLine(line)
        /\ NoneEmpty(more) <=> NoneEmpty(ls) /\ line # <<>>
        /\ \A key : HasKey(more, key) <=> HasKey(ls, key) \/ KeyOf(line) = key
    BY OneLineMore
  <2>2. /\ Len(ls) \in Nat /\ Len(more) = Len(ls) + 1 /\ more[Len(more)] = line
        /\ \A k \in 1..Len(ls) : more[k] = ls[k]
    BY OneLineMore
  <2>3. \A key : \A k \in 1..Len(ls) :
                   LastOf(more, k, key) => LastOf(ls, k, key) /\ KeyOf(line) # key
    BY OneLineMore
  <2>4. \A key : LastOf(more, Len(more), key) => KeyOf(line) = key
    BY OneLineMore
  <2>5. more \in Seq(Texts)
    BY AppendProperties
  <2>6. got \in Got /\ after = ReadLine(got, line)
    BY ReadLinesOfAppend
  <2> HIDE DEF more, got
  <2>7. ASSUME NoneEmpty(more) PROVE Understood(more, after)
    <3> HIDE DEF after
    <3>1. NoneEmpty(ls) /\ line # <<>>
      BY <2>1, <2>7
    <3>2. Understood(ls, got)
      BY <1>3, <3>1 DEF got
    <3>3. CASE got.bad
      <4>1. after = got
        BY <2>6, <3>3 DEF ReadLine
      <4>2. ~AllGood(more)
        BY <2>1, <3>2, <3>3 DEF Understood
      <4> QED BY <3>3, <4>1, <4>2 DEF Understood
    <3>4. CASE ~got.bad
      <4>1. AllGood(ls)
        BY <3>2, <3>4 DEF Understood
      <4>2. /\ after.bad <=> ~GoodLine(line)
            /\ GoodLine(line) =>
                 /\ after.seen = got.seen \cup ({KeyOf(line)} \cap Keys)
                 /\ after.header.name =
                      IF KeyOf(line) = NameKey THEN sanitize_file_name(ValueOf(line)) ELSE got.header.name
                 /\ after.header.size =
                      IF KeyOf(line) = SizeKey THEN NumberOf(ValueOf(line)) ELSE got.header.size
                 /\ after.header.sha256_hex =
                      IF KeyOf(line) = HashKey THEN to_lower(ValueOf(line)) ELSE got.header.sha256_hex
        BY <2>6, <3>1, <3>4, LineIsRead
      <4>3. after.bad <=> ~AllGood(more)
        BY <2>1, <4>1, <4>2
      <4>4. ASSUME AllGood(more), NEW key \in Keys
            PROVE  key \in after.seen <=> HasKey(more, key)
        <5>1. GoodLine(line)
          BY <2>1, <4>4
        <5>2. key \in got.seen <=> HasKey(ls, key)
          BY <3>2, <4>1 DEF Understood
        <5> QED BY <2>1, <4>2, <5>1, <5>2
      <4>5. ASSUME AllGood(more), NEW k \in 1..Len(more)
            PROVE  /\ LastOf(more, k, NameKey) => after.header.name = sanitize_file_name(ValueOf(more[k]))
                   /\ LastOf(more, k, SizeKey) => after.header.size = NumberOf(ValueOf(more[k]))
                   /\ LastOf(more, k, HashKey) => after.header.sha256_hex = to_lower(ValueOf(more[k]))
        <5>1. GoodLine(line)
          BY <2>1, <4>5
        <5>2. CASE k = Len(more)
          BY <2>2, <2>4, <4>2, <5>1, <5>2
        <5>3. CASE k # Len(more)
          <6>1. k \in 1..Len(ls) /\ more[k] = ls[k]
            BY <2>2, <5>3
          <6>2. /\ LastOf(ls, k, NameKey) => got.header.name = sanitize_file_name(ValueOf(ls[k]))
                /\ LastOf(ls, k, SizeKey) => got.header.size = NumberOf(ValueOf(ls[k]))
                /\ LastOf(ls, k, HashKey) => got.header.sha256_hex = to_lower(ValueOf(ls[k]))
            BY <3>2, <4>1, <6>1 DEF Understood
          <6>3. ASSUME LastOf(more, k, NameKey) PROVE after.header.name = sanitize_file_name(ValueOf(more[k]))
            BY <2>3, <4>2, <5>1, <6>1, <6>2, <6>3
          <6>4. ASSUME LastOf(more, k, SizeKey) PROVE after.header.size = NumberOf(ValueOf(more[k]))
            BY <2>3, <4>2, <5>1, <6>1, <6>2, <6>4
          <6>5. ASSUME LastOf(more, k, HashKey) PROVE after.header.sha256_hex = to_lower(ValueOf(more[k]))
            BY <2>3, <4>2, <5>1, <6>1, <6>2, <6>5
          <6> QED BY <6>3, <6>4, <6>5
        <5> QED BY <5>2, <5>3
      <4> QED BY <4>3, <4>4, <4>5 DEF Understood
    <3> QED BY <3>3, <3>4
  <2> QED BY <2>5, <2>7 DEF more
<1>4. Seq(Texts) \subseteq S
  <2> HIDE DEF S
  <2> QED BY <1>2, <1>3, AppendInduction
<1> QED
  BY <1>4

\* In text without a blank line, the only empty line after the first is what a
\* newline at the end of the text begins.
EmptyAtEnd(t) ==
  \A k \in 2..Len(Lines(t)) :
    Lines(t)[k] = <<>> => k = Len(Lines(t)) /\ Len(t) # 0 /\ t[Len(t)] = "LF"

\* There are no others: by induction over the text.
LEMMA TidyHasNoEmptyLine ==
  ASSUME NEW text, Tidy(text)
  PROVE  EmptyAtEnd(text)
<1> DEFINE S == {t \in Texts : Tidy(t) => EmptyAtEnd(t)}
<1>1. <<>> \in S
  <2>1. <<>> \in Texts /\ "LF" \in Chars
    <3>1. <<>> \in Texts
      BY DEF Texts
    <3> QED BY <3>1, CharFacts
  <2>2. Lines(<<>>) = << <<>> >>
    BY <2>1, LinesOfAppend
  <2>3. EmptyAtEnd(<<>>)
    BY <2>2 DEF EmptyAtEnd
  <2> QED BY <2>1, <2>3
<1>2. ASSUME NEW t \in Texts, NEW ch \in Chars, t \in S
      PROVE  Append(t, ch) \in S
  <2> DEFINE more == Append(t, ch)
  <2> DEFINE ls == Lines(t)
  <2> DEFINE new == Lines(more)
  <2>1. /\ more \in Texts /\ Len(more) = Len(t) + 1 /\ Len(t) \in Nat
        /\ more[Len(t) + 1] = ch /\ \A i \in 1..Len(t) : more[i] = t[i]
    BY AppendText
  <2>2. ls \in Seq(Texts) /\ ls # <<>>
    BY LinesOfTexts
  <2>3. new = IF ch = "LF" THEN Append(ls, <<>>) ELSE [ls EXCEPT ![Len(ls)] = Append(@, ch)]
    BY LinesOfAppend
  <2>4. Len(ls) \in Nat /\ Len(ls) >= 1
    BY <2>2, EmptySeq
  <2>5. <<>> \in Texts
    BY DEF Texts
  <2> HIDE DEF more, ls, new
  <2>6. ASSUME Tidy(more) PROVE EmptyAtEnd(more)
    <3>1. \A i \in 1..Len(t) : ~(more[i] = "LF" /\ more[i + 1] = "LF")
      BY <2>1, <2>6 DEF Tidy, BlankAt
    <3>2. Tidy(t)
      <4> SUFFICES ASSUME NEW i \in 1..(Len(t) - 1), t[i] = "LF", t[i + 1] = "LF" PROVE FALSE
        BY DEF Tidy, BlankAt
      <4>1. i \in 1..Len(t) /\ i + 1 \in 1..Len(t)
        BY <2>1
      <4> QED BY <2>1, <3>1, <4>1
    <3>3. \A k \in 2..Len(ls) : ls[k] = <<>> => k = Len(ls) /\ Len(t) # 0 /\ t[Len(t)] = "LF"
      BY <1>2, <3>2 DEF EmptyAtEnd, ls
    <3>4. CASE ch = "LF"
      <4>1. /\ Len(new) = Len(ls) + 1 /\ \A k \in 1..Len(ls) : new[k] = ls[k]
        BY <2>2, <2>3, <2>5, <3>4, AppendProperties
      <4>2. ~(Len(t) # 0 /\ t[Len(t)] = "LF")
        <5> SUFFICES ASSUME Len(t) # 0, t[Len(t)] = "LF" PROVE FALSE
          OBVIOUS
        <5>1. Len(t) \in 1..Len(t)
          BY <2>1
        <5> QED BY <2>1, <3>1, <3>4, <5>1
      <4>3. ASSUME NEW k \in 2..Len(new), new[k] = <<>> PROVE k = Len(new)
        <5> SUFFICES ASSUME k # Len(new) PROVE FALSE
          OBVIOUS
        <5>1. k \in 2..Len(ls) /\ k \in 1..Len(ls)
          BY <2>4, <4>1
        <5> QED BY <3>3, <4>1, <4>2, <4>3, <5>1
      <4>4. Len(more) # 0 /\ more[Len(more)] = "LF"
        BY <2>1, <3>4
      <4> QED BY <4>3, <4>4 DEF EmptyAtEnd, new
    <3>5. CASE ch # "LF"
      <4> DEFINE last == Append(ls[Len(ls)], ch)
      <4>1. Len(ls) \in 1..Len(ls)
        BY <2>4
      <4>2. ls[Len(ls)] \in Texts
        BY <2>2, <4>1, ElementOfSeq
      <4>3. last \in Texts /\ last # <<>>
        BY <4>2, AppendProperties DEF Texts
      <4>4. new = [ls EXCEPT ![Len(ls)] = last]
        BY <2>3, <3>5
      <4> HIDE DEF last
      <4>5. Len(new) = Len(ls) /\ \A k \in 1..Len(ls) : new[k] = IF k = Len(ls) THEN last ELSE ls[k]
        BY <2>2, <4>1, <4>3, <4>4, ExceptSeq
      <4>6. ASSUME NEW k \in 2..Len(new) PROVE new[k] # <<>>
        <5>1. k \in 2..Len(ls) /\ k \in 1..Len(ls)
          BY <2>4, <4>5
        <5> QED BY <3>3, <4>3, <4>5, <5>1
      <4> QED BY <4>6 DEF EmptyAtEnd, new
    <3> QED BY <3>4, <3>5
  <2> QED BY <2>1, <2>6 DEF more
<1>3. Seq(Chars) \subseteq S
  <2> HIDE DEF S
  <2> QED BY <1>1, <1>2, AppendInduction DEF Texts
<1> QED
  BY <1>3 DEF Tidy, Texts

\* What stands before the first blank line has no empty line after its first.
LEMMA BlockHasNoEmptyLine ==
  ASSUME NEW data \in Texts, BlankLine(data) # 0
  PROVE  LET block == SubSeq(data, 1, BlankLine(data) - 1)
         IN  block \in Texts /\ NoneEmpty(Tail(Lines(block)))
<1> DEFINE end == BlankLine(data)
<1> DEFINE block == SubSeq(data, 1, end - 1)
<1> DEFINE ls == Lines(block)
<1>1. /\ end \in 1..(Len(data) - 1) /\ data[end] = "LF" /\ data[end + 1] = "LF"
      /\ \A i \in 1..(end - 1) : ~(data[i] = "LF" /\ data[i + 1] = "LF")
  BY BlankLineFound DEF BlankAt
<1>2. Len(data) \in Nat /\ \A i \in 1..Len(data) : data[i] \in Chars
  BY DEF Texts
<1> HIDE DEF end
<1>3. \A i \in 1..(end - 1) : data[i] \in Chars
  BY <1>1, <1>2
<1>4. 1 \in Int /\ end - 1 \in Int
  BY <1>1
<1>5. /\ block \in Seq(Chars)
      /\ Len(block) = IF 1 <= end - 1 THEN (end - 1) - 1 + 1 ELSE 0
      /\ \A i \in 1..((end - 1) - 1 + 1) : block[i] = data[1 + i - 1]
  BY <1>3, <1>4, SubSeqProperties
<1> HIDE DEF block
<1>6. /\ block \in Texts /\ Len(block) = end - 1
      /\ \A i \in 1..(end - 1) : block[i] = data[i]
  <2>1. Len(block) = end - 1
    BY <1>1, <1>5
  <2>2. ASSUME NEW i \in 1..(end - 1) PROVE block[i] = data[i]
    <3>1. i \in 1..((end - 1) - 1 + 1) /\ 1 + i - 1 = i
      BY <1>1
    <3> QED BY <1>5, <3>1
  <2> QED BY <1>5, <2>1, <2>2 DEF Texts
<1>7. Tidy(block)
  <2> SUFFICES ASSUME NEW i \in 1..(Len(block) - 1), block[i] = "LF", block[i + 1] = "LF" PROVE FALSE
    BY <1>6 DEF Tidy, BlankAt
  <2>1. i \in 1..(end - 1) /\ i + 1 \in 1..(end - 1)
    BY <1>1, <1>6
  <2> QED BY <1>1, <1>6, <2>1
<1>8. ~(Len(block) # 0 /\ block[Len(block)] = "LF")
  <2> SUFFICES ASSUME Len(block) # 0, block[Len(block)] = "LF" PROVE FALSE
    OBVIOUS
  <2>1. end - 1 \in 1..(end - 1) /\ (end - 1) + 1 = end
    BY <1>1, <1>6
  <2> QED BY <1>1, <1>6, <2>1
<1>9. ls \in Seq(Texts) /\ ls # <<>>
  BY <1>6, LinesOfTexts
<1>10. \A k \in 2..Len(ls) : ls[k] # <<>>
  BY <1>7, <1>8, TidyHasNoEmptyLine DEF EmptyAtEnd
<1> HIDE DEF ls
<1>11. NoneEmpty(Tail(ls))
  <2>1. /\ Len(Tail(ls)) = Len(ls) - 1 /\ \A i \in 1..Len(Tail(ls)) : Tail(ls)[i] = ls[i + 1]
    BY <1>9, HeadTailProperties
  <2>2. Len(ls) \in Nat
    BY <1>9, LenProperties
  <2> SUFFICES ASSUME NEW i \in 1..Len(Tail(ls)) PROVE Tail(ls)[i] # <<>>
    BY DEF NoneEmpty
  <2>3. i + 1 \in 2..Len(ls)
    BY <2>1, <2>2
  <2> QED BY <1>10, <2>1, <2>3
<1> QED
  BY <1>6, <1>11 DEF ls, block, end

\* The grammar in the words of the last lemmas.
LEMMA GrammarIs ==
  ASSUME NEW block \in Texts
  PROVE  LET lines == Tail(Lines(block))
         IN  /\ WellFormed(block) <=>
                  /\ Head(Lines(block)) = <<Magic>>
                  /\ AllGood(lines)
                  /\ \A key \in Keys : HasKey(lines, key)
             /\ \A key : HasKey(lines, key) =>
                  \E k \in 1..Len(lines) :
                    LastOf(lines, k, key) /\ LastValue(block, key) = ValueOf(lines[k])
<1> DEFINE lines == Tail(Lines(block))
<1> DEFINE pairs == Pairs(lines)
<1>1. lines \in Seq(Texts)
  BY LinesOfTexts, HeadTailProperties
<1>2. Len(lines) \in Nat
  BY <1>1, LenProperties
<1>3. /\ pairs = [k \in 1..Len(lines) |-> SplitAt(lines[k], FirstEq(lines[k]))]
      /\ Len(pairs) = Len(lines)
  <2> HIDE DEF lines
  <2>1. pairs = [k \in 1..Len(lines) |-> SplitAt(lines[k], FirstEq(lines[k]))]
    BY DEF Pairs, FirstEq
  <2> DEFINE f == [k \in 1..Len(lines) |-> SplitAt(lines[k], FirstEq(lines[k]))]
  <2>2. f \in [1..Len(lines) -> {f[k] : k \in 1..Len(lines)}]
    OBVIOUS
  <2> HIDE DEF f
  <2>3. Len(f) = Len(lines)
    BY <1>2, <2>2, FunctionIsSeq
  <2> QED BY <2>1, <2>3 DEF f
<1>4. \A k \in 1..Len(lines) : pairs[k].key = KeyOf(lines[k]) /\ pairs[k].value = ValueOf(lines[k])
  <2> HIDE DEF lines, pairs
  <2> QED BY <1>3 DEF SplitAt, KeyOf, ValueOf
<1>5. WellFormed(block) <=>
        /\ Head(Lines(block)) = <<Magic>>
        /\ \A k \in 1..Len(lines) : "=" \in Range(lines[k])
        /\ \A k \in 1..Len(lines) : /\ pairs[k].key = SizeKey => ParsesFully(pairs[k].value)
                                    /\ pairs[k].key = HashKey => is_sha256_hex(pairs[k].value)
        /\ \A key \in Keys : \E k \in 1..Len(lines) : pairs[k].key = key
  BY DEF WellFormed, SizeKey, HashKey, Keys
<1>6. \A key : LastValue(block, key) =
                 pairs[CHOOSE k \in 1..Len(pairs) :
                         /\ pairs[k].key = key
                         /\ \A l \in (k + 1)..Len(pairs) : pairs[l].key # key].value
  BY DEF LastValue
<1> HIDE DEF lines, pairs
<1>7. WellFormed(block) <=>
        /\ Head(Lines(block)) = <<Magic>>
        /\ AllGood(lines)
        /\ \A key \in Keys : HasKey(lines, key)
  <2>1. (\A key \in Keys : \E k \in 1..Len(lines) : pairs[k].key = key)
          <=> \A key \in Keys : HasKey(lines, key)
    BY <1>4 DEF HasKey
  <2>2. AllGood(lines) <=>
          /\ \A k \in 1..Len(lines) : "=" \in Range(lines[k])
          /\ \A k \in 1..Len(lines) : /\ pairs[k].key = SizeKey => ParsesFully(pairs[k].value)
                                      /\ pairs[k].key = HashKey => is_sha256_hex(pairs[k].value)
    BY <1>4 DEF AllGood, GoodLine
  <2> QED BY <1>5, <2>1, <2>2
<1>8. ASSUME NEW key, HasKey(lines, key)
      PROVE  \E k \in 1..Len(lines) :
               LastOf(lines, k, key) /\ LastValue(block, key) = ValueOf(lines[k])
  <2> DEFINE T == {k \in 1..Len(lines) : KeyOf(lines[k]) = key}
  <2> DEFINE Here(k) == /\ pairs[k].key = key
                        /\ \A l \in (k + 1)..Len(pairs) : pairs[l].key # key
  <2> DEFINE last == CHOOSE k \in 1..Len(pairs) : Here(k)
  <2>1. T \subseteq 0..Len(lines) /\ T # {}
    BY <1>2, <1>8 DEF HasKey
  <2>2. PICK top \in T : \A y \in T : top >= y
    <3> HIDE DEF T
    <3> QED BY <1>2, <2>1, GreatestOfSet
  <2>3. top \in 1..Len(lines) /\ KeyOf(lines[top]) = key
    OBVIOUS
  <2>4. ASSUME NEW l \in (top + 1)..Len(lines) PROVE KeyOf(lines[l]) # key
    <3> SUFFICES ASSUME KeyOf(lines[l]) = key PROVE FALSE
      OBVIOUS
    <3>1. l \in T
      BY <1>2, <2>3
    <3>2. top >= l
      BY <2>2, <3>1
    <3> QED BY <1>2, <2>3, <3>2
  <2>5. Here(top)
    <3>1. \A l \in (top + 1)..Len(lines) : l \in 1..Len(lines)
      BY <1>2, <2>3
    <3> QED BY <1>3, <1>4, <2>3, <2>4, <3>1
  <2>6. last \in 1..Len(pairs) /\ Here(last)
    <3> HIDE DEF Here
    <3>1. \E k \in 1..Len(pairs) : Here(k)
      BY <1>3, <2>3, <2>5
    <3> QED BY <3>1
  <2>7. LastValue(block, key) = pairs[last].value
    BY <1>6
  <2> HIDE DEF last
  <2>8. last \in 1..Len(lines) /\ KeyOf(lines[last]) = key
    BY <1>3, <1>4, <2>6
  <2>9. ASSUME NEW l \in (last + 1)..Len(lines) PROVE KeyOf(lines[l]) # key
    <3>1. l \in 1..Len(lines)
      BY <1>2, <2>8
    <3> QED BY <1>3, <1>4, <2>6, <3>1
  <2>10. LastOf(lines, last, key)
    BY <2>8, <2>9 DEF LastOf
  <2>11. LastValue(block, key) = ValueOf(lines[last])
    BY <1>4, <2>7, <2>8
  <2> QED BY <2>8, <2>10, <2>11
<1> QED
  BY <1>7, <1>8 DEF lines

\* decode_file_header accepts what the grammar admits, and nothing else.
LEMMA DecodesByGrammar ==
  ASSUME NEW data \in Texts
  PROVE  LET got   == decode_file_header(data)
             block == SubSeq(data, 1, BlankLine(data) - 1)
         IN  /\ got.ok <=> BlankLine(data) # 0 /\ WellFormed(block)
             /\ got.ok => /\ got.header.name = sanitize_file_name(LastValue(block, NameKey))
                          /\ got.header.size = NumberOf(LastValue(block, SizeKey))
                          /\ got.header.sha256_hex = to_lower(LastValue(block, HashKey))
<1> DEFINE end == BlankLine(data)
<1> DEFINE block == SubSeq(data, 1, end - 1)
<1> DEFINE got == ReadBlock(block)
<1> DEFINE lines == Tail(Lines(block))
<1> DEFINE out == decode_file_header(data)
<1>1. out = IF end = 0 \/ got.bad \/ Cardinality(got.seen) < 3 THEN NotDecoded
            ELSE [ok |-> TRUE, header |-> got.header, header_byte_count |-> end + 1]
  BY DEF decode_file_header
<1>2. CASE end = 0
  <2>1. out = NotDecoded
    BY <1>1, <1>2
  <2> HIDE DEF out
  <2> QED BY <1>2, <2>1 DEF NotDecoded, out
<1>3. CASE end # 0
  <2>1. block \in Texts /\ NoneEmpty(lines)
    BY <1>3, BlockHasNoEmptyLine
  <2> HIDE DEF end, block
  <2>2. got \in Got
    BY <2>1, ReadBlockType
  <2>3. lines \in Seq(Texts)
    BY <2>1, LinesOfTexts, HeadTailProperties
  <2>4. Understood(lines, ReadLines(lines))
    BY <2>1, <2>3, LinesAreUnderstood
  <2>5. /\ Head(Lines(block)) # <<Magic>> => got.bad
        /\ Head(Lines(block)) = <<Magic>> => got = ReadLines(lines)
    <3>1. got = IF Head(Lines(block)) # <<Magic>> THEN Bad(NothingRead) ELSE ReadLines(lines)
      BY DEF ReadBlock, ReadLines
    <3>2. Bad(NothingRead).bad
      BY DEF Bad, NothingRead
    <3> HIDE DEF got, lines
    <3> QED BY <3>1, <3>2
  <2>6. /\ WellFormed(block) <=>
             /\ Head(Lines(block)) = <<Magic>>
             /\ AllGood(lines)
             /\ \A key \in Keys : HasKey(lines, key)
        /\ \A key : HasKey(lines, key) =>
             \E k \in 1..Len(lines) :
               LastOf(lines, k, key) /\ LastValue(block, key) = ValueOf(lines[k])
    BY <2>1, GrammarIs
  <2>7. got.seen \in SUBSET Keys /\ (~(Cardinality(got.seen) < 3) <=> got.seen = Keys)
    <3>1. got.seen \in SUBSET Keys
      BY <2>2 DEF Got
    <3>2. Cardinality(got.seen) \in Nat
      BY <3>1, KeysAreThree, FS_Subset, FS_CardinalityType
    <3> HIDE DEF got
    <3> QED BY <3>1, <3>2, KeysAreThree
  <2> HIDE DEF got, lines, out
  <2>8. out.ok <=> ~got.bad /\ got.seen = Keys
    <3>1. CASE got.bad \/ Cardinality(got.seen) < 3
      BY <1>1, <2>7, <3>1 DEF NotDecoded
    <3>2. CASE ~(got.bad \/ Cardinality(got.seen) < 3)
      <4>1. out = [ok |-> TRUE, header |-> got.header, header_byte_count |-> end + 1]
        BY <1>1, <1>3, <3>2
      <4> QED BY <2>7, <3>2, <4>1
    <3> QED BY <3>1, <3>2
  <2>9. out.ok => out.header = got.header
    BY <1>1 DEF NotDecoded
  <2>10. CASE Head(Lines(block)) # <<Magic>>
    BY <1>3, <2>5, <2>6, <2>8, <2>10 DEF out, block, end
  <2>11. CASE Head(Lines(block)) = <<Magic>>
    <3>1. Understood(lines, got)
      BY <2>4, <2>5, <2>11
    <3>2. got.seen = Keys <=> \A key \in Keys : key \in got.seen
      BY <2>7
    <3>3. out.ok <=> WellFormed(block)
      <4>1. CASE AllGood(lines)
        <5>1. ~got.bad /\ \A key \in Keys : key \in got.seen <=> HasKey(lines, key)
          BY <3>1, <4>1 DEF Understood
        <5> QED BY <2>6, <2>8, <2>11, <3>2, <4>1, <5>1
      <4>2. CASE ~AllGood(lines)
        <5>1. got.bad
          BY <3>1, <4>2 DEF Understood
        <5> QED BY <2>6, <2>8, <4>2, <5>1
      <4> QED BY <4>1, <4>2
    <3>4. ASSUME out.ok
          PROVE  /\ out.header.name = sanitize_file_name(LastValue(block, NameKey))
                 /\ out.header.size = NumberOf(LastValue(block, SizeKey))
                 /\ out.header.sha256_hex = to_lower(LastValue(block, HashKey))
      <4>1. AllGood(lines) /\ \A key \in Keys : HasKey(lines, key)
        BY <2>6, <3>3, <3>4
      <4>2. NameKey \in Keys /\ SizeKey \in Keys /\ HashKey \in Keys
        BY KeysDiffer
      <4>3. \A k \in 1..Len(lines) :
              /\ LastOf(lines, k, NameKey) => got.header.name = sanitize_file_name(ValueOf(lines[k]))
              /\ LastOf(lines, k, SizeKey) => got.header.size = NumberOf(ValueOf(lines[k]))
              /\ LastOf(lines, k, HashKey) => got.header.sha256_hex = to_lower(ValueOf(lines[k]))
        BY <3>1, <4>1 DEF Understood
      <4>4. out.header.name = sanitize_file_name(LastValue(block, NameKey))
        BY <2>6, <2>9, <3>4, <4>1, <4>2, <4>3
      <4>5. out.header.size = NumberOf(LastValue(block, SizeKey))
        BY <2>6, <2>9, <3>4, <4>1, <4>2, <4>3
      <4>6. out.header.sha256_hex = to_lower(LastValue(block, HashKey))
        BY <2>6, <2>9, <3>4, <4>1, <4>2, <4>3
      <4> QED BY <4>4, <4>5, <4>6
    <3> QED BY <1>3, <3>3, <3>4 DEF out, block, end
  <2> QED BY <2>10, <2>11
<1> QED
  BY <1>2, <1>3

LEMMA AgreesFollows == CodecInv => AgreesWithGrammar
<1> SUFFICES ASSUME CodecInv PROVE AgreesWithGrammar
  OBVIOUS
<1>1. to_come \in Texts
  BY DEF CodecInv, TypeInv
<1> QED
  BY <1>1, DecodesByGrammar DEF AgreesWithGrammar, NameKey, SizeKey, HashKey

\* decode_file_header accepts exactly the documented grammar.
THEOREM DecodingAgreesWithGrammar == Spec => []AgreesWithGrammar
BY CodecInvariant, AgreesFollows, PTL
=============================================================================
