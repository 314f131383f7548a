--------------------------- MODULE ArgumentsSafety --------------------------
(***************************************************************************)
(* parseArguments reads every line as its definition says, and every two   *)
(* words that are quoted as they were meant.                               *)
(***************************************************************************)
EXTENDS Arguments, SequenceTheorems, WellFoundedInduction, TLAPS

TypeOK ==
  /\ line \in Seq(Chars) /\ pos \in Nat /\ buf \in Seq(Chars) /\ escaped \in BOOLEAN
  /\ delim \in Quotes \cup {Blank} /\ arguments \in Seq(Seq(Chars))
  /\ at \in {"skip", "read", "returned", "thrown"}

\* The state that the characters before this position determine.
Now == StateAt(line)[pos]

\* The part of an argument that is to begin later is empty.
NothingAfter(k) == \A l \in Nat : l > k => Part(line, l)[pos] = << >>

\* Between two arguments; a quote may have ended a word.
Between ==
  /\ Now.quote = "gap" \/ (Now.quote = "word" /\ More /\ Char \in Quotes)
  /\ ~Now.escaped
  /\ arguments = NotEmpty(line, pos)[Now.nr]
  /\ buf = << >>

\* The first character of a word has been seen, but not read.
BeforeWord ==
  /\ Now.quote = "gap" /\ ~Now.escaped
  /\ ~Quoted /\ More /\ Char \notin Quotes \cup {Blank}
  /\ arguments = NotEmpty(line, pos)[Now.nr]
  /\ buf = << >>

\* Inside of an argument.
Inside ==
  /\ Now.quote = (IF Quoted THEN delim ELSE "word")
  /\ Now.escaped = escaped
  /\ escaped => Quoted
  /\ Now.nr # 0
  /\ buf = Part(line, Now.nr)[pos]
  /\ arguments = NotEmpty(line, pos)[Now.nr - 1]

\* The loops are where the definition is.
InStep ==
  /\ at \in {"skip", "read"} => pos <= Len(line) /\ NothingAfter(Now.nr)
  /\ at = "skip" => Between /\ ~escaped
  /\ at = "read" => (BeforeWord /\ ~escaped) \/ Inside

AtEnd ==
  /\ at = "returned" => /\ arguments = ArgumentsOf(line)
                        /\ StateAt(line)[Len(line)].quote # "error"
  /\ at = "thrown" => StateAt(line)[Len(line)].quote = "error"

-----------------------------------------------------------------------------
(* Numbers and recursion. *)

\* Every set of numbers has a least one.
LEMMA LeastNumber ==
  ASSUME NEW T \in SUBSET Nat, T # {}
  PROVE  \E x \in T : \A y \in T : x <= y
<1>1. PICK x \in T : \A y \in T : <<y, x>> \notin OpToRel(<, Nat)
  BY NatLessThanWellFounded, WFMin
<1>2. ASSUME NEW y \in T
      PROVE  x <= y
  <2>1. <<y, x>> \in Nat \X Nat
    OBVIOUS
  <2> QED
    BY <1>1, <2>1 DEF OpToRel
<1> QED
  BY <1>2

\* What holds at first and passes on from one number to the next holds for all.
LEMMA PassesOn ==
  ASSUME NEW T \in SUBSET Nat, 0 \in T, \A n \in T : n + 1 \in T
  PROVE  T = Nat
<1> SUFFICES ASSUME Nat \ T # {} PROVE FALSE
  OBVIOUS
<1>1. PICK x \in Nat \ T : \A y \in Nat \ T : x <= y
  <2>1. Nat \ T \in SUBSET Nat
    OBVIOUS
  <2> QED
    BY <2>1, LeastNumber
<1>2. x # 0 /\ x - 1 \in Nat /\ (x - 1) + 1 = x
  BY <1>1
<1>3. x - 1 \in T
  BY <1>1, <1>2
<1> QED
  BY <1>1, <1>2, <1>3

\* A function up to n that starts with b and goes on by steps.
Goes(f, n, D, b, step) ==
  /\ f \in [0 .. n -> D]
  /\ f[0] = b
  /\ \A i \in 0 .. n : i # n => f[i + 1] = step[<<i + 1, f[i]>>]

\* There is one for every n.
LEMMA GoesUpTo ==
  ASSUME NEW D, NEW b \in D, NEW step \in [Nat \X D -> D], NEW n \in Nat
  PROVE  \E f : Goes(f, n, D, b, step)
<1> DEFINE T == { k \in Nat : \E f : Goes(f, k, D, b, step) }
<1>1. 0 \in T
  <2> DEFINE f == [i \in 0 .. 0 |-> b]
  <2>1. Goes(f, 0, D, b, step)
    BY DEF Goes
  <2> QED
    BY <2>1
<1>2. ASSUME NEW k \in T
      PROVE  k + 1 \in T
  <2>1. k \in Nat
    OBVIOUS
  <2>2. PICK f : Goes(f, k, D, b, step)
    OBVIOUS
  <2>3. f \in [0 .. k -> D] /\ f[0] = b /\ k \in 0 .. k
    BY <2>1, <2>2 DEF Goes
  <2> DEFINE last == step[<<k + 1, f[k]>>]
  <2>4. last \in D
    BY <2>1, <2>3
  <2> HIDE DEF last
  <2> DEFINE g == [i \in 0 .. k + 1 |-> IF i = k + 1 THEN last ELSE f[i]]
  <2>5. g \in [0 .. k + 1 -> D] /\ g[k + 1] = last /\ \A i \in 0 .. k : g[i] = f[i]
    BY <2>1, <2>3, <2>4
  <2> HIDE DEF g
  <2>6. ASSUME NEW i \in 0 .. k + 1, i # k + 1
        PROVE  g[i + 1] = step[<<i + 1, g[i]>>]
    <3>1. i \in 0 .. k /\ g[i] = f[i]
      BY <2>1, <2>5, <2>6
    <3>2. CASE i = k
      BY <2>5, <3>1, <3>2 DEF last
    <3>3. CASE i # k
      <4>1. i + 1 \in 0 .. k
        BY <2>1, <3>1, <3>3
      <4> QED
        BY <2>2, <2>5, <3>1, <3>3, <4>1 DEF Goes
    <3> QED
      BY <3>2, <3>3
  <2>7. g[0] = b
    BY <2>1, <2>3, <2>5
  <2>8. Goes(g, k + 1, D, b, step)
    BY <2>5, <2>6, <2>7 DEF Goes
  <2> QED
    BY <2>1, <2>8
<1>3. T = Nat
  BY <1>1, <1>2, PassesOn
<1> QED
  BY <1>3

\* Two of them agree as far as both go.
LEMMA GoesAgree ==
  ASSUME NEW D, NEW b, NEW step, NEW m \in Nat, NEW n \in Nat,
         NEW f, Goes(f, m, D, b, step), NEW g, Goes(g, n, D, b, step),
         NEW i \in 0 .. m, i <= n
  PROVE  f[i] = g[i]
<1> DEFINE T == { k \in Nat : k <= m /\ k <= n => f[k] = g[k] }
<1>1. 0 \in T
  BY DEF Goes
<1>2. ASSUME NEW k \in T
      PROVE  k + 1 \in T
  <2>1. CASE k + 1 <= m /\ k + 1 <= n
    <3>1. k \in 0 .. m /\ k \in 0 .. n /\ k # m /\ k # n /\ f[k] = g[k]
      BY <2>1
    <3>2. f[k + 1] = step[<<k + 1, f[k]>>] /\ g[k + 1] = step[<<k + 1, g[k]>>]
      BY <3>1 DEF Goes
    <3> QED
      BY <3>1, <3>2
  <2> QED
    BY <2>1
<1>3. T = Nat
  <2> HIDE DEF T
  <2>1. T \in SUBSET Nat
    BY DEF T
  <2> QED
    BY <1>1, <1>2, <2>1, PassesOn
<1>4. i \in T
  BY <1>3
<1> QED
  BY <1>4

\* And so there is one for all numbers.
GoesForever(f, D, b, step) ==
  f \in [Nat -> D] /\ f[0] = b /\ \A i \in Nat : f[i + 1] = step[<<i + 1, f[i]>>]

\* A function defined from one number to the next exists for all of them.
LEMMA GoesOn ==
  ASSUME NEW D, NEW b \in D, NEW step \in [Nat \X D -> D]
  PROVE  \E f : GoesForever(f, D, b, step)
<1> DEFINE upTo(n) == CHOOSE f : Goes(f, n, D, b, step)
           g == [n \in Nat |-> upTo(n)[n]]
<1>1. ASSUME NEW n \in Nat
      PROVE  Goes(upTo(n), n, D, b, step)
  BY GoesUpTo
<1> HIDE DEF upTo
<1>2. g \in [Nat -> D]
  <2>1. \A n \in Nat : n \in 0 .. n
    OBVIOUS
  <2> QED
    BY <1>1, <2>1 DEF Goes
<1>3. g[0] = b
  BY <1>1 DEF Goes
<1>4. ASSUME NEW i \in Nat
      PROVE  g[i + 1] = step[<<i + 1, g[i]>>]
  <2>1. i \in 0 .. i + 1 /\ i \in 0 .. i /\ i <= i /\ i # i + 1 /\ i <= i + 1 /\ i + 1 \in Nat
    OBVIOUS
  <2>2. upTo(i + 1)[i] = upTo(i)[i]
    <3>1. Goes(upTo(i + 1), i + 1, D, b, step) /\ Goes(upTo(i), i, D, b, step)
      BY <1>1, <2>1
    <3> QED
      BY <2>1, <3>1, GoesAgree
  <2>3. upTo(i + 1)[i + 1] = step[<<i + 1, upTo(i + 1)[i]>>]
    BY <1>1, <2>1 DEF Goes
  <2> QED
    BY <2>1, <2>2, <2>3
<1>5. GoesForever(g, D, b, step)
  BY <1>2, <1>3, <1>4 DEF GoesForever
<1> QED
  BY <1>5

\* A function that does not leave D.
LEMMA StaysIn ==
  ASSUME NEW D, NEW n \in Nat, NEW f, f[0] \in D,
         \A i \in 0 .. n : i # n /\ f[i] \in D => f[i + 1] \in D
  PROVE  \A i \in 0 .. n : f[i] \in D
<1> DEFINE T == { k \in Nat : k <= n => f[k] \in D }
<1>1. 0 \in T
  OBVIOUS
<1>2. ASSUME NEW k \in T
      PROVE  k + 1 \in T
  <2>1. CASE k + 1 <= n
    <3>1. k \in 0 .. n /\ k # n /\ f[k] \in D
      BY <2>1
    <3> QED
      BY <3>1
  <2> QED
    BY <2>1
<1>3. T = Nat
  <2> HIDE DEF T
  <2>1. T \in SUBSET Nat
    BY DEF T
  <2> QED
    BY <1>1, <1>2, <2>1, PassesOn
<1> QED
  BY <1>3

-----------------------------------------------------------------------------
(* What the definition says, character by character. *)

State == [quote : Quotes \cup {"gap", "word", "error"}, escaped : BOOLEAN, nr : Nat]

First == [quote |-> "gap", escaped |-> FALSE, nr |-> 0]

\* What comes after a state is a state.
LEMMA StateAfterTyped ==
  ASSUME NEW s \in State, NEW c
  PROVE  StateAfter(s, c) \in State
<1>1. /\ s.quote \in Quotes \cup {"gap", "word", "error"} /\ s.escaped \in BOOLEAN
      /\ s.nr \in Nat /\ s.nr + 1 \in Nat
  BY DEF State
<1>2. \A q \in Quotes \cup {"gap", "word", "error"}, b \in BOOLEAN :
        /\ [s EXCEPT !.quote = q] \in State
        /\ [s EXCEPT !.escaped = b] \in State
        /\ [s EXCEPT !.quote = q, !.nr = @ + 1] \in State
  BY <1>1 DEF State
<1> QED
  BY <1>2 DEF StateAfter

\* The states that the characters of a text lead to, one after the other.
LEMMA StatesAre ==
  ASSUME NEW str, Len(str) \in Nat
  PROVE  /\ StateAt(str)[0] = First
         /\ \A i \in 0 .. Len(str) : StateAt(str)[i] \in State
         /\ \A i \in 0 .. Len(str) :
              i # Len(str) => StateAt(str)[i + 1] = StateAfter(StateAt(str)[i], str[i + 1])
<1> DEFINE n == Len(str)
           IsState(f) == f = [i \in 0 .. n |-> IF i = 0 THEN First
                                               ELSE StateAfter(f[i - 1], str[i])]
           step == [p \in Nat \X State |-> StateAfter(p[2], str[p[1]])]
           state == CHOOSE f : IsState(f)
<1>0. First \in State
  BY DEF First, State
<1>1. step \in [Nat \X State -> State]
  BY StateAfterTyped
<1>2. PICK f : Goes(f, n, State, First, step)
  BY <1>0, <1>1, GoesUpTo
<1>3. IsState(f)
  <2>1. ASSUME NEW i \in 0 .. n, i # 0
        PROVE  f[i] = StateAfter(f[i - 1], str[i])
    <3>1. i - 1 \in 0 .. n /\ i - 1 # n /\ (i - 1) + 1 = i /\ i \in Nat
      BY <2>1
    <3>2. f[i] = step[<<i, f[i - 1]>>] /\ f[i - 1] \in State
      BY <1>2, <3>1 DEF Goes
    <3> QED
      BY <3>1, <3>2
  <2>2. f = [i \in 0 .. n |-> f[i]] /\ f[0] = First
    BY <1>2 DEF Goes
  <2> QED
    BY <2>1, <2>2
<1>4. IsState(state)
  BY <1>3
<1>5. StateAt(str) = state
  BY DEF StateAt, First
<1> HIDE DEF state
<1>6. state[0] = First
  BY <1>4
<1>7. ASSUME NEW i \in 0 .. n, i # n
      PROVE  state[i + 1] = StateAfter(state[i], str[i + 1])
  <2>1. i + 1 \in 0 .. n /\ i + 1 # 0 /\ (i + 1) - 1 = i
    BY <1>7
  <2> QED
    BY <1>4, <2>1
<1>8. \A i \in 0 .. n : state[i] \in State
  <2>1. \A i \in 0 .. n : i # n /\ state[i] \in State => state[i + 1] \in State
    BY <1>7, StateAfterTyped
  <2> QED
    BY <1>0, <1>6, <2>1, StaysIn
<1> QED
  BY <1>5, <1>6, <1>7, <1>8

\* From an error on there is nothing else.
LEMMA ErrorStays ==
  ASSUME NEW str, Len(str) \in Nat, NEW i \in 0 .. Len(str),
         StateAt(str)[i].quote = "error"
  PROVE  StateAt(str)[Len(str)].quote = "error"
<1> DEFINE n == Len(str)
           state == StateAt(str)
           Errors == { s \in State : s.quote = "error" }
           f == [k \in 0 .. n - i |-> state[i + k]]
<1>1. \A s \in Errors : \A c : StateAfter(s, c) \in Errors
  <2> SUFFICES ASSUME NEW s \in Errors, NEW c
               PROVE  StateAfter(s, c).quote = "error"
    BY StateAfterTyped
  <2>1. s.quote = "error" /\ s = [quote |-> s.quote, escaped |-> s.escaped, nr |-> s.nr]
    BY DEF State
  <2>2. "error" \notin Quotes
    BY DEF Quotes
  <2> QED
    BY <2>1, <2>2 DEF StateAfter
<1>2. n - i \in Nat /\ 0 \in 0 .. n - i /\ n - i \in 0 .. n - i /\ i + (n - i) = n /\ i + 0 = i
  OBVIOUS
<1>3. \A k \in 0 .. n : state[k] \in State
  BY StatesAre
<1>4. f[0] \in Errors
  BY <1>2, <1>3
<1>5. ASSUME NEW k \in 0 .. n - i, k # n - i, f[k] \in Errors
      PROVE  f[k + 1] \in Errors
  <2>1. /\ k + 1 \in 0 .. n - i /\ i + k \in 0 .. n /\ i + k # n
        /\ i + (k + 1) = (i + k) + 1
    BY <1>5
  <2>2. state[(i + k) + 1] = StateAfter(state[i + k], str[(i + k) + 1])
    BY <2>1, StatesAre
  <2> QED
    BY <1>1, <1>5, <2>1, <2>2
<1>6. f[n - i] \in Errors
  <2> HIDE DEF f, Errors, n
  <2> QED
    BY <1>2, <1>4, <1>5, StaysIn
<1> QED
  BY <1>2, <1>6

\* What the characters of a text have of an argument, one after the other.
LEMMA PartsAre ==
  ASSUME NEW str \in Seq(Chars), NEW k
  PROVE  /\ Part(str, k)[0] = << >>
         /\ \A i \in 0 .. Len(str) : Part(str, k)[i] \in Seq(Chars)
         /\ \A i \in 0 .. Len(str) : i # Len(str) =>
              Part(str, k)[i + 1] = IF PartOf(StateAt(str), str, k, i + 1)
                                    THEN Append(Part(str, k)[i], str[i + 1])
                                    ELSE Part(str, k)[i]
<1> DEFINE n == Len(str)
           Of(i) == PartOf(StateAt(str), str, k, i)
           IsPart(f) == f = [i \in 0 .. n |-> IF i = 0 THEN << >>
                                              ELSE IF Of(i) THEN Append(f[i - 1], str[i])
                                              ELSE f[i - 1]]
           step == [p \in Nat \X Seq(Chars) |->
                      IF p[1] \in 1 .. n /\ Of(p[1]) THEN Append(p[2], str[p[1]]) ELSE p[2]]
           part == CHOOSE f : IsPart(f)
<1> HIDE DEF Of
<1>0. n \in Nat /\ << >> \in Seq(Chars) /\ \A i \in 1 .. n : str[i] \in Chars
  OBVIOUS
<1>1. step \in [Nat \X Seq(Chars) -> Seq(Chars)]
  BY <1>0
<1>2. PICK f : Goes(f, n, Seq(Chars), << >>, step)
  BY <1>0, <1>1, GoesUpTo
<1>3. IsPart(f)
  <2>1. ASSUME NEW i \in 0 .. n, i # 0
        PROVE  f[i] = IF Of(i) THEN Append(f[i - 1], str[i]) ELSE f[i - 1]
    <3>1. /\ i - 1 \in 0 .. n /\ i - 1 # n /\ (i - 1) + 1 = i /\ i \in Nat
          /\ i \in 1 .. n
      BY <1>0, <2>1
    <3>2. f[i] = step[<<i, f[i - 1]>>] /\ f[i - 1] \in Seq(Chars)
      BY <1>2, <3>1 DEF Goes
    <3> QED
      BY <3>1, <3>2
  <2>2. f = [i \in 0 .. n |-> f[i]] /\ f[0] = << >>
    BY <1>2 DEF Goes
  <2> QED
    BY <2>1, <2>2
<1>4. IsPart(part)
  BY <1>3
<1>5. Part(str, k) = part
  BY DEF Part, Of
<1> HIDE DEF part
<1>6. part[0] = << >>
  BY <1>0, <1>4
<1>7. ASSUME NEW i \in 0 .. n, i # n
      PROVE  part[i + 1] = IF Of(i + 1) THEN Append(part[i], str[i + 1]) ELSE part[i]
  <2>1. i + 1 \in 0 .. n /\ i + 1 # 0 /\ (i + 1) - 1 = i
    BY <1>0, <1>7
  <2> QED
    BY <1>4, <2>1
<1>8. \A i \in 0 .. n : part[i] \in Seq(Chars)
  <2>1. ASSUME NEW i \in 0 .. n, i # n, part[i] \in Seq(Chars)
        PROVE  part[i + 1] \in Seq(Chars)
    <3>1. str[i + 1] \in Chars
      BY <1>0, <2>1
    <3>2. Append(part[i], str[i + 1]) \in Seq(Chars)
      BY <2>1, <3>1, AppendProperties
    <3> HIDE DEF n
    <3> QED
      BY <1>7, <2>1, <3>2
  <2> HIDE DEF n
  <2> QED
    BY <1>0, <1>6, <2>1, StaysIn
<1> QED
  BY <1>5, <1>6, <1>7, <1>8 DEF Of

\* The arguments that are not empty, one after the other.
LEMMA NotEmptyAre ==
  ASSUME NEW str \in Seq(Chars), NEW i \in 0 .. Len(str)
  PROVE  /\ NotEmpty(str, i)[0] = << >>
         /\ \A k \in Nat : NotEmpty(str, i)[k] \in Seq(Seq(Chars))
         /\ \A k \in Nat : NotEmpty(str, i)[k + 1] =
              IF Part(str, k + 1)[i] = << >> THEN NotEmpty(str, i)[k]
              ELSE Append(NotEmpty(str, i)[k], Part(str, k + 1)[i])
<1> DEFINE D == Seq(Seq(Chars))
           text(k) == Part(str, k)[i]
           IsRead(f) == f = [k \in Nat |-> IF k = 0 THEN << >>
                                           ELSE IF text(k) = << >> THEN f[k - 1]
                                           ELSE Append(f[k - 1], text(k))]
           step == [p \in Nat \X D |->
                      IF text(p[1]) = << >> THEN p[2] ELSE Append(p[2], text(p[1]))]
           read == CHOOSE f : IsRead(f)
<1>0. << >> \in D /\ \A k : text(k) \in Seq(Chars)
  BY PartsAre
<1>5. NotEmpty(str, i) = read
  BY DEF NotEmpty
<1> HIDE DEF text
<1>1. step \in [Nat \X D -> D]
  BY <1>0
<1>2. PICK f : /\ f \in [Nat -> D] /\ f[0] = << >>
               /\ \A k \in Nat : f[k + 1] = step[<<k + 1, f[k]>>]
  <2> HIDE DEF D, step
  <2>1. \E f : GoesForever(f, D, << >>, step)
    BY <1>0, <1>1, GoesOn
  <2> QED
    BY <2>1 DEF GoesForever
<1>3. IsRead(f)
  <2>1. ASSUME NEW k \in Nat, k # 0
        PROVE  f[k] = IF text(k) = << >> THEN f[k - 1] ELSE Append(f[k - 1], text(k))
    <3>1. k - 1 \in Nat /\ (k - 1) + 1 = k
      BY <2>1
    <3>2. f[k] = step[<<k, f[k - 1]>>] /\ f[k - 1] \in D
      BY <1>2, <3>1
    <3> QED
      BY <3>1, <3>2
  <2>2. f = [k \in Nat |-> f[k]] /\ f[0] = << >>
    BY <1>2
  <2> QED
    BY <2>1, <2>2
<1>4. IsRead(read)
  BY <1>3
<1> HIDE DEF read
<1>6. read[0] = << >>
  BY <1>4
<1>7. ASSUME NEW k \in Nat
      PROVE  read[k + 1] = IF text(k + 1) = << >> THEN read[k] ELSE Append(read[k], text(k + 1))
  <2>1. k + 1 \in Nat /\ k + 1 # 0 /\ (k + 1) - 1 = k
    OBVIOUS
  <2> QED
    BY <1>4, <2>1
<1>8. ASSUME NEW k \in Nat
      PROVE  read[k] \in D
  <2> DEFINE T == { l \in Nat : read[l] \in D }
  <2>1. 0 \in T
    BY <1>0, <1>6
  <2>2. ASSUME NEW l \in T
        PROVE  l + 1 \in T
    <3>1. text(l + 1) \in Seq(Chars) /\ read[l] \in D /\ l \in Nat
      BY <1>0
    <3>2. Append(read[l], text(l + 1)) \in D
      BY <3>1, AppendProperties
    <3>3. read[l + 1] \in D
      BY <1>7, <3>1, <3>2
    <3> QED
      BY <3>1, <3>3
  <2>3. T = Nat
    <3> HIDE DEF T
    <3>1. T \in SUBSET Nat
      BY DEF T
    <3> QED
      BY <2>1, <2>2, <3>1, PassesOn
  <2> QED
    BY <2>3
<1> QED
  BY <1>5, <1>6, <1>7, <1>8 DEF text

\* What has been read stays as it is where the parts do.
LEMMA NotEmptySame ==
  ASSUME NEW str \in Seq(Chars), NEW i \in 0 .. Len(str), NEW j \in 0 .. Len(str), NEW m \in Nat,
         \A k \in 1 .. m : Part(str, k)[i] = Part(str, k)[j]
  PROVE  NotEmpty(str, i)[m] = NotEmpty(str, j)[m]
<1> DEFINE T == { k \in Nat : k <= m => NotEmpty(str, i)[k] = NotEmpty(str, j)[k] }
<1>1. 0 \in T
  BY NotEmptyAre
<1>2. ASSUME NEW k \in T
      PROVE  k + 1 \in T
  <2>1. CASE k + 1 <= m
    <3>1. k \in Nat /\ k + 1 \in 1 .. m /\ NotEmpty(str, i)[k] = NotEmpty(str, j)[k]
      BY <2>1
    <3>2. Part(str, k + 1)[i] = Part(str, k + 1)[j]
      BY <3>1
    <3>3. \A x \in {i, j} : NotEmpty(str, x)[k + 1] =
             IF Part(str, k + 1)[x] = << >> THEN NotEmpty(str, x)[k]
             ELSE Append(NotEmpty(str, x)[k], Part(str, k + 1)[x])
      BY <3>1, NotEmptyAre
    <3>4. NotEmpty(str, i)[k + 1] = NotEmpty(str, j)[k + 1]
      BY <3>1, <3>2, <3>3
    <3> QED
      BY <3>4
  <2> QED
    BY <2>1
<1>3. T = Nat
  <2> HIDE DEF T
  <2>1. T \in SUBSET Nat
    BY DEF T
  <2> QED
    BY <1>1, <1>2, <2>1, PassesOn
<1>4. m \in T /\ m <= m
  BY <1>3
<1> QED
  BY <1>4

-----------------------------------------------------------------------------
(* Quoted words. *)

\* From position o on there is w in quotes q: P[j] is where w[j + 1] is, or the
\* backslash before it.
Spells(str, o, w, q, P) ==
  /\ P \in [0 .. Len(w) -> Nat] /\ P[0] = o + 1
  /\ o + 1 <= Len(str) /\ str[o + 1] = q
  /\ \A j \in 0 .. Len(w) : j # Len(w) /\ w[j + 1] \in {Backslash, q} =>
       /\ P[j + 1] = P[j] + 2 /\ P[j] + 2 <= Len(str)
       /\ str[P[j] + 1] = Backslash /\ str[P[j] + 2] = w[j + 1]
  /\ \A j \in 0 .. Len(w) : j # Len(w) /\ w[j + 1] \notin {Backslash, q} =>
       /\ P[j + 1] = P[j] + 1 /\ P[j] + 1 <= Len(str)
       /\ str[P[j] + 1] = w[j + 1]
  /\ P[Len(w)] + 1 <= Len(str) /\ str[P[Len(w)] + 1] = q

\* A text and one that goes on after it.
Begins(a, b) == Len(a) <= Len(b) /\ \A x \in 1 .. Len(a) : a[x] = b[x]

\* A text goes on with another one behind it.
LEMMA BeginsConcat ==
  ASSUME NEW S, NEW a \in Seq(S), NEW b \in Seq(S)
  PROVE  /\ a \o b \in Seq(S) /\ Len(a \o b) = Len(a) + Len(b) /\ Begins(a, a \o b)
         /\ \A x \in 1 .. Len(b) : (a \o b)[Len(a) + x] = b[x]
<1>1. /\ a \o b \in Seq(S) /\ Len(a \o b) = Len(a) + Len(b)
      /\ \A x \in 1 .. Len(a) + Len(b) :
           (a \o b)[x] = IF x <= Len(a) THEN a[x] ELSE b[x - Len(a)]
  BY ConcatProperties
<1>2. Len(a) \in Nat /\ Len(b) \in Nat
  OBVIOUS
<1>3. Begins(a, a \o b)
  BY <1>1, <1>2 DEF Begins
<1>4. ASSUME NEW x \in 1 .. Len(b)
      PROVE  (a \o b)[Len(a) + x] = b[x]
  <2>1. Len(a) + x \in 1 .. Len(a) + Len(b) /\ ~(Len(a) + x <= Len(a)) /\ (Len(a) + x) - Len(a) = x
    BY <1>2
  <2> QED
    BY <1>1, <2>1
<1> QED
  BY <1>1, <1>3, <1>4

\* Between the quotes.
Escaped(c, q) == IF c \in {Backslash, q} THEN <<Backslash, c>> ELSE <<c>>

IsText(T, w, q) ==
  T = [i \in 0 .. Len(w) |-> IF i = 0 THEN <<q>> ELSE T[i - 1] \o Escaped(w[i], q)]

\* The text of a quoted word, up to each of its characters.
LEMMA TextIs ==
  ASSUME NEW w \in Seq(Chars), NEW q \in Quotes
  PROVE  \E T : /\ QuotedWord(w, q) = Append(T[Len(w)], q)
                /\ T[0] = <<q>>
                /\ \A i \in 0 .. Len(w) : T[i] \in Seq(Chars)
                /\ \A i \in 0 .. Len(w) : i # Len(w) => T[i + 1] = T[i] \o Escaped(w[i + 1], q)
<1> DEFINE n == Len(w)
           D == Seq(Chars)
           step == [p \in Nat \X D |-> IF p[1] \in 1 .. n THEN p[2] \o Escaped(w[p[1]], q) ELSE p[2]]
           text == CHOOSE T : IsText(T, w, q)
<1>0. /\ n \in Nat /\ <<q>> \in D /\ \A i \in 1 .. n : w[i] \in Chars
      /\ Backslash \in Chars /\ q \in Chars
  <2>1. Backslash \in Chars /\ q \in Chars
    BY DEF Chars
  <2>2. <<q>> \in D
    BY <2>1
  <2> QED
    BY <2>1, <2>2
<1>1. \A c \in Chars : Escaped(c, q) \in D
  BY <1>0 DEF Escaped
<1>2. step \in [Nat \X D -> D]
  <2>1. \A p \in Nat \X D : p[1] \in 1 .. n => p[2] \o Escaped(w[p[1]], q) \in D
    BY <1>0, <1>1, BeginsConcat
  <2> HIDE DEF D
  <2> QED
    BY <2>1
<1>3. PICK f : Goes(f, n, D, <<q>>, step)
  <2> HIDE DEF D, step, n
  <2> QED
    BY <1>0, <1>2, GoesUpTo
<1>4. IsText(f, w, q)
  <2>1. ASSUME NEW i \in 0 .. n, i # 0
        PROVE  f[i] = f[i - 1] \o Escaped(w[i], q)
    <3>1. /\ i - 1 \in 0 .. n /\ i - 1 # n /\ (i - 1) + 1 = i /\ i \in Nat
          /\ i \in 1 .. n
      BY <1>0, <2>1
    <3>2. f[i] = step[<<i, f[i - 1]>>] /\ f[i - 1] \in D
      BY <1>3, <3>1 DEF Goes
    <3> HIDE DEF D
    <3> QED
      BY <3>1, <3>2
  <2>2. f = [i \in 0 .. n |-> f[i]] /\ f[0] = <<q>>
    BY <1>3 DEF Goes
  <2> QED
    BY <2>1, <2>2 DEF IsText
<1>5. IsText(text, w, q)
  BY <1>4
<1>6. QuotedWord(w, q) = Append(text[n], q)
  BY DEF QuotedWord, IsText, Escaped
<1> HIDE DEF text
<1>7. text[0] = <<q>>
  BY <1>0, <1>5 DEF IsText
<1>8. ASSUME NEW i \in 0 .. n, i # n
      PROVE  text[i + 1] = text[i] \o Escaped(w[i + 1], q)
  <2>1. i + 1 \in 0 .. n /\ i + 1 # 0 /\ (i + 1) - 1 = i
    BY <1>0, <1>8
  <2> QED
    BY <1>5, <2>1 DEF IsText
<1>9. \A i \in 0 .. n : text[i] \in D
  <2>1. ASSUME NEW i \in 0 .. n, i # n, text[i] \in D
        PROVE  text[i + 1] \in D
    <3>1. Escaped(w[i + 1], q) \in D
      <4>1. w[i + 1] \in Chars
        BY <1>0, <2>1
      <4> QED
        BY <1>1, <4>1
    <3>2. text[i] \o Escaped(w[i + 1], q) \in D
      BY <2>1, <3>1, BeginsConcat
    <3> HIDE DEF D
    <3> QED
      BY <1>8, <2>1, <3>2
  <2> HIDE DEF D, n
  <2> QED
    BY <1>0, <1>7, <2>1, StaysIn
<1> QED
  BY <1>6, <1>7, <1>8, <1>9

\* A text that goes on after another goes on after what that one goes on after.
LEMMA BeginsOn ==
  ASSUME NEW a, Len(a) \in Nat, NEW b, Len(b) \in Nat, NEW c, Len(c) \in Nat,
         Begins(a, b), Begins(b, c)
  PROVE  Begins(a, c)
<1>1. Len(a) <= Len(b) /\ Len(b) <= Len(c)
  BY DEF Begins
<1>2. ASSUME NEW x \in 1 .. Len(a)
      PROVE  a[x] = c[x]
  <2>1. x \in 1 .. Len(b)
    BY <1>1
  <2> QED
    BY <2>1 DEF Begins
<1> QED
  BY <1>1, <1>2 DEF Begins

\* The text of a quoted word spells it.
LEMMA QuotedWordSpells ==
  ASSUME NEW w \in Seq(Chars), NEW q \in Quotes
  PROVE  /\ QuotedWord(w, q) \in Seq(Chars)
         /\ \E P : /\ Spells(QuotedWord(w, q), 0, w, q, P)
                   /\ P[Len(w)] + 1 = Len(QuotedWord(w, q))
<1> DEFINE n == Len(w)
           str == QuotedWord(w, q)
<1>0. n \in Nat /\ q \in Chars /\ Backslash \in Chars
  <2>1. q \in Chars /\ Backslash \in Chars
    BY DEF Chars
  <2> QED
    BY <2>1
<1>1. PICK T : /\ str = Append(T[n], q)
               /\ T[0] = <<q>>
               /\ \A i \in 0 .. n : T[i] \in Seq(Chars)
               /\ \A i \in 0 .. n : i # n => T[i + 1] = T[i] \o Escaped(w[i + 1], q)
  BY TextIs
<1>2. /\ n \in 0 .. n /\ 0 \in 0 .. n
      /\ \A i \in 0 .. n : Len(T[i]) \in Nat
  BY <1>0, <1>1
<1> HIDE DEF str
<1>3. /\ str \in Seq(Chars) /\ Len(str) = Len(T[n]) + 1 /\ str[Len(T[n]) + 1] = q
      /\ Begins(T[n], str)
  BY <1>0, <1>1, <1>2, AppendProperties DEF Begins
<1>4. ASSUME NEW i \in 0 .. n, i # n
      PROVE  /\ w[i + 1] \in Chars /\ i + 1 \in 0 .. n
             /\ Begins(T[i], T[i + 1])
             /\ w[i + 1] \in {Backslash, q} => /\ Len(T[i + 1]) = Len(T[i]) + 2
                                          /\ T[i + 1][Len(T[i]) + 1] = Backslash
                                          /\ T[i + 1][Len(T[i]) + 2] = w[i + 1]
             /\ w[i + 1] \notin {Backslash, q} => /\ Len(T[i + 1]) = Len(T[i]) + 1
                                             /\ T[i + 1][Len(T[i]) + 1] = w[i + 1]
  <2> DEFINE c == w[i + 1]
             e == Escaped(c, q)
  <2>1. c \in Chars /\ i + 1 \in 0 .. n
    BY <1>0, <1>4
  <2>2. T[i] \in Seq(Chars) /\ T[i + 1] = T[i] \o e
    BY <1>1, <1>4
  <2> HIDE DEF c
  <2>3. /\ c \in {Backslash, q} => e = <<Backslash, c>>
        /\ c \notin {Backslash, q} => e = <<c>>
    BY DEF Escaped
  <2>4. /\ c \in {Backslash, q} => Len(e) = 2 /\ e[1] = Backslash /\ e[2] = c
        /\ c \notin {Backslash, q} => Len(e) = 1 /\ e[1] = c
        /\ e \in Seq(Chars)
    <3>1. CASE c \in {Backslash, q}
      <4> DEFINE b == Backslash
      <4>1. e = <<b, c>> /\ b \in Chars
        BY <1>0, <2>3, <3>1
      <4> HIDE DEF b, e
      <4>2. Len(e) = 2 /\ e[1] = b /\ e[2] = c /\ e \in Seq(Chars)
        BY <2>1, <4>1
      <4> QED
        BY <3>1, <4>2 DEF b
    <3>2. CASE c \notin {Backslash, q}
      <4>1. e = <<c>>
        BY <2>3, <3>2
      <4> HIDE DEF e
      <4>2. Len(e) = 1 /\ e[1] = c /\ e \in Seq(Chars)
        BY <2>1, <4>1
      <4> QED
        BY <3>2, <4>2
    <3> QED
      BY <3>1, <3>2
  <2> HIDE DEF e
  <2>5. /\ Begins(T[i], T[i + 1])
        /\ Len(T[i + 1]) = Len(T[i]) + Len(e)
        /\ \A x \in 1 .. Len(e) : T[i + 1][Len(T[i]) + x] = e[x]
    BY <2>2, <2>4, BeginsConcat, SMTT(60)
  <2>6. CASE c \in {Backslash, q}
    <3>1. Len(e) = 2 /\ 1 \in 1 .. 2 /\ 2 \in 1 .. 2
      BY <2>4, <2>6
    <3> QED
      BY <2>1, <2>4, <2>5, <2>6, <3>1 DEF c
  <2>7. CASE c \notin {Backslash, q}
    <3>1. Len(e) = 1 /\ 1 \in 1 .. 1
      BY <2>4, <2>7
    <3> QED
      BY <2>1, <2>4, <2>5, <2>7, <3>1 DEF c
  <2> QED
    BY <2>6, <2>7
<1>5. ASSUME NEW i \in 0 .. n
      PROVE  Begins(T[i], str)
  <2> DEFINE M == { k \in Nat : k <= n => Begins(T[n - k], str) }
  <2>1. 0 \in M
    BY <1>0, <1>3
  <2>2. ASSUME NEW k \in M
        PROVE  k + 1 \in M
    <3>1. CASE k + 1 <= n
      <4>1. /\ n - (k + 1) \in 0 .. n /\ n - (k + 1) # n /\ (n - (k + 1)) + 1 = n - k
            /\ n - k \in 0 .. n /\ Begins(T[n - k], str) /\ Len(str) \in Nat
        BY <1>0, <1>3, <3>1
      <4>2. Begins(T[n - (k + 1)], T[n - k])
        BY <1>4, <4>1
      <4>3. Begins(T[n - (k + 1)], str)
        BY <1>2, <4>1, <4>2, BeginsOn
      <4> QED
        BY <4>3
    <3> QED
      BY <3>1
  <2>3. M = Nat
    <3> HIDE DEF M
    <3>1. M \in SUBSET Nat
      BY DEF M
    <3> QED
      BY <2>1, <2>2, <3>1, PassesOn
  <2>4. n - i \in M /\ n - i <= n /\ n - (n - i) = i
    <3>1. n - i \in Nat /\ n - i <= n /\ n - (n - i) = i
      BY <1>0
    <3> QED
      BY <2>3, <3>1
  <2> QED
    BY <2>4
<1> DEFINE P == [j \in 0 .. n |-> Len(T[j])]
<1>6. /\ P \in [0 .. n -> Nat] /\ \A j \in 0 .. n : P[j] = Len(T[j])
  BY <1>2
<1> HIDE DEF P, n
<1>7. P[0] = 1 /\ 1 <= Len(str) /\ str[1] = q
  <2>1. Len(T[0]) = 1 /\ T[0][1] = q /\ 1 \in 1 .. 1
    BY <1>1
  <2> QED
    BY <1>2, <1>5, <1>6, <2>1 DEF Begins
<1>8. ASSUME NEW j \in 0 .. n, j # n, w[j + 1] \in {Backslash, q}
      PROVE  /\ P[j + 1] = P[j] + 2 /\ P[j] + 2 <= Len(str)
             /\ str[P[j] + 1] = Backslash /\ str[P[j] + 2] = w[j + 1]
  <2>1. /\ P[j] = Len(T[j]) /\ P[j + 1] = Len(T[j + 1]) /\ P[j] \in Nat /\ j + 1 \in 0 .. n
        /\ Begins(T[j + 1], str)
    BY <1>2, <1>4, <1>5, <1>6, <1>8
  <2>2. P[j + 1] = P[j] + 2 /\ T[j + 1][P[j] + 1] = Backslash /\ T[j + 1][P[j] + 2] = w[j + 1]
    BY <1>4, <1>8, <2>1
  <2>3. P[j] + 1 \in 1 .. P[j + 1] /\ P[j] + 2 \in 1 .. P[j + 1]
    BY <2>1, <2>2
  <2> QED
    BY <2>1, <2>2, <2>3 DEF Begins
<1>9. ASSUME NEW j \in 0 .. n, j # n, w[j + 1] \notin {Backslash, q}
      PROVE  /\ P[j + 1] = P[j] + 1 /\ P[j] + 1 <= Len(str)
             /\ str[P[j] + 1] = w[j + 1]
  <2>1. /\ P[j] = Len(T[j]) /\ P[j + 1] = Len(T[j + 1]) /\ P[j] \in Nat /\ j + 1 \in 0 .. n
        /\ Begins(T[j + 1], str)
    BY <1>2, <1>4, <1>5, <1>6, <1>9
  <2>2. P[j + 1] = P[j] + 1 /\ T[j + 1][P[j] + 1] = w[j + 1]
    BY <1>4, <1>9, <2>1
  <2>3. P[j] + 1 \in 1 .. P[j + 1]
    BY <2>1, <2>2
  <2> QED
    BY <2>1, <2>2, <2>3 DEF Begins
<1>10. P[n] + 1 = Len(str) /\ str[P[n] + 1] = q
  BY <1>2, <1>3, <1>6
<1>11. Spells(str, 0, w, q, P)
  <2>1. Len(str) \in Nat
    BY <1>3
  <2>2. P[n] + 1 <= Len(str)
    BY <1>10, <2>1
  <2> QED
    BY <1>6, <1>7, <1>8, <1>9, <1>10, <2>2 DEF Spells, n
<1> QED
  BY <1>3, <1>10, <1>11 DEF str, n

\* It does so before another text, and behind one.
LEMMA SpellsLeft ==
  ASSUME NEW a \in Seq(Chars), NEW b \in Seq(Chars), NEW w \in Seq(Chars), NEW q, NEW P,
         Spells(a, 0, w, q, P)
  PROVE  Spells(a \o b, 0, w, q, P)
<1> DEFINE t == a \o b
           n == Len(w)
<1>0. n \in Nat /\ Len(a) \in Nat /\ 0 \in Nat
  OBVIOUS
<1>1. Len(t) \in Nat /\ Len(a) <= Len(t) /\ \A x \in Nat : x # 0 /\ x <= Len(a) => t[x] = a[x]
  BY BeginsConcat DEF Begins
<1> HIDE DEF t, n
<1>2. /\ P \in [0 .. n -> Nat] /\ P[0] = 1 /\ 1 <= Len(a) /\ a[1] = q
      /\ \A j \in 0 .. n : j # n /\ w[j + 1] \in {Backslash, q} =>
           /\ P[j + 1] = P[j] + 2 /\ P[j] + 2 <= Len(a)
           /\ a[P[j] + 1] = Backslash /\ a[P[j] + 2] = w[j + 1]
      /\ \A j \in 0 .. n : j # n /\ w[j + 1] \notin {Backslash, q} =>
           /\ P[j + 1] = P[j] + 1 /\ P[j] + 1 <= Len(a)
           /\ a[P[j] + 1] = w[j + 1]
      /\ P[n] + 1 <= Len(a) /\ a[P[n] + 1] = q
  <2>1. P[0] = 0 + 1 /\ 0 + 1 <= Len(a) /\ a[0 + 1] = q
    BY Zenon DEF Spells
  <2>2. P[0] = 1 /\ 1 <= Len(a) /\ a[1] = q
    BY <2>1
  <2> QED
    BY <2>2, Zenon DEF Spells, n
<1>3. t[1] = q /\ 1 <= Len(t)
  BY <1>0, <1>1, <1>2
<1>4. ASSUME NEW j \in 0 .. n
      PROVE  /\ P[j] \in Nat
             /\ P[j] + 1 <= Len(a) => P[j] + 1 <= Len(t) /\ t[P[j] + 1] = a[P[j] + 1]
             /\ P[j] + 2 <= Len(a) => /\ P[j] + 2 <= Len(t) /\ t[P[j] + 2] = a[P[j] + 2]
                                      /\ P[j] + 1 <= Len(a)
  <2>1. P[j] \in Nat
    BY <1>2
  <2>2. ASSUME NEW x \in Nat, x # 0, x <= Len(a)
        PROVE  x <= Len(t) /\ t[x] = a[x]
    BY <1>0, <1>1, <2>2
  <2>3. ASSUME P[j] + 1 <= Len(a)
        PROVE  P[j] + 1 <= Len(t) /\ t[P[j] + 1] = a[P[j] + 1]
    <3>1. P[j] + 1 \in Nat /\ P[j] + 1 # 0
      BY <2>1
    <3> QED
      BY <2>2, <2>3, <3>1
  <2>4. ASSUME P[j] + 2 <= Len(a)
        PROVE  P[j] + 2 <= Len(t) /\ t[P[j] + 2] = a[P[j] + 2] /\ P[j] + 1 <= Len(a)
    <3>1. P[j] + 2 \in Nat /\ P[j] + 2 # 0
      BY <2>1
    <3>2. P[j] + 1 <= Len(a)
      BY <1>0, <2>1, <2>4
    <3> QED
      BY <2>2, <2>4, <3>1, <3>2
  <2> QED
    BY <2>1, <2>3, <2>4
<1>5. n \in 0 .. n
  BY <1>0
<1> QED
  BY <1>2, <1>3, <1>4, <1>5 DEF Spells, t, n

\* Behind another text a quoted word is spelt at positions moved by its length.
LEMMA SpellsRight ==
  ASSUME NEW a \in Seq(Chars), NEW b \in Seq(Chars), NEW w \in Seq(Chars), NEW q, NEW P,
         Spells(b, 0, w, q, P)
  PROVE  \E R : /\ Spells(a \o b, Len(a), w, q, R)
                /\ R[Len(w)] = Len(a) + P[Len(w)]
<1> DEFINE t == a \o b
           n == Len(w)
           o == Len(a)
           R == [j \in 0 .. n |-> o + P[j]]
<1>0. n \in Nat /\ o \in Nat /\ Len(b) \in Nat /\ 0 \in 0 .. n /\ n \in 0 .. n
  OBVIOUS
<1>1. /\ Len(t) = o + Len(b)
      /\ \A x \in Nat : x # 0 /\ x <= Len(b) => t[o + x] = b[x]
  BY BeginsConcat
<1> HIDE DEF t, n, o
<1>2. /\ P \in [0 .. n -> Nat] /\ P[0] = 1 /\ 1 <= Len(b) /\ b[1] = q
      /\ \A j \in 0 .. n : j # n /\ w[j + 1] \in {Backslash, q} =>
           /\ P[j + 1] = P[j] + 2 /\ P[j] + 2 <= Len(b)
           /\ b[P[j] + 1] = Backslash /\ b[P[j] + 2] = w[j + 1]
      /\ \A j \in 0 .. n : j # n /\ w[j + 1] \notin {Backslash, q} =>
           /\ P[j + 1] = P[j] + 1 /\ P[j] + 1 <= Len(b)
           /\ b[P[j] + 1] = w[j + 1]
      /\ P[n] + 1 <= Len(b) /\ b[P[n] + 1] = q
  BY DEF Spells, n
<1>3. R \in [0 .. n -> Nat] /\ \A j \in 0 .. n : R[j] = o + P[j]
  BY <1>0, <1>2
<1> HIDE DEF R
<1>4. R[0] = o + 1 /\ t[o + 1] = q /\ o + 1 <= Len(t)
  BY <1>0, <1>1, <1>2, <1>3
<1>5. ASSUME NEW j \in 0 .. n
      PROVE  /\ P[j] \in Nat /\ R[j] = o + P[j]
             /\ P[j] + 1 <= Len(b) => R[j] + 1 <= Len(t) /\ t[R[j] + 1] = b[P[j] + 1]
             /\ P[j] + 2 <= Len(b) => /\ R[j] + 2 <= Len(t) /\ t[R[j] + 2] = b[P[j] + 2]
                                      /\ P[j] + 1 <= Len(b)
  <2>1. P[j] \in Nat /\ R[j] = o + P[j]
    BY <1>2, <1>3
  <2>2. /\ P[j] + 1 \in Nat /\ P[j] + 2 \in Nat /\ P[j] + 1 # 0 /\ P[j] + 2 # 0
        /\ R[j] + 1 = o + (P[j] + 1) /\ R[j] + 2 = o + (P[j] + 2)
    BY <1>0, <2>1
  <2>3. ASSUME P[j] + 1 <= Len(b)
        PROVE  R[j] + 1 <= Len(t) /\ t[R[j] + 1] = b[P[j] + 1]
    <3>1. PICK x : x = P[j] + 1
      OBVIOUS
    <3>2. x \in Nat /\ x # 0 /\ x <= Len(b) /\ R[j] + 1 = o + x
      BY <2>2, <2>3, <3>1
    <3>3. t[o + x] = b[x] /\ o + x <= Len(t)
      BY <1>0, <1>1, <3>2
    <3> QED
      BY <1>0, <2>1, <2>3, <3>1, <3>2, <3>3
  <2>4. ASSUME P[j] + 2 <= Len(b)
        PROVE  R[j] + 2 <= Len(t) /\ t[R[j] + 2] = b[P[j] + 2] /\ P[j] + 1 <= Len(b)
    <3>1. PICK x : x = P[j] + 2
      OBVIOUS
    <3>2. x \in Nat /\ x # 0 /\ x <= Len(b) /\ R[j] + 2 = o + x
      BY <2>2, <2>4, <3>1
    <3>3. t[o + x] = b[x] /\ o + x <= Len(t)
      BY <1>0, <1>1, <3>2
    <3> QED
      BY <1>0, <2>1, <2>4, <3>1, <3>2, <3>3
  <2> QED
    BY <2>1, <2>3, <2>4
<1>6. ASSUME NEW j \in 0 .. n, j # n
      PROVE  /\ j + 1 \in 0 .. n /\ R[j + 1] = o + P[j + 1]
             /\ P[j + 1] = P[j] + 1 => R[j + 1] = R[j] + 1
             /\ P[j + 1] = P[j] + 2 => R[j + 1] = R[j] + 2
  <2>1. j + 1 \in 0 .. n
    BY <1>0, <1>6
  <2>2. R[j + 1] = o + P[j + 1] /\ R[j] = o + P[j] /\ P[j] \in Nat
    BY <1>5, <2>1
  <2> QED
    BY <1>0, <2>1, <2>2
<1>7. Spells(t, o, w, q, R)
  BY <1>0, <1>2, <1>3, <1>4, <1>5, <1>6 DEF Spells, n
<1> QED
  BY <1>0, <1>3, <1>7 DEF t, o, n

-----------------------------------------------------------------------------
(* From one character to the next. *)

\* The characters with a meaning are different ones, and no names of states.
LEMMA Characters ==
  /\ Backslash \notin Quotes /\ Blank \notin Quotes /\ Backslash # Blank
  /\ "gap" \notin Quotes /\ "word" \notin Quotes /\ "error" \notin Quotes
BY Zenon DEF Quotes, Backslash, Blank

Is(s, quote, e, nr) == s.quote = quote /\ s.escaped = e /\ s.nr = nr

\* The cases of StateAfter.
LEMMA AfterCases ==
  ASSUME NEW s \in State, NEW c
  PROVE  LET t == StateAfter(s, c) IN
         /\ t \in State
         /\ s.escaped /\ c \in {Backslash, s.quote} => Is(t, s.quote, FALSE, s.nr)
         /\ s.escaped /\ c \notin {Backslash, s.quote} => t.quote = "error"
         /\ ~s.escaped /\ s.quote \in Quotes /\ c = Backslash => Is(t, s.quote, TRUE, s.nr)
         /\ ~s.escaped /\ s.quote \in Quotes /\ c = s.quote => Is(t, "gap", FALSE, s.nr)
         /\ ~s.escaped /\ s.quote \in Quotes /\ c \notin {Backslash, s.quote} => t = s
         /\ ~s.escaped /\ s.quote \in {"gap", "word"} /\ c \in Quotes =>
              Is(t, c, FALSE, s.nr + 1)
         /\ ~s.escaped /\ s.quote \in {"gap", "word"} /\ c = Blank => Is(t, "gap", FALSE, s.nr)
         /\ ~s.escaped /\ s.quote = "gap" /\ c \notin Quotes \cup {Blank} =>
              Is(t, "word", FALSE, s.nr + 1)
         /\ ~s.escaped /\ s.quote = "word" /\ c \notin Quotes \cup {Blank} => t = s
<1> DEFINE t == StateAfter(s, c)
<1>0. /\ t \in State /\ s.escaped \in BOOLEAN
      /\ Backslash \notin Quotes /\ Blank \notin Quotes /\ "gap" \notin Quotes /\ "word" \notin Quotes
  BY StateAfterTyped, Characters DEF State
<1>1. /\ \A q : Is([s EXCEPT !.quote = q], q, s.escaped, s.nr)
      /\ \A e : Is([s EXCEPT !.escaped = e], s.quote, e, s.nr)
      /\ \A q : Is([s EXCEPT !.quote = q, !.nr = @ + 1], q, s.escaped, s.nr + 1)
  BY DEF State, Is
<1>2. CASE s.escaped
  <2>1. CASE c \in {Backslash, s.quote}
    <3>1. t = [s EXCEPT !.escaped = FALSE]
      BY <1>2, <2>1 DEF StateAfter
    <3> HIDE DEF t
    <3> QED
      BY <1>0, <1>1, <1>2, <2>1, <3>1 DEF t
  <2>2. CASE c \notin {Backslash, s.quote}
    <3>1. t = [s EXCEPT !.quote = "error"]
      BY <1>2, <2>2 DEF StateAfter
    <3>2. t.quote = "error"
      BY <1>1, <3>1 DEF Is
    <3> HIDE DEF t
    <3> QED
      BY <1>0, <1>2, <2>2, <3>2 DEF t
  <2> QED
    BY <2>1, <2>2
<1>3. CASE ~s.escaped /\ s.quote \in Quotes
  <2>0. s.escaped = FALSE
    BY <1>0, <1>3
  <2>1. CASE c = Backslash
    <3>1. t = [s EXCEPT !.escaped = TRUE]
      BY <1>3, <2>1 DEF StateAfter
    <3> HIDE DEF t
    <3> QED
      BY <1>0, <1>1, <1>3, <2>1, <3>1 DEF t
  <2>2. CASE c = s.quote
    <3>1. t = [s EXCEPT !.quote = "gap"]
      BY <1>0, <1>3, <2>2 DEF StateAfter
    <3> HIDE DEF t
    <3>2. Is(t, "gap", FALSE, s.nr)
      BY <1>1, <2>0, <3>1
    <3> QED
      BY <1>0, <1>3, <2>2, <3>2 DEF t
  <2>3. CASE c \notin {Backslash, s.quote}
    <3>1. t = s
      BY <1>3, <2>3 DEF StateAfter
    <3> HIDE DEF t
    <3> QED
      BY <1>0, <1>3, <2>3, <3>1 DEF t
  <2> QED
    BY <2>1, <2>2, <2>3
<1>4. CASE ~s.escaped /\ s.quote \in {"gap", "word"}
  <2>0. s.escaped = FALSE
    BY <1>0, <1>4
  <2>1. CASE c \in Quotes
    <3>1. t = [s EXCEPT !.quote = c, !.nr = @ + 1]
      BY <1>0, <1>4, <2>1 DEF StateAfter
    <3> HIDE DEF t
    <3>2. Is(t, c, FALSE, s.nr + 1)
      BY <1>1, <2>0, <3>1
    <3> QED
      BY <1>0, <1>4, <2>1, <3>2 DEF t
  <2>2. CASE c = Blank
    <3>1. t = [s EXCEPT !.quote = "gap"]
      BY <1>0, <1>4, <2>2 DEF StateAfter
    <3> HIDE DEF t
    <3>2. Is(t, "gap", FALSE, s.nr)
      BY <1>1, <2>0, <3>1
    <3> QED
      BY <1>0, <1>4, <2>2, <3>2 DEF t
  <2>3. CASE c \notin Quotes \cup {Blank} /\ s.quote = "gap"
    <3>1. t = [s EXCEPT !.quote = "word", !.nr = @ + 1]
      BY <1>0, <1>4, <2>3 DEF StateAfter
    <3> HIDE DEF t
    <3>2. Is(t, "word", FALSE, s.nr + 1)
      BY <1>1, <2>0, <3>1
    <3> QED
      BY <1>0, <1>4, <2>3, <3>2 DEF t
  <2>4. CASE c \notin Quotes \cup {Blank} /\ s.quote = "word"
    <3>1. t = s
      BY <1>0, <1>4, <2>4 DEF StateAfter
    <3> HIDE DEF t
    <3> QED
      BY <1>0, <1>4, <2>4, <3>1 DEF t
  <2> QED
    BY <1>4, <2>1, <2>2, <2>3, <2>4
<1>5. CASE ~s.escaped /\ s.quote \notin Quotes \cup {"gap", "word"}
  <2> HIDE DEF t
  <2> QED
    BY <1>0, <1>5 DEF t
<1> QED
  BY <1>0, <1>2, <1>3, <1>4, <1>5

\* A character that is read in state s belongs to an argument.
Belongs(s, c) ==
  s.escaped \/ c \notin (IF s.quote \in Quotes THEN {Backslash, s.quote} ELSE Quotes \cup {Blank})

\* One character more.
LEMMA Advance ==
  ASSUME NEW str \in Seq(Chars), NEW i \in 0 .. Len(str), i # Len(str),
         NEW s, s = StateAt(str)[i], NEW t, t = StateAfter(s, str[i + 1])
  PROVE  /\ i + 1 \in 0 .. Len(str)
         /\ s \in State /\ t \in State /\ StateAt(str)[i + 1] = t
         /\ \A k : Part(str, k)[i] \in Seq(Chars)
         /\ Belongs(s, str[i + 1]) => Part(str, t.nr)[i + 1] = Append(Part(str, t.nr)[i], str[i + 1])
         /\ \A k : k # t.nr \/ ~Belongs(s, str[i + 1]) => Part(str, k)[i + 1] = Part(str, k)[i]
         /\ \A m \in Nat : m < t.nr \/ ~Belongs(s, str[i + 1]) =>
              NotEmpty(str, i + 1)[m] = NotEmpty(str, i)[m]
<1> DEFINE c == str[i + 1]
<1>1. Len(str) \in Nat /\ i + 1 \in 0 .. Len(str) /\ (i + 1) - 1 = i
  OBVIOUS
<1>2. StateAt(str)[i + 1] = t /\ s \in State /\ t \in State
  BY <1>1, StatesAre
<1>3. \A k : PartOf(StateAt(str), str, k, i + 1) <=> t.nr = k /\ Belongs(s, c)
  BY <1>1, <1>2 DEF PartOf, Belongs
<1>4. \A k : /\ Part(str, k)[i] \in Seq(Chars)
             /\ Part(str, k)[i + 1] = IF t.nr = k /\ Belongs(s, c)
                                      THEN Append(Part(str, k)[i], c) ELSE Part(str, k)[i]
  BY <1>3, PartsAre
<1>5. ASSUME NEW m \in Nat, m < t.nr \/ ~Belongs(s, c)
      PROVE  NotEmpty(str, i + 1)[m] = NotEmpty(str, i)[m]
  <2>1. \A k \in 1 .. m : Part(str, k)[i + 1] = Part(str, k)[i]
    <3>1. t.nr \in Nat
      BY <1>2 DEF State
    <3> QED
      BY <1>4, <1>5, <3>1
  <2> QED
    BY <1>1, <2>1, NotEmptySame
<1> QED
  BY <1>1, <1>2, <1>4, <1>5

-----------------------------------------------------------------------------
(* The loops and the definition go together. *)

\* A function over the first positions is a sequence.
LEMMA WordsAreSequences ==
  ASSUME NEW S, NEW n \in Nat, NEW w \in [1 .. n -> S]
  PROVE  w \in Seq(S) /\ Len(w) = n
OBVIOUS

\* A line and everything read at first have their types.
LEMMA InitType ==
  ASSUME ArgumentsInit
  PROVE  TypeOK
<1>1. line \in Seq(Chars)
  <2>1. ASSUME NEW n \in 0 .. MaxLength, line \in [1 .. n -> Chars]
        PROVE  line \in Seq(Chars)
    <3>1. n \in Nat
      BY ArgumentsAssumption
    <3> QED
      BY <2>1, <3>1, WordsAreSequences
  <2>2. ASSUME NEW m \in 1 .. MaxWord, NEW n \in 1 .. MaxWord, NEW q \in Quotes, NEW r \in Quotes,
               NEW u \in [1 .. m -> Chars], NEW w \in [1 .. n -> Chars],
               line = QuotedWord(u, q) \o QuotedWord(w, r)
        PROVE  line \in Seq(Chars)
    <3>1. m \in Nat /\ n \in Nat
      BY ArgumentsAssumption
    <3>2. QuotedWord(u, q) \in Seq(Chars) /\ QuotedWord(w, r) \in Seq(Chars)
      BY <3>1, WordsAreSequences, QuotedWordSpells
    <3> QED
      BY <2>2, <3>2, BeginsConcat
  <2>3. SomeLine
    BY DEF ArgumentsInit
  <2>4. CASE line \in UNION { [1 .. n -> Chars] : n \in 0 .. MaxLength }
    BY <2>1, <2>4
  <2>5. CASE \E u, w \in UNION { [1 .. n -> Chars] : n \in 1 .. MaxWord }, q, r \in Quotes :
               line = QuotedWord(u, q) \o QuotedWord(w, r)
    BY <2>2, <2>5
  <2> QED
    BY <2>3, <2>4, <2>5 DEF SomeLine
<1>2. escaped \in BOOLEAN
  BY Zenon DEF ArgumentsInit
<1>3. /\ pos = 0 /\ buf = << >> /\ delim = Blank /\ arguments = << >>
      /\ at \in {"skip", "returned"}
  BY DEF ArgumentsInit
<1> QED
  BY <1>1, <1>2, <1>3 DEF TypeOK

\* The characters of the line are characters.
LEMMA CharIs ==
  ASSUME TypeOK, More
  PROVE  /\ pos \in 0 .. Len(line) /\ pos # Len(line) /\ pos + 1 \in 1 .. Len(line)
         /\ Char = line[pos + 1] /\ Char \in Chars
BY DEF TypeOK, More, Char

\* No step of the loops leaves the types.
LEMMA TypeNext ==
  ASSUME TypeOK, [Parse]_vars
  PROVE  TypeOK'
<1> DEFINE Others == /\ line \in Seq(Chars) /\ pos \in Nat /\ buf \in Seq(Chars)
                     /\ delim \in Quotes \cup {Blank} /\ arguments \in Seq(Seq(Chars))
                     /\ at \in {"skip", "read", "returned", "thrown"}
<1>0. Others /\ escaped \in BOOLEAN
  BY Zenon DEF TypeOK
<1>1. escaped' \in BOOLEAN
  <2>1. escaped' = escaped \/ escaped' = TRUE \/ escaped' = FALSE
    BY Zenon DEF vars, Parse, SkipWhitespace, SkipToEnd, BeginQuoted, BeginWord, EscapeThrows,
       ReadBackslash, ReadEscape, ReadChar, Keep, EndArgument
  <2> QED
    BY <1>0, <2>1, Zenon
<1> SUFFICES Others'
  BY <1>1, Zenon DEF TypeOK
<1>2. CASE UNCHANGED vars
  BY <1>0, <1>2 DEF vars
<1>3. CASE SkipWhitespace \/ SkipToEnd \/ BeginWord \/ EscapeThrows \/ ReadBackslash
  BY <1>0, <1>3 DEF SkipWhitespace, SkipToEnd, BeginWord, EscapeThrows, ReadBackslash
<1>4. CASE BeginQuoted
  BY <1>0, <1>4 DEF BeginQuoted
<1>5. CASE ReadEscape \/ ReadChar
  <2>1. /\ More /\ at = "read" /\ buf' = Append(buf, Char) /\ pos' = pos + 1
        /\ UNCHANGED <<line, delim, arguments, at>>
    BY <1>5 DEF ReadEscape, ReadChar, Keep
  <2>2. Append(buf, Char) \in Seq(Chars)
    BY <1>0, <2>1, CharIs, AppendProperties
  <2> QED
    BY <1>0, <2>1, <2>2
<1>6. CASE EndArgument
  <2>1. Append(arguments, buf) \in Seq(Seq(Chars))
    BY <1>0, AppendProperties
  <2>2. AfterArgument \in Nat
    BY <1>0 DEF AfterArgument
  <2>3. /\ arguments' \in {arguments, Append(arguments, buf)} /\ buf' = << >>
        /\ pos' = AfterArgument /\ at' \in {"skip", "returned"} /\ UNCHANGED <<line, delim>>
    BY <1>6 DEF EndArgument
  <2>4. arguments' \in Seq(Seq(Chars)) /\ buf' \in Seq(Chars)
    <3> DEFINE more == Append(arguments, buf)
               S == Seq(Seq(Chars))
    <3>1. arguments \in S /\ more \in S /\ arguments' \in {arguments, more}
      BY <1>0, <2>1, <2>3
    <3> HIDE DEF more, S
    <3>2. arguments' \in S
      BY <3>1
    <3> QED
      BY <2>3, <3>2 DEF S
  <2> QED
    BY <1>0, <2>2, <2>3, <2>4
<1> QED
  BY <1>2, <1>3, <1>4, <1>5, <1>6 DEF Parse

\* In the beginning there is nothing yet.
LEMMA InitInStep ==
  ASSUME ArgumentsInit, TypeOK
  PROVE  InStep /\ AtEnd
<1>1. /\ pos = 0 /\ buf = << >> /\ escaped = FALSE /\ delim = Blank /\ arguments = << >>
      /\ at = IF line = << >> THEN "returned" ELSE "skip"
  BY DEF ArgumentsInit
<1>2. line \in Seq(Chars) /\ Len(line) \in Nat /\ 0 \in 0 .. Len(line)
  BY DEF TypeOK
<1>3. StateAt(line)[0] = First /\ First.quote = "gap" /\ First.escaped = FALSE /\ First.nr = 0
  BY <1>2, StatesAre DEF First
<1>4. NotEmpty(line, 0)[0] = << >> /\ \A k : Part(line, k)[0] = << >>
  BY <1>2, PartsAre, NotEmptyAre
<1>5. CASE line = << >>
  <2>1. Len(line) = 0
    BY <1>5
  <2>2. arguments = ArgumentsOf(line) /\ StateAt(line)[Len(line)].quote # "error"
    BY <1>1, <1>3, <1>4, <2>1 DEF ArgumentsOf
  <2> QED
    BY <1>1, <1>5, <2>2 DEF InStep, AtEnd
<1>6. CASE line # << >>
  BY <1>1, <1>2, <1>3, <1>4, <1>6 DEF InStep, AtEnd, Between, NothingAfter, Now
<1> QED
  BY <1>5, <1>6

\* Where the position goes on by one, so does the definition.
LEMMA GoesWith ==
  ASSUME TypeOK, InStep, at \in {"skip", "read"}, More, line' = line, pos' = pos + 1,
         NEW s, s = Now, NEW t, t = StateAfter(s, Char)
  PROVE  /\ pos' <= Len(line')
         /\ s \in State /\ t \in State /\ Now' = t
         /\ Belongs(s, Char) => Part(line', t.nr)[pos'] = Append(Part(line, t.nr)[pos], Char)
         /\ \A k : k # t.nr \/ ~Belongs(s, Char) => Part(line', k)[pos'] = Part(line, k)[pos]
         /\ \A m \in Nat : m < t.nr \/ ~Belongs(s, Char) =>
              NotEmpty(line', pos')[m] = NotEmpty(line, pos)[m]
         /\ t.nr >= s.nr => NothingAfter(t.nr)'
<1>1. /\ line \in Seq(Chars) /\ Len(line) \in Nat /\ pos \in 0 .. Len(line) /\ pos # Len(line)
      /\ Char = line[pos + 1]
  BY CharIs DEF TypeOK
<1>2. s = StateAt(line)[pos] /\ t = StateAfter(s, line[pos + 1])
  BY <1>1 DEF Now
<1>3. /\ pos + 1 \in 0 .. Len(line) /\ s \in State /\ t \in State /\ StateAt(line)[pos + 1] = t
      /\ Belongs(s, line[pos + 1]) =>
           Part(line, t.nr)[pos + 1] = Append(Part(line, t.nr)[pos], line[pos + 1])
      /\ \A k : k # t.nr \/ ~Belongs(s, line[pos + 1]) =>
           Part(line, k)[pos + 1] = Part(line, k)[pos]
      /\ \A m \in Nat : m < t.nr \/ ~Belongs(s, line[pos + 1]) =>
           NotEmpty(line, pos + 1)[m] = NotEmpty(line, pos)[m]
  BY <1>1, <1>2, Advance
<1>4. ASSUME t.nr >= s.nr
      PROVE  NothingAfter(t.nr)'
  <2>1. NothingAfter(s.nr) /\ t.nr \in Nat /\ s.nr \in Nat
    BY <1>3 DEF InStep, State
  <2>2. \A l \in Nat : l > t.nr => Part(line, l)[pos + 1] = << >>
    BY <1>3, <1>4, <2>1 DEF NothingAfter
  <2> QED
    BY <2>2 DEF NothingAfter
<1> QED
  BY <1>1, <1>3, <1>4 DEF Now

\* A blank between two arguments belongs to none.
LEMMA SkipWhitespaceInStep ==
  ASSUME TypeOK, InStep, SkipWhitespace
  PROVE  InStep'
<1>1. /\ at = "skip" /\ More /\ Char = Blank /\ pos' = pos + 1
      /\ UNCHANGED <<line, buf, escaped, arguments, at>>
  BY DEF SkipWhitespace
<1>2. PICK s, t : s = Now /\ t = StateAfter(s, Char)
  OBVIOUS
<1>3. s.quote = "gap" /\ s.escaped = FALSE
  <2>1. s \in State
    BY <1>1, <1>2, GoesWith
  <2>2. s.quote = "gap" /\ ~s.escaped
    BY <1>1, <1>2, Characters DEF InStep, Between
  <2> QED
    BY <2>1, <2>2 DEF State
<1>4. ~Belongs(s, Char)
  BY <1>1, <1>3, Characters DEF Belongs
<1>5. /\ pos' <= Len(line') /\ s \in State /\ t \in State /\ Now' = t
      /\ \A m \in Nat : NotEmpty(line', pos')[m] = NotEmpty(line, pos)[m]
      /\ t.nr >= s.nr => NothingAfter(t.nr)'
  BY <1>1, <1>2, <1>4, GoesWith
<1>6. t.quote = "gap" /\ t.escaped = FALSE /\ t.nr = s.nr /\ s.nr \in Nat
  BY <1>1, <1>2, <1>3, <1>5, AfterCases DEF Is, State
<1>7. NothingAfter(Now.nr)'
  BY <1>5, <1>6
<1>8. Between'
  BY <1>1, <1>2, <1>5, <1>6 DEF InStep, Between
<1>9. ~escaped'
  BY <1>1 DEF InStep
<1> QED
  BY <1>1, <1>5, <1>7, <1>8, <1>9 DEF InStep

\* A quote between two arguments begins the next one.
LEMMA BeginQuotedInStep ==
  ASSUME TypeOK, InStep, BeginQuoted
  PROVE  InStep'
<1>1. /\ at = "skip" /\ More /\ Char \in Quotes /\ pos' = pos + 1 /\ delim' = Char
      /\ at' = "read" /\ UNCHANGED <<line, buf, escaped, arguments>>
  BY DEF BeginQuoted
<1>2. PICK s, t : s = Now /\ t = StateAfter(s, Char)
  OBVIOUS
<1>3. s.quote \in {"gap", "word"} /\ s.escaped = FALSE
  <2>1. s \in State
    BY <1>1, <1>2, GoesWith
  <2>2. s.quote \in {"gap", "word"} /\ ~s.escaped
    BY <1>1, <1>2 DEF InStep, Between
  <2> QED
    BY <2>1, <2>2 DEF State
<1>4. ~Belongs(s, Char)
  BY <1>1, <1>3, Characters DEF Belongs
<1>5. /\ pos' <= Len(line') /\ s \in State /\ t \in State /\ Now' = t
      /\ \A k : Part(line', k)[pos'] = Part(line, k)[pos]
      /\ \A m \in Nat : NotEmpty(line', pos')[m] = NotEmpty(line, pos)[m]
      /\ t.nr >= s.nr => NothingAfter(t.nr)'
  BY <1>1, <1>2, <1>4, GoesWith
<1>6. t.quote = Char /\ t.escaped = FALSE /\ t.nr = s.nr + 1 /\ s.nr \in Nat
  <2>1. s.nr \in Nat
    BY <1>5 DEF State
  <2> QED
    BY <1>1, <1>2, <1>3, <1>5, <2>1, AfterCases DEF Is
<1>7. NothingAfter(Now.nr)'
  BY <1>5, <1>6
<1>8. escaped' = FALSE /\ ~escaped'
  BY <1>1 DEF InStep, TypeOK
<1>9. buf' = Part(line', t.nr)[pos'] /\ arguments' = NotEmpty(line', pos')[t.nr - 1]
  <2>1. /\ buf = << >> /\ arguments = NotEmpty(line, pos)[s.nr] /\ NothingAfter(s.nr)
    BY <1>1, <1>2 DEF InStep, Between
  <2>2. Part(line, t.nr)[pos] = << >> /\ t.nr - 1 = s.nr
    BY <1>6, <2>1 DEF NothingAfter
  <2> QED
    BY <1>1, <1>5, <1>6, <2>1, <2>2
<1>10. Quoted'
  BY <1>1, Characters DEF Quoted
<1>11. Inside'
  <2>1. Now'.quote = delim' /\ Now'.nr # 0
    BY <1>1, <1>5, <1>6
  <2>2. Now'.escaped = escaped'
    BY <1>5, <1>6, <1>8, Zenon
  <2> QED
    BY <1>5, <1>8, <1>9, <1>10, <2>1, <2>2 DEF Inside
<1> QED
  BY <1>1, <1>5, <1>7, <1>11 DEF InStep

\* Nothing is read when a word begins.
LEMMA BeginWordInStep ==
  ASSUME TypeOK, InStep, BeginWord
  PROVE  InStep'
<1>1. /\ at = "skip" /\ More /\ Char \notin Quotes \cup {Blank} /\ delim' = Blank
      /\ at' = "read" /\ UNCHANGED <<line, pos, buf, escaped, arguments>>
  BY DEF BeginWord
<1>2. /\ Now' = Now /\ More' /\ Char' = Char
      /\ NothingAfter(Now.nr) => NothingAfter(Now.nr)'
  BY <1>1 DEF Now, More, Char, NothingAfter
<1>3. Between /\ ~escaped /\ pos <= Len(line) /\ NothingAfter(Now.nr)
  BY <1>1 DEF InStep
<1>4. BeforeWord'
  BY <1>1, <1>2, <1>3 DEF Between, BeforeWord, Quoted
<1> QED
  BY <1>1, <1>2, <1>3, <1>4 DEF InStep

\* A character that is kept is one of the argument.
LEMMA KeepInStep ==
  ASSUME TypeOK, InStep, at = "read", More, Keep(Char),
         NEW s, s = Now, NEW t, t = StateAfter(s, Char), Belongs(s, Char),
         t.quote = (IF Quoted THEN delim ELSE "word"), t.escaped = FALSE,
         \/ Inside /\ t.nr = s.nr
         \/ BeforeWord /\ t.nr = s.nr + 1
  PROVE  InStep'
<1>1. /\ buf' = Append(buf, Char) /\ pos' = pos + 1 /\ escaped' = FALSE
      /\ UNCHANGED <<line, delim, arguments, at>>
  BY DEF Keep
<1>2. /\ pos' <= Len(line') /\ s \in State /\ t \in State /\ Now' = t
      /\ Part(line', t.nr)[pos'] = Append(Part(line, t.nr)[pos], Char)
      /\ \A m \in Nat : m < t.nr => NotEmpty(line', pos')[m] = NotEmpty(line, pos)[m]
      /\ t.nr >= s.nr => NothingAfter(t.nr)'
  BY <1>1, GoesWith
<1>3. s.nr \in Nat /\ t.nr \in Nat /\ t.nr >= s.nr /\ t.nr # 0 /\ t.nr - 1 \in Nat
  <2>1. s.nr \in Nat /\ t.nr \in Nat
    BY <1>2 DEF State
  <2>2. t.nr # 0
    BY <2>1 DEF Inside
  <2> QED
    BY <2>1, <2>2
<1>4. buf = Part(line, t.nr)[pos] /\ arguments = NotEmpty(line, pos)[t.nr - 1]
  <2>1. CASE Inside /\ t.nr = s.nr
    BY <2>1 DEF Inside
  <2>2. CASE BeforeWord /\ t.nr = s.nr + 1
    <3>1. buf = << >> /\ arguments = NotEmpty(line, pos)[s.nr] /\ NothingAfter(s.nr)
      BY <2>2 DEF BeforeWord, InStep
    <3>2. Part(line, t.nr)[pos] = << >> /\ t.nr - 1 = s.nr
      BY <1>3, <2>2, <3>1 DEF NothingAfter
    <3> QED
      BY <3>1, <3>2
  <2> QED
    BY <2>1, <2>2
<1>5. buf' = Part(line', t.nr)[pos'] /\ arguments' = NotEmpty(line', pos')[t.nr - 1]
  <2>1. t.nr - 1 < t.nr
    BY <1>3
  <2> QED
    BY <1>1, <1>2, <1>3, <1>4, <2>1
<1>6. Now'.quote = (IF Quoted' THEN delim' ELSE "word") /\ Now'.escaped = escaped' /\ ~escaped'
  BY <1>1, <1>2 DEF Quoted
<1>7. Inside'
  BY <1>2, <1>3, <1>5, <1>6 DEF Inside
<1>8. NothingAfter(Now.nr)'
  BY <1>2, <1>3
<1> QED
  BY <1>1, <1>2, <1>7, <1>8 DEF InStep

\* The state the definition is in is one.
LEMMA NowIs ==
  ASSUME TypeOK, InStep, at \in {"skip", "read"}
  PROVE  Now \in State /\ pos \in 0 .. Len(line) /\ Now.nr \in Nat /\ Now.escaped \in BOOLEAN
<1>1. pos \in 0 .. Len(line) /\ Len(line) \in Nat
  BY DEF InStep, TypeOK
<1>2. Now \in State
  BY <1>1, StatesAre DEF Now
<1> QED
  BY <1>1, <1>2 DEF State

\* A character behind a backslash belongs to the argument.
LEMMA ReadEscapeInStep ==
  ASSUME TypeOK, InStep, ReadEscape
  PROVE  InStep'
<1>1. at = "read" /\ More /\ escaped /\ Char \in {Backslash, delim} /\ Keep(Char)
  BY DEF ReadEscape
<1>2. PICK s, t : s = Now /\ t = StateAfter(s, Char)
  OBVIOUS
<1>3. Inside /\ Quoted /\ s.quote = delim /\ s.escaped
  BY <1>1, <1>2 DEF InStep, Inside
<1>4. s \in State
  BY <1>1, <1>2, NowIs
<1>5. t.quote = delim /\ t.escaped = FALSE /\ t.nr = s.nr
  BY <1>1, <1>2, <1>3, <1>4, AfterCases DEF Is
<1>6. Belongs(s, Char)
  BY <1>3 DEF Belongs
<1> QED
  BY <1>1, <1>2, <1>3, <1>5, <1>6, KeepInStep

\* Any other character belongs to it as well.
LEMMA ReadCharInStep ==
  ASSUME TypeOK, InStep, ReadChar
  PROVE  InStep'
<1>1. /\ at = "read" /\ More /\ ~escaped /\ (Char # Backslash \/ ~Quoted) /\ ~Ends(Char)
      /\ Keep(Char)
  BY DEF ReadChar
<1>2. PICK s, t : s = Now /\ t = StateAfter(s, Char)
  OBVIOUS
<1>3. s \in State /\ s.nr \in Nat /\ s.escaped \in BOOLEAN
  BY <1>1, <1>2, NowIs
<1>4. CASE BeforeWord
  <2>1. ~Quoted /\ Char \notin Quotes \cup {Blank} /\ s.quote = "gap" /\ ~s.escaped
    BY <1>2, <1>4 DEF BeforeWord
  <2>2. t.quote = "word" /\ t.escaped = FALSE /\ t.nr = s.nr + 1
    BY <1>2, <1>3, <2>1, AfterCases DEF Is
  <2>3. Belongs(s, Char)
    BY <2>1, Characters DEF Belongs
  <2> QED
    BY <1>1, <1>2, <1>4, <2>1, <2>2, <2>3, KeepInStep
<1>5. CASE Inside /\ Quoted
  <2>1. /\ s.quote = delim /\ delim \in Quotes /\ ~s.escaped /\ s.escaped = FALSE
        /\ Char \notin {Backslash, delim}
    BY <1>1, <1>2, <1>3, <1>5 DEF Inside, Ends, TypeOK, Quoted
  <2>2. t = s
    BY <1>2, <1>3, <2>1, AfterCases
  <2>3. Belongs(s, Char)
    BY <2>1 DEF Belongs
  <2> QED
    BY <1>1, <1>2, <1>5, <2>1, <2>2, <2>3, KeepInStep
<1>6. CASE Inside /\ ~Quoted
  <2>1. /\ s.quote = "word" /\ ~s.escaped /\ s.escaped = FALSE
        /\ Char \notin Quotes \cup {Blank}
    BY <1>1, <1>2, <1>3, <1>6 DEF Inside, Ends
  <2>2. t = s
    BY <1>2, <1>3, <2>1, AfterCases
  <2>3. Belongs(s, Char)
    BY <2>1, Characters DEF Belongs
  <2> QED
    BY <1>1, <1>2, <1>6, <2>1, <2>2, <2>3, KeepInStep
<1> QED
  BY <1>1, <1>4, <1>5, <1>6 DEF InStep

\* A backslash in quotes does not belong to it.
LEMMA ReadBackslashInStep ==
  ASSUME TypeOK, InStep, ReadBackslash
  PROVE  InStep'
<1>1. /\ at = "read" /\ More /\ ~escaped /\ Quoted /\ Char = Backslash
      /\ escaped' = TRUE /\ pos' = pos + 1 /\ UNCHANGED <<line, buf, delim, arguments, at>>
  BY DEF ReadBackslash
<1>2. PICK s, t : s = Now /\ t = StateAfter(s, Char)
  OBVIOUS
<1>3. s \in State /\ s.nr \in Nat /\ s.escaped \in BOOLEAN
  BY <1>1, <1>2, NowIs
<1>4. Inside
  BY <1>1 DEF InStep, BeforeWord
<1>5. s.quote = delim /\ delim \in Quotes /\ ~s.escaped
  BY <1>1, <1>2, <1>4 DEF Inside, TypeOK, Quoted
<1>6. t.quote = delim /\ t.escaped = TRUE /\ t.nr = s.nr
  BY <1>1, <1>2, <1>3, <1>5, AfterCases DEF Is
<1>7. ~Belongs(s, Char)
  BY <1>1, <1>5 DEF Belongs
<1>8. /\ pos' <= Len(line') /\ Now' = t
      /\ \A k : Part(line', k)[pos'] = Part(line, k)[pos]
      /\ \A m \in Nat : NotEmpty(line', pos')[m] = NotEmpty(line, pos)[m]
      /\ t.nr >= s.nr => NothingAfter(t.nr)'
  BY <1>1, <1>2, <1>7, GoesWith
<1>9. NothingAfter(Now.nr)'
  BY <1>3, <1>6, <1>8
<1>10. Inside'
  <2>1. /\ s.nr # 0 /\ s.nr - 1 \in Nat
        /\ buf = Part(line, s.nr)[pos] /\ arguments = NotEmpty(line, pos)[s.nr - 1]
    BY <1>2, <1>3, <1>4 DEF Inside
  <2>2. /\ Now'.nr # 0 /\ Now'.quote = delim' /\ Quoted'
        /\ buf' = Part(line', Now'.nr)[pos']
        /\ arguments' = NotEmpty(line', pos')[Now'.nr - 1]
    BY <1>1, <1>6, <1>8, <2>1 DEF Quoted
  <2>3. Now'.escaped = escaped'
    BY <1>1, <1>6, <1>8, Zenon
  <2> QED
    BY <2>2, <2>3 DEF Inside
<1> QED
  BY <1>1, <1>8, <1>9, <1>10 DEF InStep

\* Where an argument ends, it has been read.
LEMMA ArgumentEnded ==
  ASSUME TypeOK, InStep, at = "read", Inside,
         arguments' = IF buf = << >> THEN arguments ELSE Append(arguments, buf)
  PROVE  arguments' = NotEmpty(line, pos)[Now.nr]
<1>1. line \in Seq(Chars) /\ pos \in 0 .. Len(line) /\ Now.nr \in Nat
  BY NowIs DEF TypeOK
<1>2. PICK k : k = Now.nr - 1
  OBVIOUS
<1>3. k \in Nat /\ k + 1 = Now.nr
  BY <1>1, <1>2 DEF Inside
<1>4. buf = Part(line, k + 1)[pos] /\ arguments = NotEmpty(line, pos)[k]
  BY <1>2, <1>3 DEF Inside
<1>5. NotEmpty(line, pos)[k + 1] = IF Part(line, k + 1)[pos] = << >> THEN NotEmpty(line, pos)[k]
                                   ELSE Append(NotEmpty(line, pos)[k], Part(line, k + 1)[pos])
  BY <1>1, <1>3, NotEmptyAre
<1> QED
  BY <1>3, <1>4, <1>5

\* Where the whole line has been read, everything has.
LEMMA AllRead ==
  ASSUME TypeOK, line' = line, NEW s, StateAt(line)[Len(line)] = s, s.quote # "error",
         arguments' = NotEmpty(line, Len(line))[s.nr], at' = "returned"
  PROVE  InStep' /\ AtEnd'
<1>1. arguments' = ArgumentsOf(line)
  BY DEF ArgumentsOf
<1>2. AtEnd'
  BY <1>1 DEF AtEnd
<1> QED
  BY <1>2 DEF InStep

\* Behind the last argument nothing is left.
LEMMA SkipToEndInStep ==
  ASSUME TypeOK, InStep, SkipToEnd
  PROVE  InStep' /\ AtEnd'
<1>1. at = "skip" /\ ~More /\ at' = "returned" /\ UNCHANGED <<line, arguments>>
  BY DEF SkipToEnd
<1>2. pos = Len(line) /\ Now \in State
  BY <1>1, NowIs DEF More, TypeOK
<1>3. Now.quote = "gap" /\ arguments = NotEmpty(line, pos)[Now.nr]
  BY <1>1 DEF InStep, Between
<1> QED
  BY <1>1, <1>2, <1>3, AllRead DEF Now

\* A complete argument is the one the definition has there.
LEMMA EndArgumentInStep ==
  ASSUME TypeOK, InStep, EndArgument
  PROVE  InStep' /\ AtEnd'
<1>1. /\ at = "read" /\ (More => ~escaped /\ Ends(Char))
      /\ arguments' = (IF buf = << >> THEN arguments ELSE Append(arguments, buf))
      /\ buf' = << >> /\ pos' = AfterArgument
      /\ at' = (IF pos' < Len(line) THEN "skip" ELSE "returned")
      /\ UNCHANGED <<line, delim>>
  BY DEF EndArgument
<1>2. ~escaped'
  BY DEF EndArgument
<1>3. PICK s, t : s = Now /\ t = StateAfter(s, Char)
  OBVIOUS
<1>4. /\ s \in State /\ s.nr \in Nat /\ s.escaped \in BOOLEAN /\ pos \in 0 .. Len(line)
      /\ Len(line) \in Nat
  BY <1>1, <1>3, NowIs DEF TypeOK
<1>5. Inside
  BY <1>1 DEF InStep, BeforeWord, Ends
<1>6. s.quote = IF Quoted THEN delim ELSE "word"
  BY <1>3, <1>5 DEF Inside
<1>7. arguments' = NotEmpty(line, pos)[s.nr]
  BY <1>1, <1>3, <1>5, ArgumentEnded
<1>8. CASE ~More
  <2>1. pos = Len(line) /\ at' = "returned"
    BY <1>1, <1>4, <1>8 DEF More, AfterArgument
  <2>2. s.quote # "error"
    BY <1>6, Characters DEF TypeOK, Quoted
  <2> QED
    BY <1>1, <1>3, <1>7, <2>1, <2>2, AllRead DEF Now
<1>9. CASE More /\ ~Quoted /\ Char \in Quotes
  <2>1. pos' = pos /\ at' = "skip"
    BY <1>1, <1>9 DEF More, AfterArgument
  <2>2. Now' = Now /\ More' /\ Char' = Char /\ (NothingAfter(Now.nr) => NothingAfter(Now.nr)')
    BY <1>1, <1>9, <2>1 DEF Now, More, Char, NothingAfter
  <2>3. ~s.escaped
    BY <1>1, <1>3, <1>5, <1>9 DEF Inside
  <2>4. Between'
    BY <1>1, <1>3, <1>6, <1>7, <1>9, <2>1, <2>2, <2>3 DEF Between
  <2>5. InStep'
    BY <1>1, <1>2, <2>1, <2>2, <2>4 DEF InStep
  <2>6. AtEnd'
    BY <2>1 DEF AtEnd
  <2> QED
    BY <2>5, <2>6
<1>10. CASE More /\ (Quoted \/ Char \notin Quotes)
  <2>1. pos' = pos + 1 /\ ~escaped /\ Ends(Char)
    BY <1>1, <1>10 DEF AfterArgument
  <2>2. ~s.escaped
    BY <1>3, <1>5, <2>1 DEF Inside
  <2>3. /\ t.quote = "gap" /\ t.escaped = FALSE /\ t.nr = s.nr
        /\ ~Belongs(s, Char)
    <3>1. CASE Quoted
      <4>1. s.quote \in Quotes /\ Char = s.quote
        BY <1>6, <2>1, <3>1 DEF Ends, TypeOK, Quoted
      <4> QED
        BY <1>3, <1>4, <2>2, <4>1, AfterCases DEF Is, Belongs
    <3>2. CASE ~Quoted
      <4>1. s.quote = "word" /\ Char = Blank
        BY <1>6, <1>10, <2>1, <3>2 DEF Ends
      <4> QED
        BY <1>3, <1>4, <2>2, <4>1, AfterCases, Characters DEF Is, Belongs
    <3> QED
      BY <3>1, <3>2
  <2>4. /\ pos' <= Len(line') /\ Now' = t
        /\ \A m \in Nat : NotEmpty(line', pos')[m] = NotEmpty(line, pos)[m]
        /\ t.nr >= s.nr => NothingAfter(t.nr)'
    BY <1>1, <1>3, <1>10, <2>1, <2>3, GoesWith
  <2>5. arguments' = NotEmpty(line', pos')[t.nr]
    BY <1>4, <1>7, <2>3, <2>4
  <2>6. CASE pos' < Len(line)
    <3>1. at' = "skip" /\ NothingAfter(Now.nr)'
      BY <1>1, <1>4, <2>3, <2>4, <2>6
    <3>2. Between'
      BY <1>1, <2>3, <2>4, <2>5 DEF Between
    <3>3. InStep'
      BY <1>2, <2>4, <3>1, <3>2 DEF InStep
    <3> QED
      BY <3>1, <3>3 DEF AtEnd
  <2>7. CASE ~(pos' < Len(line))
    <3>1. pos' = Len(line) /\ at' = "returned"
      BY <1>1, <1>4, <2>1, <2>4, <2>7
    <3>2. StateAt(line)[Len(line)] = t
      BY <1>1, <2>4, <3>1 DEF Now
    <3>3. arguments' = NotEmpty(line, Len(line))[t.nr] /\ t.quote # "error"
      BY <1>1, <2>3, <2>5, <3>1
    <3> QED
      BY <1>1, <3>1, <3>2, <3>3, AllRead
  <2> QED
    BY <2>6, <2>7
<1> QED
  BY <1>8, <1>9, <1>10

\* A backslash before any other character is an error, however the line goes on.
LEMMA EscapeThrowsAtEnd ==
  ASSUME TypeOK, InStep, EscapeThrows
  PROVE  InStep' /\ AtEnd'
<1>1. /\ at = "read" /\ More /\ escaped /\ Char \notin {Backslash, delim} /\ at' = "thrown"
      /\ line' = line
  BY DEF EscapeThrows
<1>2. PICK s, t : s = Now /\ t = StateAfter(s, Char)
  OBVIOUS
<1>3. s \in State
  BY <1>1, <1>2, NowIs
<1>4. s.escaped /\ s.quote = delim
  BY <1>1, <1>2 DEF InStep, Inside
<1>5. t.quote = "error"
  BY <1>1, <1>2, <1>3, <1>4, AfterCases
<1>6. /\ pos + 1 \in 0 .. Len(line) /\ pos \in 0 .. Len(line) /\ pos # Len(line)
      /\ Len(line) \in Nat /\ Char = line[pos + 1]
  BY <1>1, CharIs DEF TypeOK
<1>7. StateAt(line)[pos + 1] = t
  BY <1>2, <1>6, StatesAre DEF Now
<1>8. StateAt(line)[Len(line)].quote = "error"
  BY <1>5, <1>6, <1>7, ErrorStays
<1> QED
  BY <1>1, <1>8 DEF InStep, AtEnd

\* The definition is followed by every step.
LEMMA InStepNext ==
  ASSUME TypeOK, InStep, AtEnd, [Parse]_vars
  PROVE  InStep' /\ AtEnd'
<1>1. CASE UNCHANGED vars
  BY <1>1 DEF vars, InStep, AtEnd, Between, BeforeWord, Inside, NothingAfter, Now, More, Char,
     Quoted
<1>2. at' # "returned" /\ at' # "thrown" => AtEnd'
  BY DEF AtEnd
<1>3. CASE SkipWhitespace
  BY <1>2, <1>3, SkipWhitespaceInStep DEF SkipWhitespace
<1>4. CASE BeginQuoted
  BY <1>2, <1>4, BeginQuotedInStep DEF BeginQuoted
<1>5. CASE BeginWord
  BY <1>2, <1>5, BeginWordInStep DEF BeginWord
<1>6. CASE ReadEscape
  BY <1>2, <1>6, ReadEscapeInStep DEF ReadEscape, Keep
<1>7. CASE ReadBackslash
  BY <1>2, <1>7, ReadBackslashInStep DEF ReadBackslash
<1>8. CASE ReadChar
  BY <1>2, <1>8, ReadCharInStep DEF ReadChar, Keep
<1> QED
  BY <1>1, <1>3, <1>4, <1>5, <1>6, <1>7, <1>8, SkipToEndInStep, EndArgumentInStep,
     EscapeThrowsAtEnd DEF Parse

\* The loops follow the definition: in every state they can be in they have
\* what the definition says of the characters read so far.
THEOREM ArgumentsInvariant == ArgumentsSpec => [](TypeOK /\ InStep /\ AtEnd)
<1>1. ArgumentsInit => TypeOK /\ InStep /\ AtEnd
  BY InitType, InitInStep
<1>2. TypeOK /\ InStep /\ AtEnd /\ [Parse]_vars => (TypeOK /\ InStep /\ AtEnd)'
  BY TypeNext, InStepNext
<1> QED
  BY <1>1, <1>2, PTL DEF ArgumentsSpec

\* parseArguments returns exactly the arguments that the characters of the
\* line spell, whatever the line and however long, and throws exactly for a
\* line where a backslash in quotes escapes something else.
THEOREM ParsesAsDefinedHolds == ArgumentsSpec => []ParsesAsDefined
<1>1. AtEnd => ParsesAsDefined
  BY DEF AtEnd, ParsesAsDefined
<1> QED
  BY <1>1, ArgumentsInvariant, PTL

-----------------------------------------------------------------------------
(* Quoted words are read as they were meant.                               *)

\* The line is u in quotes q and w in quotes r behind it.
Meaning(u, w, q, r, P, R) ==
  /\ meant = <<u, w>> /\ u \in Seq(Chars) /\ w \in Seq(Chars) /\ u # << >> /\ w # << >>
  /\ q \in Quotes /\ r \in Quotes
  /\ Spells(line, 0, u, q, P)
  /\ Spells(line, P[Len(u)] + 1, w, r, R)
  /\ R[Len(w)] + 1 = Len(line)

\* w is being read: so much of it as is in the buffer, and perhaps a backslash.
Reading(w, q, P) ==
  /\ delim = q
  /\ Begins(buf, w)
  /\ ~escaped => pos = P[Len(buf)]
  /\ escaped => /\ Len(buf) # Len(w) /\ w[Len(buf) + 1] \in {Backslash, q}
                /\ pos = P[Len(buf)] + 1

\* A quoted word is about to begin.
Beginning(o) == at = "skip" /\ pos = o /\ buf = << >> /\ ~escaped

\* How far it is.
Progress(u, w, q, r, P, R) ==
  \/ arguments = << >> /\ Beginning(0)
  \/ arguments = << >> /\ at = "read" /\ Reading(u, q, P)
  \/ arguments = <<u>> /\ Beginning(P[Len(u)] + 1)
  \/ arguments = <<u>> /\ at = "read" /\ Reading(w, r, R)
  \/ arguments = <<u, w>> /\ at = "returned"

\* A line of two quoted words is being read as such.
AsMeant ==
  meant # << >> => \E u, w, q, r, P, R : Meaning(u, w, q, r, P, R) /\ Progress(u, w, q, r, P, R)

\* At the quote the word begins.
LEMMA WordBegins ==
  ASSUME TypeOK, Parse, NEW w \in Seq(Chars), NEW q \in Quotes, NEW P, NEW o \in Nat,
         Spells(line, o, w, q, P), Beginning(o)
  PROVE  at' = "read" /\ Reading(w, q, P)' /\ arguments' = arguments
<1>1. More /\ Char = q /\ P[0] = pos + 1 /\ pos = o
  BY DEF Spells, Beginning, More, Char
<1>2. BeginQuoted
  <2>1. at = "skip" /\ Char \in Quotes /\ Char # Blank
    BY <1>1, Characters DEF Beginning
  <2> QED
    BY <1>1, <2>1, Zenon DEF Parse, SkipWhitespace, SkipToEnd, BeginWord, ReadEscape, EscapeThrows,
       ReadBackslash, ReadChar, EndArgument
<1>3. at' = "read" /\ delim' = q /\ pos' = P[0] /\ buf' = << >> /\ arguments' = arguments
  BY <1>1, <1>2 DEF BeginQuoted, Beginning
<1>4. ~escaped'
  BY <1>2, Zenon DEF BeginQuoted, Beginning
<1>5. Len(buf') = 0 /\ Begins(buf', w)
  BY <1>3 DEF Begins
<1> QED
  BY <1>3, <1>4, <1>5 DEF Reading

\* One character more of the word.
LEMMA KeptOne ==
  ASSUME TypeOK, NEW w \in Seq(Chars), NEW q, NEW P, Begins(buf, w), Len(buf) # Len(w), delim = q,
         More, Keep(Char), Char = w[Len(buf) + 1], P[Len(buf) + 1] = pos + 1
  PROVE  Reading(w, q, P)' /\ arguments' = arguments
<1>1. buf \in Seq(Chars) /\ Len(buf) \in Nat /\ Len(w) \in Nat /\ Char \in Chars
  BY CharIs DEF TypeOK
<1>2. /\ buf' = Append(buf, Char) /\ pos' = P[Len(buf) + 1] /\ delim' = q
      /\ arguments' = arguments
  BY DEF Keep
<1>3. ~escaped'
  BY Zenon DEF Keep
<1>4. /\ Len(buf') = Len(buf) + 1 /\ buf'[Len(buf) + 1] = Char
      /\ \A x \in 1 .. Len(buf) : buf'[x] = buf[x]
  BY <1>1, <1>2, AppendProperties
<1>5. Begins(buf', w)
  <2>1. Len(buf) + 1 <= Len(w)
    BY <1>1 DEF Begins
  <2>2. ASSUME NEW x \in 1 .. Len(buf) + 1
        PROVE  buf'[x] = w[x]
    <3>1. CASE x = Len(buf) + 1
      BY <1>4, <3>1
    <3>2. CASE x # Len(buf) + 1
      <4>1. x \in 1 .. Len(buf)
        BY <1>1, <3>2
      <4> QED
        BY <1>4, <4>1 DEF Begins
    <3> QED
      BY <3>1, <3>2
  <2> QED
    BY <1>4, <2>1, <2>2 DEF Begins
<1> QED
  BY <1>2, <1>3, <1>4, <1>5 DEF Reading

\* Up to the quote at its end the word is read on; there it is complete.
LEMMA WordReadOn ==
  ASSUME TypeOK, Parse, at = "read", NEW w \in Seq(Chars), NEW q \in Quotes, NEW P, NEW o \in Nat,
         Spells(line, o, w, q, P), Reading(w, q, P)
  PROVE  \/ at' = "read" /\ Reading(w, q, P)' /\ arguments' = arguments
         \/ EndArgument /\ buf = w /\ Quoted /\ pos = P[Len(w)]
<1>0. PICK j : j = Len(buf)
  OBVIOUS
<1>1. /\ buf \in Seq(Chars) /\ Len(w) \in Nat /\ Len(line) \in Nat /\ j \in 0 .. Len(w)
      /\ Begins(buf, w) /\ delim = q
  BY <1>0 DEF TypeOK, Reading, Begins
<1>2. Quoted /\ q # Backslash
  BY <1>1, Characters DEF Quoted
<1>3. P[j] \in Nat
  BY <1>1 DEF Spells
<1>4. at = "read" /\ ~(at = "skip")
  OBVIOUS
<1>5. CASE escaped
  <2>1. j # Len(w) /\ w[j + 1] \in {Backslash, q} /\ pos = P[j] + 1
    BY <1>0, <1>5 DEF Reading
  <2>2. P[j + 1] = P[j] + 2 /\ P[j] + 2 <= Len(line) /\ line[P[j] + 2] = w[j + 1]
    BY <1>1, <2>1 DEF Spells
  <2>3. /\ More /\ Char = w[j + 1] /\ Char \in {Backslash, delim} /\ P[j + 1] = pos + 1
    <3>1. pos + 1 = P[j] + 2 /\ pos < Len(line)
      BY <1>1, <1>3, <2>1, <2>2
    <3> QED
      BY <1>1, <2>1, <2>2, <3>1 DEF More, Char
  <2>4. ReadEscape
    BY <1>4, <1>5, <2>3, Zenon DEF Parse, SkipWhitespace, SkipToEnd, BeginQuoted, BeginWord,
       EscapeThrows, ReadBackslash, ReadChar, EndArgument
  <2>5. Keep(Char) /\ at' = "read"
    BY <2>4 DEF ReadEscape, Keep
  <2> QED
    BY <1>0, <1>1, <2>1, <2>3, <2>5, KeptOne
<1>6. CASE ~escaped /\ j # Len(w) /\ w[j + 1] \in {Backslash, q}
  <2>1. pos = P[j]
    BY <1>0, <1>6 DEF Reading
  <2>2. P[j] + 2 <= Len(line) /\ line[P[j] + 1] = Backslash
    BY <1>1, <1>6 DEF Spells
  <2>3. More /\ Char = Backslash
    BY <1>1, <1>3, <2>1, <2>2 DEF More, Char
  <2>4. ~Ends(Char)
    BY <1>1, <1>2, <2>3 DEF Ends
  <2>5. ReadBackslash
    BY <1>2, <1>4, <1>6, <2>3, <2>4, Zenon DEF Parse, SkipWhitespace, SkipToEnd, BeginQuoted,
       BeginWord, EscapeThrows, ReadEscape, ReadChar, EndArgument
  <2>6. /\ pos' = pos + 1 /\ buf' = buf /\ delim' = delim /\ arguments' = arguments
        /\ at' = "read"
    BY <1>4, <2>5 DEF ReadBackslash
  <2>7. escaped'
    BY <2>5, Zenon DEF ReadBackslash
  <2> QED
    BY <1>0, <1>1, <1>6, <2>1, <2>6, <2>7 DEF Reading
<1>7. CASE ~escaped /\ j # Len(w) /\ w[j + 1] \notin {Backslash, q}
  <2>1. pos = P[j]
    BY <1>0, <1>7 DEF Reading
  <2>2. P[j + 1] = P[j] + 1 /\ P[j] + 1 <= Len(line) /\ line[P[j] + 1] = w[j + 1]
    BY <1>1, <1>7 DEF Spells
  <2>3. More /\ Char = w[j + 1] /\ P[j + 1] = pos + 1
    BY <1>1, <1>3, <2>1, <2>2 DEF More, Char
  <2>4. ~Ends(Char) /\ Char # Backslash
    BY <1>1, <1>2, <1>7, <2>3 DEF Ends
  <2>5. ReadChar
    BY <1>2, <1>4, <1>7, <2>3, <2>4, Zenon DEF Parse, SkipWhitespace, SkipToEnd, BeginQuoted,
       BeginWord, EscapeThrows, ReadEscape, ReadBackslash, EndArgument
  <2>6. Keep(Char) /\ at' = "read"
    BY <2>5 DEF ReadChar, Keep
  <2> QED
    BY <1>0, <1>1, <1>7, <2>3, <2>6, KeptOne
<1>8. CASE ~escaped /\ j = Len(w)
  <2>1. pos = P[Len(w)]
    BY <1>0, <1>8 DEF Reading
  <2>2. P[Len(w)] + 1 <= Len(line) /\ line[P[Len(w)] + 1] = q
    BY DEF Spells
  <2>3. More /\ Char = q
    BY <1>1, <1>3, <1>8, <2>1, <2>2 DEF More, Char
  <2>4. Ends(Char) /\ Char # Backslash
    BY <1>1, <1>2, <2>3 DEF Ends
  <2>5. EndArgument
    BY <1>2, <1>4, <1>8, <2>3, <2>4, Zenon DEF Parse, SkipWhitespace, SkipToEnd, BeginQuoted,
       BeginWord, EscapeThrows, ReadEscape, ReadBackslash, ReadChar
  <2>6. buf = w
    <3>1. Len(buf) = Len(w) /\ \A x \in 1 .. Len(buf) : buf[x] = w[x]
      BY <1>0, <1>1, <1>8 DEF Begins
    <3> QED
      BY <1>1, <3>1, SeqEqual
  <2> QED
    BY <1>2, <2>1, <2>5, <2>6
<1> QED
  BY <1>5, <1>6, <1>7, <1>8

\* A complete word is stored; what follows begins behind the quote.
LEMMA WordEnds ==
  ASSUME TypeOK, EndArgument, Quoted, buf # << >>, NEW o, o = pos + 1
  PROVE  /\ arguments' = Append(arguments, buf)
         /\ at' = IF o < Len(line) THEN "skip" ELSE "returned"
         /\ at' = "skip" => Beginning(o)'
<1>1. /\ arguments' = Append(arguments, buf) /\ pos' = o /\ buf' = << >>
      /\ line' = line /\ at' = IF pos' < Len(line) THEN "skip" ELSE "returned"
  BY DEF EndArgument, AfterArgument
<1>2. ~escaped'
  BY Zenon DEF EndArgument
<1> QED
  BY <1>1, <1>2 DEF Beginning

\* A second one is appended.
LEMMA TwoOf ==
  ASSUME NEW S, NEW a \in S, NEW b \in S
  PROVE  Append(<<a>>, b) = <<a, b>>
<1> DEFINE s == <<a>>
           t == <<a, b>>
<1>0. s \in Seq(S) /\ Len(s) = 1 /\ s[1] = a
  OBVIOUS
<1>1. t \in Seq(S) /\ Len(t) = 2 /\ t[1] = a /\ t[2] = b
  OBVIOUS
<1> HIDE DEF s, t
<1>2. PICK v : v = Append(s, b)
  OBVIOUS
<1>3. /\ v \in Seq(S) /\ Len(v) = Len(s) + 1 /\ v[Len(s) + 1] = b
      /\ \A i \in 1 .. Len(s) : v[i] = s[i]
  <2>0. s \in Seq(S)
    BY <1>0
  <2>1. v \in Seq(S) /\ Len(v) = Len(s) + 1
    BY <1>2, <2>0, AppendProperties
  <2>2. v[Len(s) + 1] = b
    BY <1>2, <2>0, AppendProperties
  <2>3. \A i \in 1 .. Len(s) : v[i] = s[i]
    BY <1>2, <2>0, AppendProperties
  <2> QED
    BY <2>1, <2>2, <2>3
<1>4. Len(v) = 2 /\ v[1] = a /\ v[2] = b
  BY <1>0, <1>3
<1>5. \A x \in 1 .. Len(t) : v[x] = t[x]
  BY <1>1, <1>4
<1>6. v = t
  BY <1>1, <1>3, <1>4, <1>5, SeqEqual
<1> QED
  BY <1>2, <1>6 DEF s, t

\* A line that is two quoted words spells them.
LEMMA AsMeantInit ==
  ASSUME ArgumentsInit
  PROVE  AsMeant
<1> SUFFICES ASSUME meant # << >>
             PROVE  \E u, w, q, r, P, R : Meaning(u, w, q, r, P, R) /\ Progress(u, w, q, r, P, R)
  BY DEF AsMeant
<1>1. PICK u \in UNION { [1 .. n -> Chars] : n \in 1 .. MaxWord },
           w \in UNION { [1 .. n -> Chars] : n \in 1 .. MaxWord }, q \in Quotes, r \in Quotes :
        line = QuotedWord(u, q) \o QuotedWord(w, r) /\ meant = <<u, w>>
  BY DEF ArgumentsInit, SomeLine
<1>2. ASSUME NEW v \in UNION { [1 .. n -> Chars] : n \in 1 .. MaxWord }
      PROVE  v \in Seq(Chars) /\ v # << >>
  <2>1. PICK n \in 1 .. MaxWord : v \in [1 .. n -> Chars]
    OBVIOUS
  <2>2. n \in Nat /\ n # 0
    BY ArgumentsAssumption
  <2>3. v \in Seq(Chars) /\ Len(v) = n
    BY <2>1, <2>2, WordsAreSequences
  <2> QED
    BY <2>2, <2>3
<1>3. PICK a, b : a = QuotedWord(u, q) /\ b = QuotedWord(w, r)
  OBVIOUS
<1>4. u \in Seq(Chars) /\ w \in Seq(Chars) /\ u # << >> /\ w # << >>
  BY <1>2
<1>5. PICK P : a \in Seq(Chars) /\ Spells(a, 0, u, q, P) /\ P[Len(u)] + 1 = Len(a)
  BY <1>3, <1>4, QuotedWordSpells
<1>6. PICK R0 : b \in Seq(Chars) /\ Spells(b, 0, w, r, R0) /\ R0[Len(w)] + 1 = Len(b)
  BY <1>3, <1>4, QuotedWordSpells
<1>7. line = a \o b
  BY <1>1, <1>3
<1>8. Spells(line, 0, u, q, P)
  BY <1>4, <1>5, <1>6, <1>7, SpellsLeft
<1>9. PICK R : Spells(line, Len(a), w, r, R) /\ R[Len(w)] = Len(a) + R0[Len(w)]
  BY <1>4, <1>5, <1>6, <1>7, SpellsRight
<1>10. R[Len(w)] + 1 = Len(line)
  <2>1. Len(line) = Len(a) + Len(b) /\ Len(a) \in Nat /\ Len(b) \in Nat
    BY <1>5, <1>6, <1>7, BeginsConcat
  <2>2. R0[Len(w)] \in Nat
    <3>1. Len(w) \in 0 .. Len(w)
      BY <1>4
    <3> QED
      BY <1>6, <3>1 DEF Spells
  <2> QED
    BY <1>6, <1>9, <2>1, <2>2
<1>11. Meaning(u, w, q, r, P, R)
  <2>1. Spells(line, P[Len(u)] + 1, w, r, R)
    BY <1>5, <1>9
  <2> QED
    BY <1>1, <1>4, <1>8, <1>10, <2>1 DEF Meaning
<1>12. line # << >>
  BY <1>8 DEF Spells
<1>13. arguments = << >> /\ at = "skip" /\ pos = 0 /\ buf = << >>
  BY <1>12 DEF ArgumentsInit
<1>14. ~escaped
  BY Zenon DEF ArgumentsInit
<1>15. Progress(u, w, q, r, P, R)
  BY <1>13, <1>14, Zenon DEF Progress, Beginning
<1> QED
  BY <1>11, <1>15

\* Two quoted words are read as such, character by character.
LEMMA AsMeantNext ==
  ASSUME TypeOK, AsMeant, [Parse]_vars
  PROVE  AsMeant'
<1>0. line' = line /\ meant' = meant
  BY Zenon DEF vars, Parse, SkipWhitespace, SkipToEnd, BeginQuoted, BeginWord, EscapeThrows,
     ReadBackslash, ReadEscape, ReadChar, Keep, EndArgument
<1> SUFFICES ASSUME meant # << >>
             PROVE  \E u, w, q, r, P, R :
                      (Meaning(u, w, q, r, P, R) /\ Progress(u, w, q, r, P, R))'
  BY <1>0 DEF AsMeant
<1>1. PICK u, w, q, r, P, R : Meaning(u, w, q, r, P, R) /\ Progress(u, w, q, r, P, R)
  BY DEF AsMeant
<1>2. Meaning(u, w, q, r, P, R)'
  BY <1>0, <1>1 DEF Meaning
<1> SUFFICES Progress(u, w, q, r, P, R)'
  BY <1>2
<1>3. CASE UNCHANGED vars
  BY <1>1, <1>3 DEF vars, Progress, Beginning, Reading
<1>4. CASE Parse
  <2>0. /\ u \in Seq(Chars) /\ w \in Seq(Chars) /\ u # << >> /\ w # << >>
        /\ q \in Quotes /\ r \in Quotes /\ 0 \in Nat
        /\ Spells(line, 0, u, q, P) /\ Spells(line, P[Len(u)] + 1, w, r, R)
        /\ R[Len(w)] + 1 = Len(line)
    BY <1>1 DEF Meaning
  <2>1. PICK o : o = P[Len(u)] + 1
    OBVIOUS
  <2>2. o \in Nat /\ o < Len(line) /\ Len(line) \in Nat /\ R[Len(w)] \in Nat
    <3>1. Len(u) \in 0 .. Len(u) /\ Len(w) \in 0 .. Len(w) /\ Len(line) \in Nat
      BY <2>0 DEF TypeOK
    <3>2. P[Len(u)] \in Nat /\ R[Len(w)] \in Nat /\ o + 1 <= Len(line)
      BY <2>0, <2>1, <3>1 DEF Spells
    <3> QED
      BY <2>1, <3>1, <3>2
  <2>3. Spells(line, o, w, r, R)
    BY <2>0, <2>1
  <2>4. CASE arguments = << >> /\ Beginning(0)
    <3>1. at' = "read" /\ Reading(u, q, P)' /\ arguments' = << >>
      BY <1>4, <2>0, <2>4, WordBegins
    <3> QED
      BY <3>1 DEF Progress
  <2>5. CASE arguments = << >> /\ at = "read" /\ Reading(u, q, P)
    <3>1. \/ at' = "read" /\ Reading(u, q, P)' /\ arguments' = arguments
          \/ EndArgument /\ buf = u /\ Quoted /\ pos = P[Len(u)]
      BY <1>4, <2>0, <2>5, WordReadOn
    <3>2. CASE at' = "read" /\ Reading(u, q, P)' /\ arguments' = arguments
      BY <2>5, <3>2 DEF Progress
    <3>3. CASE EndArgument /\ buf = u /\ Quoted /\ pos = P[Len(u)]
      <4>1. arguments' = Append(arguments, u) /\ at' = "skip" /\ Beginning(o)'
        BY <2>0, <2>1, <2>2, <3>3, WordEnds
      <4>2. arguments' = <<u>>
        BY <2>5, <4>1
      <4>3. Beginning(P[Len(u)] + 1)'
        BY <2>1, <4>1
      <4> QED
        BY <4>2, <4>3 DEF Progress
    <3> QED
      BY <3>1, <3>2, <3>3
  <2>6. CASE arguments = <<u>> /\ Beginning(P[Len(u)] + 1)
    <3>1. at' = "read" /\ Reading(w, r, R)' /\ arguments' = <<u>>
      BY <1>4, <2>0, <2>1, <2>2, <2>3, <2>6, WordBegins
    <3> QED
      BY <3>1 DEF Progress
  <2>7. CASE arguments = <<u>> /\ at = "read" /\ Reading(w, r, R)
    <3>1. \/ at' = "read" /\ Reading(w, r, R)' /\ arguments' = arguments
          \/ EndArgument /\ buf = w /\ Quoted /\ pos = R[Len(w)]
      BY <1>4, <2>0, <2>2, <2>3, <2>7, WordReadOn
    <3>2. CASE at' = "read" /\ Reading(w, r, R)' /\ arguments' = arguments
      BY <2>7, <3>2 DEF Progress
    <3>3. CASE EndArgument /\ buf = w /\ Quoted /\ pos = R[Len(w)]
      <4>1. arguments' = Append(arguments, w) /\ at' = "returned"
        BY <2>0, <2>2, <3>3, WordEnds
      <4>2. Append(<<u>>, w) = <<u, w>>
        BY <2>0, TwoOf
      <4>3. arguments' = <<u, w>>
        BY <2>7, <4>1, <4>2
      <4> QED
        BY <4>1, <4>3 DEF Progress
    <3> QED
      BY <3>1, <3>2, <3>3
  <2>8. CASE at = "returned"
    BY <1>4, <2>8 DEF Parse, SkipWhitespace, SkipToEnd, BeginQuoted, BeginWord, EscapeThrows,
       ReadBackslash, ReadEscape, ReadChar, EndArgument
  <2> QED
    BY <1>1, <2>4, <2>5, <2>6, <2>7, <2>8 DEF Progress
<1> QED
  BY <1>3, <1>4

\* Two arguments in quotes of either kind, with every quote of that kind and
\* every backslash escaped, are what parseArguments returns, even where the
\* second begins right behind the first, and it throws for none of them:
\* every text but the empty one can be given as an argument.
THEOREM QuotingWorksHolds == ArgumentsSpec => []QuotingWorks
<1>1. ArgumentsInit => TypeOK /\ AsMeant
  BY InitType, AsMeantInit
<1>2. TypeOK /\ AsMeant /\ [Parse]_vars => (TypeOK /\ AsMeant)'
  BY TypeNext, AsMeantNext
<1>3. TypeOK /\ AsMeant => QuotingWorks
  BY DEF AsMeant, Meaning, Progress, Beginning, QuotingWorks
<1> QED
  BY <1>1, <1>2, <1>3, PTL DEF ArgumentsSpec
=============================================================================
