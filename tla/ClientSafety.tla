---------------------------- MODULE ClientSafety ----------------------------
(***************************************************************************)
(* What Client promises, for any number of spellings, names and commands,  *)
(* whatever other sessions do meanwhile: the inductive invariant and its   *)
(* proof.                                                                  *)
(***************************************************************************)
EXTENDS Client, FiniteSetTheorems, SequenceTheorems, TLAPS

\* Ids are drawn from counters and are keys, also after the row is gone; a
\* triple is visible if another session has added it.
IdsKeyed ==
  /\ \A r \in rows : r.id < nextBlob
  /\ \A r, q \in rows : r.id = q.id => r = q
  /\ \A t \in triples : t.id < nextTriple /\ t.blob < nextBlob
  /\ \A t, u \in triples : t.id = u.id => t = u
  /\ \A t \in triples : t.visible <=> t.by = None

\* A File buffers a blob under its name, and once.
ObjectsKeyed ==
  \A sp \in DOMAIN buffer : \A n \in DOMAIN buffer[sp] :
    /\ buffer[sp][n].id < nextBlob
    /\ \A r \in rows : r.id = buffer[sp][n].id => r.name = n
    /\ \A m \in DOMAIN buffer[sp] : buffer[sp][m].id = buffer[sp][n].id => m = n

\* The blob was in the buffer of the File it was journaled or described
\* through, and there it stays.
Met(sp, id) ==
  /\ sp \in DOMAIN buffer
  /\ id < nextBlob
  /\ \A r \in rows : r.id = id => r.name \in DOMAIN buffer[sp]

JournalMet == \A i \in DOMAIN journal : Met(journal[i].by, journal[i].blob)

TriplesMet == \A t \in triples : t.by # None => Met(t.by, t.blob)

\* What was removed through a File is not given out by it any more.
RemovedDead ==
  \A i \in DOMAIN journal : journal[i].op = "Remove" =>
    \A n \in Live(journal[i].by) : buffer[journal[i].by][n].id # journal[i].blob

\* A Blob object that is not removed knows the triples added through its File.
TriplesKnown ==
  \A sp \in DOMAIN buffer : \A n \in Live(sp) :
    /\ \A t \in triples : t.by = sp /\ t.blob = buffer[sp][n].id
                            => t.id \in buffer[sp][n].newTriples
    /\ \A x \in buffer[sp][n].newTriples :
         \E t \in triples : t.by = sp /\ t.blob = buffer[sp][n].id /\ t.id = x

\* The calls of a command: each finds its File open, and those on a Blob object
\* an object that is not removed, now or because an earlier call sees to it.
Removes(c, sp, n) == c.do = "remove" /\ c.file = sp /\ c.name = n

WillBeOpen(s, k) ==
  \/ s[k].file \in DOMAIN buffer
  \/ \E j \in 1 .. k - 1 : s[j].do = "open" /\ s[j].file = s[k].file

IsHeld(sp, n) == sp \in DOMAIN buffer /\ n \in Live(sp)

WillBeHeld(s, k) ==
  \/ /\ IsHeld(s[k].file, s[k].name)
     /\ \A l \in 1 .. k - 1 : ~Removes(s[l], s[k].file, s[k].name)
  \/ \E j \in 1 .. k - 1 :
       /\ s[j].do = "get" /\ s[j].file = s[k].file /\ s[j].name = s[k].name
       /\ \A l \in j + 1 .. k - 1 : ~Removes(s[l], s[k].file, s[k].name)

InOrder(s) ==
  \A k \in DOMAIN s :
    /\ s[k].do # "open" => WillBeOpen(s, k)
    /\ s[k].do \in {"remove", "read", "write", "describe"} => WillBeHeld(s, k)

\* Calls are those of a command, and nothing follows an exception.  A blob is
\* created right after its name was looked for in vain.
CallsWanted == todo # << >> => command # None /\ failed = None

AddsMissing ==
  \A k \in DOMAIN todo : todo[k].do = "add" =>
    k = 1 /\ (~disturbed => ~HasBlob(todo[k].file, todo[k].name))

\* The action store opens what it has found or created.
StoreFinds ==
  command # None => (command.action = "store" /\ ~disturbed =>
    \A k \in DOMAIN todo :
      /\ todo[k].do # "names"
      /\ todo[k].do = "get" =>
           IF k = 1 THEN HasBlob(todo[k].file, todo[k].name)
           ELSE /\ todo[k - 1].do \in {"has", "add"}
                /\ todo[k - 1].file = todo[k].file
                /\ todo[k - 1].name = todo[k].name)

\* rm without a name, undisturbed: what is to be opened is listed, and once it
\* is listed everything in the file is going to be removed.
RmCalls ==
  \A k \in DOMAIN todo :
    /\ todo[k].file = command.file
    /\ todo[k].do \in {"open", "names", "get", "remove"}
    /\ todo[k].do = "open" => \E l \in DOMAIN todo : l > k /\ todo[l].do = "names"
    /\ todo[k].do = "get" =>
         /\ command.file \in DOMAIN buffer /\ HasBlob(command.file, todo[k].name)
         /\ \A l \in 1 .. k - 1 : ~Removes(todo[l], todo[k].file, todo[k].name)

Listed == \A k \in DOMAIN todo : todo[k].do # "names"

Left(sp) == Live(sp) \cup (VisibleNames \ DOMAIN buffer[sp])

RmProgress ==
  command # None => (command.action = "rmFile" /\ ~disturbed =>
    /\ RmCalls
    /\ failed = None /\ Listed =>
         \A n \in Left(command.file) :
           \E k \in DOMAIN todo : Removes(todo[k], command.file, n))

ClientInv ==
  /\ ClientTypeOK /\ IdsKeyed /\ ObjectsKeyed
  /\ JournalMet /\ TriplesMet /\ RemovedDead /\ TriplesKnown
  /\ InOrder(todo) /\ CallsWanted /\ AddsMissing /\ StoreFinds /\ RmProgress
  /\ ExceptionsExplained /\ RemovalIsFinal

-----------------------------------------------------------------------------
(* Sequences of calls.                                                     *)

\* What is left after the first call, position by position.
LEMMA TailOfCalls ==
  ASSUME NEW s \in Seq(Call), s # << >>
  PROVE  /\ Len(s) \in Nat /\ Len(s) >= 1 /\ DOMAIN s = 1 .. Len(s)
         /\ 1 \in DOMAIN s /\ Head(s) = s[1] /\ s[1] \in Call
         /\ Tail(s) \in Seq(Call) /\ Len(Tail(s)) = Len(s) - 1
         /\ DOMAIN Tail(s) = 1 .. Len(s) - 1
         /\ \A k \in 1 .. Len(s) - 1 : Tail(s)[k] = s[k + 1]
BY HeadTailProperties

\* A call put before others.
LEMMA Prepended ==
  ASSUME NEW c \in Call, NEW s \in Seq(Call)
  PROVE  /\ <<c>> \o s \in Seq(Call) /\ <<c>> \o s # << >>
         /\ Len(<<c>> \o s) = Len(s) + 1
         /\ DOMAIN (<<c>> \o s) = 1 .. Len(s) + 1
         /\ (<<c>> \o s)[1] = c
         /\ \A k \in 1 .. Len(s) : (<<c>> \o s)[k + 1] = s[k]
         /\ \A k \in DOMAIN (<<c>> \o s) :
              k = 1 \/ (k - 1 \in 1 .. Len(s) /\ (<<c>> \o s)[k] = s[k - 1])
<1>1. <<c>> \in Seq(Call) /\ Len(<<c>>) = 1 /\ (<<c>>)[1] = c
  OBVIOUS
<1>2. /\ <<c>> \o s \in Seq(Call)
      /\ Len(<<c>> \o s) = 1 + Len(s)
      /\ \A i \in 1 .. Len(s) + 1 : (<<c>> \o s)[i] =
           IF i <= Len(<<c>>) THEN (<<c>>)[i] ELSE s[i - Len(<<c>>)]
  BY <1>1, ConcatProperties
<1> HIDE <1>1
<1> QED
  BY <1>1, <1>2

\* Calls after calls.
LEMMA Concatenated ==
  ASSUME NEW s \in Seq(Call), NEW t \in Seq(Call)
  PROVE  /\ s \o t \in Seq(Call) /\ Len(s \o t) = Len(s) + Len(t)
         /\ \A k \in 1 .. Len(s) : (s \o t)[k] = s[k]
         /\ \A k \in 1 .. Len(t) : (s \o t)[Len(s) + k] = t[k]
<1>1. /\ s \o t \in Seq(Call) /\ Len(s \o t) = Len(s) + Len(t)
      /\ \A i \in 1 .. Len(s) + Len(t) :
           (s \o t)[i] = IF i <= Len(s) THEN s[i] ELSE t[i - Len(s)]
  BY ConcatProperties
<1> QED
  BY <1>1

\* Two calls, and three.
LEMMA FewCalls ==
  ASSUME NEW a \in Call, NEW b \in Call, NEW c \in Call
  PROVE  /\ <<a>> \in Seq(Call) /\ Len(<<a>>) = 1 /\ (<<a>>)[1] = a
         /\ <<a, b>> \in Seq(Call) /\ Len(<<a, b>>) = 2
         /\ <<a, b>>[1] = a /\ <<a, b>>[2] = b
         /\ <<a, b, c>> \in Seq(Call) /\ Len(<<a, b, c>>) = 3
         /\ <<a, b, c>>[1] = a /\ <<a, b, c>>[2] = b /\ <<a, b, c>>[3] = c
OBVIOUS

\* The calls of the actions, one by one.
LEMMA OpenThenOne ==
  ASSUME NEW a \in Call, NEW b \in Call
  PROVE  /\ <<a>> \o <<b>> \in Seq(Call) /\ <<a>> \o <<b>> # << >>
         /\ DOMAIN (<<a>> \o <<b>>) = {1, 2}
         /\ (<<a>> \o <<b>>)[1] = a /\ (<<a>> \o <<b>>)[2] = b
<1> DEFINE s == <<a>> \o <<b>>
<1>1. <<b>> \in Seq(Call) /\ Len(<<b>>) = 1 /\ (<<b>>)[1] = b
  OBVIOUS
<1>2. /\ s \in Seq(Call) /\ s # << >> /\ DOMAIN s = 1 .. Len(<<b>>) + 1 /\ s[1] = a
      /\ \A k \in 1 .. Len(<<b>>) : s[k + 1] = (<<b>>)[k]
  BY <1>1, Prepended
<1> HIDE DEF s
<1>3. s[1 + 1] = (<<b>>)[1]
  BY <1>1, <1>2
<1> QED
  BY <1>1, <1>2, <1>3 DEF s

\* The same for action cat.
LEMMA OpenThenTwo ==
  ASSUME NEW a \in Call, NEW b \in Call, NEW c \in Call
  PROVE  LET s == <<a>> \o <<b, c>> IN
         /\ s \in Seq(Call) /\ s # << >> /\ DOMAIN s = 1 .. 3
         /\ s[1] = a /\ s[2] = b /\ s[3] = c
<1> DEFINE t == <<b, c>>
           s == <<a>> \o t
<1>1. t \in Seq(Call) /\ Len(t) = 2 /\ t[1] = b /\ t[2] = c
  BY FewCalls
<1> HIDE DEF t
<1>2. /\ s \in Seq(Call) /\ s # << >> /\ DOMAIN s = 1 .. Len(t) + 1 /\ s[1] = a
      /\ \A k \in 1 .. Len(t) : s[k + 1] = t[k]
  BY <1>1, Prepended
<1> HIDE DEF s
<1>3. s[1 + 1] = t[1] /\ s[2 + 1] = t[2]
  BY <1>1, <1>2
<1> QED
  BY <1>1, <1>2, <1>3 DEF s, t

\* The same for action store.
LEMMA OpenThenThree ==
  ASSUME NEW a \in Call, NEW b \in Call, NEW c \in Call, NEW d \in Call
  PROVE  LET s == <<a>> \o <<b, c, d>> IN
         /\ s \in Seq(Call) /\ s # << >> /\ DOMAIN s = 1 .. 4
         /\ s[1] = a /\ s[2] = b /\ s[3] = c /\ s[4] = d
<1> DEFINE t == <<b, c, d>>
           s == <<a>> \o t
<1>1. t \in Seq(Call) /\ Len(t) = 3 /\ t[1] = b /\ t[2] = c /\ t[3] = d
  BY FewCalls
<1> HIDE DEF t
<1>2. /\ s \in Seq(Call) /\ s # << >> /\ DOMAIN s = 1 .. Len(t) + 1 /\ s[1] = a
      /\ \A k \in 1 .. Len(t) : s[k + 1] = t[k]
  BY <1>1, Prepended
<1> HIDE DEF s
<1>3. s[1 + 1] = t[1] /\ s[2 + 1] = t[2] /\ s[3 + 1] = t[3]
  BY <1>1, <1>2
<1> QED
  BY <1>1, <1>2, <1>3 DEF s, t

\* The same for action metadata, without and with a blob as object.
LEMMA MetadataCalls ==
  ASSUME NEW a \in Call, NEW b \in Call, NEW e \in Call
  PROVE  /\ LET s == <<a>> \o (<<b>> \o << >> \o <<e>>) IN
            /\ s \in Seq(Call) /\ s # << >> /\ DOMAIN s = 1 .. 3
            /\ s[1] = a /\ s[2] = b /\ s[3] = e
         /\ \A c, d \in Call :
              LET s == <<a>> \o (<<b>> \o <<c, d>> \o <<e>>) IN
              /\ s \in Seq(Call) /\ s # << >> /\ DOMAIN s = 1 .. 5
              /\ s[1] = a /\ s[2] = b /\ s[3] = c /\ s[4] = d /\ s[5] = e
<1>1. /\ <<b>> \in Seq(Call) /\ Len(<<b>>) = 1 /\ (<<b>>)[1] = b
      /\ <<e>> \in Seq(Call) /\ Len(<<e>>) = 1 /\ (<<e>>)[1] = e
  OBVIOUS
<1>2. ASSUME NEW mid \in Seq(Call), Len(mid) \in Nat
      PROVE  LET s == <<a>> \o (<<b>> \o mid \o <<e>>) IN
             /\ s \in Seq(Call) /\ s # << >> /\ DOMAIN s = 1 .. Len(mid) + 3
             /\ s[1] = a /\ s[2] = b /\ s[Len(mid) + 3] = e
             /\ \A k \in 1 .. Len(mid) : s[k + 2] = mid[k]
  <2> DEFINE one == <<e>>
             u == <<b>> \o mid
             v == u \o one
             s == <<a>> \o v
             n == Len(mid)
  <2>1. one \in Seq(Call) /\ Len(one) = 1 /\ one[1] = e
    BY <1>1
  <2>2. /\ u \in Seq(Call) /\ Len(u) = n + 1 /\ u[1] = b
        /\ \A k \in 1 .. n : u[k + 1] = mid[k]
    BY Prepended
  <2> HIDE DEF u, one
  <2>3. /\ v \in Seq(Call) /\ Len(v) = Len(u) + Len(one)
        /\ \A k \in 1 .. Len(u) : v[k] = u[k]
        /\ \A k \in 1 .. Len(one) : v[Len(u) + k] = one[k]
    BY <2>1, <2>2, Concatenated
  <2> HIDE DEF v
  <2>4. /\ s \in Seq(Call) /\ s # << >> /\ DOMAIN s = 1 .. Len(v) + 1 /\ s[1] = a
        /\ \A k \in 1 .. Len(v) : s[k + 1] = v[k]
    BY <2>3, Prepended
  <2> HIDE DEF s
  <2>5. Len(v) = n + 2 /\ n \in Nat
    BY <2>1, <2>2, <2>3
  <2>6. v[1] = b /\ s[1 + 1] = v[1]
    BY <2>2, <2>3, <2>4, <2>5
  <2>7. v[n + 2] = e
    <3>1. v[Len(u) + 1] = one[1]
      BY <2>1, <2>3
    <3> QED
      BY <3>1, <2>1, <2>2, <2>5
  <2>8. s[n + 3] = e
    <3>1. n + 2 \in 1 .. Len(v) /\ (n + 2) + 1 = n + 3
      BY <2>5
    <3>2. s[(n + 2) + 1] = v[n + 2]
      BY <3>1, <2>4
    <3> QED
      BY <3>1, <3>2, <2>7
  <2>9. ASSUME NEW k \in 1 .. n
        PROVE  s[k + 2] = mid[k]
    <3>1. k + 1 \in 1 .. Len(u) /\ k + 1 \in 1 .. Len(v) /\ (k + 1) + 1 = k + 2
      BY <2>2, <2>5
    <3>2. s[(k + 1) + 1] = v[k + 1] /\ v[k + 1] = u[k + 1] /\ u[k + 1] = mid[k]
      BY <3>1, <2>2, <2>3, <2>4
    <3> QED
      BY <3>1, <3>2
  <2>10. Len(v) + 1 = n + 3
    BY <2>5
  <2> QED
    BY <2>4, <2>6, <2>8, <2>9, <2>10 DEF s, v, u, one
<1>3. << >> \in Seq(Call) /\ Len(<< >>) = 0
  OBVIOUS
<1>4. LET s == <<a>> \o (<<b>> \o << >> \o <<e>>) IN
      /\ s \in Seq(Call) /\ s # << >> /\ DOMAIN s = 1 .. 3
      /\ s[1] = a /\ s[2] = b /\ s[3] = e
  <2> DEFINE s == <<a>> \o (<<b>> \o << >> \o <<e>>)
  <2>1. /\ s \in Seq(Call) /\ s # << >> /\ DOMAIN s = 1 .. Len(<< >>) + 3
        /\ s[1] = a /\ s[2] = b /\ s[Len(<< >>) + 3] = e
    BY <1>2, <1>3
  <2> HIDE DEF s
  <2>2. DOMAIN s = 1 .. 3 /\ s[3] = e
    BY <2>1, <1>3
  <2> QED
    BY <2>1, <2>2 DEF s
<1>5. ASSUME NEW c \in Call, NEW d \in Call
      PROVE  LET s == <<a>> \o (<<b>> \o <<c, d>> \o <<e>>) IN
             /\ s \in Seq(Call) /\ s # << >> /\ DOMAIN s = 1 .. 5
             /\ s[1] = a /\ s[2] = b /\ s[3] = c /\ s[4] = d /\ s[5] = e
  <2> DEFINE t == <<c, d>>
             s == <<a>> \o (<<b>> \o t \o <<e>>)
  <2>1. t \in Seq(Call) /\ Len(t) = 2 /\ t[1] = c /\ t[2] = d
    BY FewCalls
  <2> HIDE DEF t
  <2>2. /\ s \in Seq(Call) /\ s # << >> /\ DOMAIN s = 1 .. Len(t) + 3
        /\ s[1] = a /\ s[2] = b /\ s[Len(t) + 3] = e
        /\ \A k \in 1 .. Len(t) : s[k + 2] = t[k]
    BY <1>2, <2>1
  <2> HIDE DEF s
  <2>3. DOMAIN s = 1 .. 5 /\ s[5] = e /\ s[1 + 2] = t[1] /\ s[2 + 2] = t[2]
    BY <2>1, <2>2
  <2> QED
    BY <2>1, <2>2, <2>3 DEF s, t
<1> QED
  BY <1>4, <1>5

\* A call is what was asked for.
LEMMA DoIsCall ==
  ASSUME NEW sp \in Spelling, NEW n \in Name,
         NEW op \in {"open", "has", "add", "get", "names", "remove",
                     "read", "write", "describe"}
  PROVE  /\ Do(op, sp, n) \in Call
         /\ Do(op, sp, n).do = op /\ Do(op, sp, n).file = sp /\ Do(op, sp, n).name = n
BY DEF Do, Call

\* The calls of File::removeBlob come in pairs.
LEMMA RemovalsInPairs ==
  ASSUME NEW sp \in Spelling, NEW names \in Seq(Name)
  PROVE  /\ Removals(sp, names) \in Seq(Call)
         /\ DOMAIN Removals(sp, names) = 1 .. 2 * Len(names)
         /\ \A i \in 1 .. Len(names) :
              /\ 2 * i - 1 \in DOMAIN Removals(sp, names)
              /\ Removals(sp, names)[2 * i - 1] = Do("get", sp, names[i])
              /\ 2 * i \in DOMAIN Removals(sp, names)
              /\ Removals(sp, names)[2 * i] = Do("remove", sp, names[i])
         /\ \A k \in DOMAIN Removals(sp, names) :
              \E i \in 1 .. Len(names) :
                \/ k = 2 * i - 1 /\ Removals(sp, names)[k] = Do("get", sp, names[i])
                \/ k = 2 * i /\ Removals(sp, names)[k] = Do("remove", sp, names[i])
<1> DEFINE R == Removals(sp, names)
           len == Len(names)
<1>1. len \in Nat /\ 2 * len \in Nat /\ \A i \in 1 .. len : names[i] \in Name
  OBVIOUS
<1>2. /\ DOMAIN R = 1 .. 2 * len
      /\ \A k \in 1 .. 2 * len :
           R[k] = Do(IF k % 2 = 1 THEN "get" ELSE "remove", sp, names[(k + 1) \div 2])
  BY DEF Removals
<1>3. ASSUME NEW i \in 1 .. len
      PROVE  /\ 2 * i - 1 \in 1 .. 2 * len /\ R[2 * i - 1] = Do("get", sp, names[i])
             /\ 2 * i \in 1 .. 2 * len /\ R[2 * i] = Do("remove", sp, names[i])
  <2>1. /\ 2 * i - 1 \in 1 .. 2 * len /\ 2 * i \in 1 .. 2 * len
        /\ (2 * i - 1) % 2 = 1 /\ (2 * i) % 2 = 0
        /\ ((2 * i - 1) + 1) \div 2 = i /\ (2 * i + 1) \div 2 = i
    BY <1>1
  <2> HIDE DEF R
  <2> QED
    BY <2>1, <1>2
<1>4. ASSUME NEW k \in 1 .. 2 * len
      PROVE  \E i \in 1 .. len : k = 2 * i - 1 \/ k = 2 * i
  <2>1. /\ (k + 1) \div 2 \in 1 .. len
        /\ k = 2 * ((k + 1) \div 2) - 1 \/ k = 2 * ((k + 1) \div 2)
    BY <1>1
  <2> QED
    BY <2>1
<1>5. R = [k \in 1 .. 2 * len |-> R[k]]
  BY <1>1 DEF Removals
<1> HIDE DEF R
<1>6. ASSUME NEW k \in 1 .. 2 * len
      PROVE  /\ \E i \in 1 .. len :
                  \/ k = 2 * i - 1 /\ R[k] = Do("get", sp, names[i])
                  \/ k = 2 * i /\ R[k] = Do("remove", sp, names[i])
             /\ R[k] \in Call
  <2>1. PICK i \in 1 .. len : k = 2 * i - 1 \/ k = 2 * i
    BY <1>4
  <2>2. /\ R[2 * i - 1] = Do("get", sp, names[i])
        /\ R[2 * i] = Do("remove", sp, names[i])
    BY <1>3
  <2>3. Do("get", sp, names[i]) \in Call /\ Do("remove", sp, names[i]) \in Call
    BY <1>1, DoIsCall
  <2> QED
    BY <2>1, <2>2, <2>3
<1>7. R \in Seq(Call)
  <2>1. R \in [1 .. 2 * len -> Call]
    BY <1>5, <1>6
  <2> QED
    BY <2>1, <1>1
<1>8. \A i \in 1 .. len :
        /\ 2 * i - 1 \in DOMAIN R /\ R[2 * i - 1] = Do("get", sp, names[i])
        /\ 2 * i \in DOMAIN R /\ R[2 * i] = Do("remove", sp, names[i])
  BY <1>2, <1>3
<1> QED
  BY <1>2, <1>6, <1>7, <1>8 DEF R

\* A set of names in order is a sequence with each of them once.
LEMMA AscendingLists ==
  ASSUME NEW S \in SUBSET Name, NEW names \in Ascending(S)
  PROVE  /\ names \in Seq(Name)
         /\ \A i \in 1 .. Len(names) : names[i] \in S
         /\ \A i, j \in 1 .. Len(names) : names[i] = names[j] => i = j
         /\ \A n \in S : \E i \in 1 .. Len(names) : names[i] = n
<1> DEFINE D == 1 .. Cardinality(S)
<1>1. IsFiniteSet(S)
  BY ClientAssumption, FS_Subset
<1>2. Cardinality(S) \in Nat
  BY <1>1, FS_CardinalityType
<1>3. names \in [D -> S] /\ \A i, j \in D : i # j => names[i] # names[j]
  BY DEF Ascending, SetToSeqs
<1>4. names \in Seq(S) /\ Len(names) = Cardinality(S) /\ names \in Seq(Name)
  BY <1>2, <1>3
<1>5. names \in Injection(D, S)
  BY <1>3 DEF Injection, IsInjective
<1>6. Cardinality(D) = Cardinality(S)
  BY <1>2, FS_Interval
<1>7. names \in Surjection(D, S)
  BY <1>1, <1>5, <1>6, FS_Injection
<1>8. \A n \in S : \E i \in D : names[i] = n
  BY <1>7 DEF Surjection
<1> QED
  BY <1>2, <1>3, <1>4, <1>8

\* Names of a given number are a sequence.
LEMMA OfLength ==
  ASSUME NEW n \in Nat, NEW f \in [1 .. n -> Name]
  PROVE  f \in Seq(Name) /\ Len(f) = n
OBVIOUS

\* Commands are typed, and the first call opens the file.
LEMMA CommandsTyped ==
  ASSUME NEW act \in Commands
  PROVE  /\ act \in Action
         /\ act.file \in Spelling /\ Len(act.names) \in {1, 2} /\ act.names \in Seq(Name)
         /\ act.names[1] \in Name /\ act.names[Len(act.names)] \in Name
         /\ act.objectFile \in Spelling \cup {None}
<1>1. CASE act \in [action : {"cat", "store", "rmFile"},
                    file : Spelling, names : [{1} -> Name], objectFile : {None}]
  <2>1. act.names \in [1 .. 1 -> Name]
    <3>1. {1} = 1 .. 1
      OBVIOUS
    <3> QED
      BY <1>1, <3>1
  <2>2. act.names \in Seq(Name) /\ Len(act.names) = 1
    BY <2>1, OfLength
  <2>3. act.names[1] \in Name
    BY <2>1
  <2>4. /\ act = [action |-> act.action, file |-> act.file, names |-> act.names,
                  objectFile |-> act.objectFile]
        /\ act.action \in {"cat", "store", "rmFile"} /\ act.file \in Spelling
        /\ act.objectFile = None
    BY <1>1
  <2>5. act \in Action
    BY <2>2, <2>4 DEF Action
  <2>6. act.names[Len(act.names)] \in Name
    BY <2>2, <2>3
  <2> QED
    BY <2>2, <2>3, <2>4, <2>5, <2>6
<1>2. CASE act \in [action : {"rm"}, file : Spelling, names : [1 .. 2 -> Name],
                    objectFile : {None}]
  <2>1. act.names \in [1 .. 2 -> Name]
    BY <1>2
  <2>2. act.names \in Seq(Name) /\ Len(act.names) = 2
    BY <2>1, OfLength
  <2>3. act.names[1] \in Name /\ act.names[2] \in Name
    BY <2>1
  <2>4. /\ act = [action |-> act.action, file |-> act.file, names |-> act.names,
                  objectFile |-> act.objectFile]
        /\ act.action \in {"rm"} /\ act.file \in Spelling
        /\ act.objectFile = None
    BY <1>2
  <2>5. act \in Action
    BY <2>2, <2>4 DEF Action
  <2>6. act.names[Len(act.names)] \in Name
    BY <2>2, <2>3
  <2> QED
    BY <2>2, <2>3, <2>4, <2>5, <2>6
<1>3. CASE act \in [action : {"metadata"}, file : Spelling, names : [1 .. 2 -> Name],
                    objectFile : Spelling \cup {None}]
  <2>1. act.names \in [1 .. 2 -> Name]
    BY <1>3
  <2>2. act.names \in Seq(Name) /\ Len(act.names) = 2
    BY <2>1, OfLength
  <2>3. act.names[1] \in Name /\ act.names[2] \in Name
    BY <2>1
  <2>4. /\ act = [action |-> act.action, file |-> act.file, names |-> act.names,
                  objectFile |-> act.objectFile]
        /\ act.action \in {"metadata"} /\ act.file \in Spelling
        /\ act.objectFile \in Spelling \cup {None}
    BY <1>3
  <2>5. act \in Action
    BY <2>2, <2>4 DEF Action
  <2>6. act.names[Len(act.names)] \in Name
    BY <2>2, <2>3
  <2> QED
    BY <2>2, <2>3, <2>4, <2>5, <2>6
<1> QED
  BY <1>1, <1>2, <1>3 DEF Commands

\* The calls of a command are in order, whatever is buffered; none is for a
\* blob to be created; store looks for the blob before it opens it, and rm
\* without a name lists the file.
LEMMA CallsInOrder ==
  ASSUME NEW act \in Commands
  PROVE  /\ Calls(act) \in Seq(Call) /\ Calls(act) # << >>
         /\ InOrder(Calls(act))
         /\ \A k \in DOMAIN Calls(act) : Calls(act)[k].do # "add"
         /\ act.action = "store" =>
              \A k \in DOMAIN Calls(act) :
                /\ Calls(act)[k].do # "names"
                /\ Calls(act)[k].do = "get" =>
                     /\ k # 1 /\ Calls(act)[k - 1].do = "has"
                     /\ Calls(act)[k - 1].file = Calls(act)[k].file
                     /\ Calls(act)[k - 1].name = Calls(act)[k].name
         /\ act.action = "rmFile" =>
              /\ DOMAIN Calls(act) = {1, 2}
              /\ Calls(act)[1] = Do("open", act.file, act.names[1])
              /\ Calls(act)[2] = Do("names", act.file, act.names[1])
<1> DEFINE sp == act.file
           n == act.names[1]
           other == act.names[Len(act.names)]
           s == Calls(act)
<1>0. /\ sp \in Spelling /\ n \in Name /\ other \in Name /\ act.names \in Seq(Name)
      /\ act.action \in {"cat", "store", "rm", "rmFile", "metadata"}
      /\ act.objectFile \in Spelling \cup {None}
  BY CommandsTyped DEF Action
<1> HIDE DEF n, other, sp
<1>1. CASE act.action = "cat"
  <2>1. s = <<Do("open", sp, n)>> \o <<Do("get", sp, n), Do("read", sp, n)>>
    BY <1>1 DEF Calls, n, sp
  <2>2. /\ Do("open", sp, n) \in Call /\ Do("get", sp, n) \in Call
        /\ Do("read", sp, n) \in Call
    BY <1>0, DoIsCall
  <2>3. /\ s \in Seq(Call) /\ s # << >> /\ DOMAIN s = 1 .. 3
        /\ s[1] = Do("open", sp, n) /\ s[2] = Do("get", sp, n) /\ s[3] = Do("read", sp, n)
    BY <2>1, <2>2, OpenThenTwo
  <2> HIDE DEF s
  <2>4. \A k \in DOMAIN s : k = 1 \/ k = 2 \/ k = 3
    BY <2>3
  <2>5. InOrder(s)
    BY <2>3, <2>4 DEF InOrder, WillBeOpen, WillBeHeld, Do, Removes
  <2> QED
    BY <2>3, <2>4, <2>5, <1>1 DEF Do, s
<1>2. CASE act.action = "store"
  <2>1. s = <<Do("open", sp, n)>> \o <<Do("has", sp, n), Do("get", sp, n), Do("write", sp, n)>>
    BY <1>2 DEF Calls, n, sp
  <2>2. /\ Do("open", sp, n) \in Call /\ Do("has", sp, n) \in Call
        /\ Do("get", sp, n) \in Call /\ Do("write", sp, n) \in Call
    BY <1>0, DoIsCall
  <2>3. /\ s \in Seq(Call) /\ s # << >> /\ DOMAIN s = 1 .. 4
        /\ s[1] = Do("open", sp, n) /\ s[2] = Do("has", sp, n)
        /\ s[3] = Do("get", sp, n) /\ s[4] = Do("write", sp, n)
    BY <2>1, <2>2, OpenThenThree
  <2> HIDE DEF s
  <2>4. \A k \in DOMAIN s : k = 1 \/ k = 2 \/ k = 3 \/ k = 4
    BY <2>3
  <2>5. InOrder(s)
    BY <2>3, <2>4 DEF InOrder, WillBeOpen, WillBeHeld, Do, Removes
  <2> QED
    BY <2>3, <2>4, <2>5, <1>2 DEF Do, s
<1>3. CASE act.action = "rm"
  <2> DEFINE R == Removals(sp, act.names)
             len == Len(act.names)
  <2>1. s = <<Do("open", sp, n)>> \o R
    BY <1>3 DEF Calls, n, sp
  <2>2. /\ R \in Seq(Call) /\ DOMAIN R = 1 .. 2 * len
        /\ \A i \in 1 .. len :
             /\ 2 * i - 1 \in DOMAIN R /\ R[2 * i - 1] = Do("get", sp, act.names[i])
             /\ 2 * i \in DOMAIN R /\ R[2 * i] = Do("remove", sp, act.names[i])
        /\ \A k \in DOMAIN R : \E i \in 1 .. len :
             \/ k = 2 * i - 1 /\ R[k] = Do("get", sp, act.names[i])
             \/ k = 2 * i /\ R[k] = Do("remove", sp, act.names[i])
    BY <1>0, RemovalsInPairs
  <2> HIDE DEF R, s
  <2>3. Len(R) = 2 * len /\ len \in Nat
    BY <2>2, <1>0
  <2>4. Do("open", sp, n) \in Call
    BY <1>0, DoIsCall
  <2>5. /\ s \in Seq(Call) /\ s # << >> /\ DOMAIN s = 1 .. 2 * len + 1
        /\ s[1] = Do("open", sp, n) /\ \A k \in 1 .. 2 * len : s[k + 1] = R[k]
    <3>1. /\ s \in Seq(Call) /\ s # << >> /\ DOMAIN s = 1 .. Len(R) + 1
          /\ s[1] = Do("open", sp, n) /\ \A k \in 1 .. Len(R) : s[k + 1] = R[k]
      <4>1. R \in Seq(Call)
        BY <2>2
      <4> QED
        BY <4>1, <2>1, <2>4, Prepended
    <3> QED
      BY <3>1, <2>3
  <2>6. ASSUME NEW k \in DOMAIN s, k # 1
        PROVE  \E i \in 1 .. len :
                 \/ k = 2 * i /\ s[k] = Do("get", sp, act.names[i])
                 \/ /\ k = 2 * i + 1 /\ s[k] = Do("remove", sp, act.names[i])
                    /\ s[2 * i] = Do("get", sp, act.names[i])
    <3>1. k - 1 \in DOMAIN R /\ s[k] = R[k - 1]
      <4>1. k - 1 \in 1 .. 2 * len /\ (k - 1) + 1 = k
        BY <2>3, <2>5, <2>6
      <4>2. s[(k - 1) + 1] = R[k - 1]
        BY <4>1, <2>5
      <4> QED
        BY <4>1, <4>2, <2>2
    <3>2. PICK i \in 1 .. len :
            \/ k - 1 = 2 * i - 1 /\ R[k - 1] = Do("get", sp, act.names[i])
            \/ k - 1 = 2 * i /\ R[k - 1] = Do("remove", sp, act.names[i])
      BY <3>1, <2>2
    <3>3. s[2 * i] = Do("get", sp, act.names[i])
      <4>1. 2 * i - 1 \in 1 .. 2 * len /\ (2 * i - 1) + 1 = 2 * i
        BY <2>3
      <4>2. s[(2 * i - 1) + 1] = R[2 * i - 1]
        BY <4>1, <2>5
      <4>3. R[2 * i - 1] = Do("get", sp, act.names[i])
        BY <2>2
      <4> QED
        BY <4>1, <4>2, <4>3
    <3>4. CASE k - 1 = 2 * i - 1 /\ R[k - 1] = Do("get", sp, act.names[i])
      <4>1. k \in Nat /\ i \in Nat
        BY <2>3, <2>5
      <4>2. k = 2 * i
        BY <4>1, <3>4
      <4> QED
        BY <4>2, <3>1, <3>4
    <3>5. CASE k - 1 = 2 * i /\ R[k - 1] = Do("remove", sp, act.names[i])
      <4>1. k \in Nat /\ i \in Nat
        BY <2>3, <2>5
      <4>2. k = 2 * i + 1
        BY <4>1, <3>5
      <4> QED
        BY <4>2, <3>1, <3>3, <3>5
    <3> QED
      BY <3>2, <3>4, <3>5
  <2>7. ASSUME NEW k \in DOMAIN s
        PROVE  /\ s[k].do # "open" => WillBeOpen(s, k)
               /\ s[k].do \in {"remove", "read", "write", "describe"} => WillBeHeld(s, k)
               /\ s[k].do # "add"
    <3>1. CASE k = 1
      BY <3>1, <2>5 DEF Do
    <3>2. CASE k # 1
      <4>1. PICK i \in 1 .. len :
                 \/ k = 2 * i /\ s[k] = Do("get", sp, act.names[i])
                 \/ /\ k = 2 * i + 1 /\ s[k] = Do("remove", sp, act.names[i])
                    /\ s[2 * i] = Do("get", sp, act.names[i])
        BY <2>6, <3>2
      <4>2. s[k].file = sp /\ s[k].do # "add" /\ s[1].do = "open" /\ s[1].file = sp
        BY <4>1, <2>5 DEF Do
      <4>3. 1 \in 1 .. k - 1
        BY <3>2, <2>5, <2>3
      <4>4. WillBeOpen(s, k)
        BY <4>2, <4>3 DEF WillBeOpen
      <4>5. CASE k = 2 * i /\ s[k] = Do("get", sp, act.names[i])
        BY <4>2, <4>4, <4>5 DEF Do
      <4>6. CASE /\ k = 2 * i + 1 /\ s[k] = Do("remove", sp, act.names[i])
                 /\ s[2 * i] = Do("get", sp, act.names[i])
        <5>1. 2 * i \in 1 .. k - 1 /\ 2 * i + 1 .. k - 1 = {}
          BY <4>6, <2>3
        <5>2. /\ s[2 * i].do = "get" /\ s[2 * i].file = s[k].file
              /\ s[2 * i].name = s[k].name
          BY <4>6 DEF Do
        <5>3. WillBeHeld(s, k)
          BY <5>1, <5>2 DEF WillBeHeld
        <5> QED
          BY <4>2, <4>4, <5>3
      <4> QED
        BY <4>1, <4>5, <4>6
    <3> QED
      BY <3>1, <3>2
  <2> QED
    BY <2>5, <2>7, <1>3 DEF InOrder, s
<1>4. CASE act.action = "rmFile"
  <2>1. s = <<Do("open", sp, n)>> \o <<Do("names", sp, n)>>
    BY <1>4 DEF Calls, n, sp
  <2>2. Do("open", sp, n) \in Call /\ Do("names", sp, n) \in Call
    BY <1>0, DoIsCall
  <2>3. /\ s \in Seq(Call) /\ s # << >> /\ DOMAIN s = {1, 2}
        /\ s[1] = Do("open", sp, n) /\ s[2] = Do("names", sp, n)
    BY <2>1, <2>2, OpenThenOne
  <2> HIDE DEF s
  <2>5. InOrder(s)
    BY <2>3 DEF InOrder, WillBeOpen, WillBeHeld, Do, Removes
  <2> QED
    BY <2>3, <2>5, <1>4 DEF Do, s, n, sp
<1>5. CASE act.action = "metadata" /\ act.objectFile = None
  <2>1. s = <<Do("open", sp, n)>> \o (<<Do("get", sp, n)>> \o << >> \o <<Do("describe", sp, n)>>)
    BY <1>5 DEF Calls, n, sp
  <2>2. /\ Do("open", sp, n) \in Call /\ Do("get", sp, n) \in Call
        /\ Do("describe", sp, n) \in Call
    BY <1>0, DoIsCall
  <2>3. /\ s \in Seq(Call) /\ s # << >> /\ DOMAIN s = 1 .. 3
        /\ s[1] = Do("open", sp, n) /\ s[2] = Do("get", sp, n)
        /\ s[3] = Do("describe", sp, n)
    BY <2>1, <2>2, MetadataCalls
  <2> HIDE DEF s
  <2>4. \A k \in DOMAIN s : k = 1 \/ k = 2 \/ k = 3
    BY <2>3
  <2>5. InOrder(s)
    BY <2>3, <2>4 DEF InOrder, WillBeOpen, WillBeHeld, Do, Removes
  <2> QED
    BY <2>3, <2>4, <2>5, <1>5 DEF Do, s
<1>6. CASE act.action = "metadata" /\ act.objectFile # None
  <2> DEFINE o == act.objectFile
  <2>1. s = <<Do("open", sp, n)>> \o
              (<<Do("get", sp, n)>> \o <<Do("open", o, other), Do("get", o, other)>>
               \o <<Do("describe", sp, n)>>)
    BY <1>6 DEF Calls, n, sp, other
  <2>2. /\ Do("open", sp, n) \in Call /\ Do("get", sp, n) \in Call
        /\ Do("open", o, other) \in Call /\ Do("get", o, other) \in Call
        /\ Do("describe", sp, n) \in Call
    BY <1>0, <1>6, DoIsCall
  <2>3. /\ s \in Seq(Call) /\ s # << >> /\ DOMAIN s = 1 .. 5
        /\ s[1] = Do("open", sp, n) /\ s[2] = Do("get", sp, n)
        /\ s[3] = Do("open", o, other) /\ s[4] = Do("get", o, other)
        /\ s[5] = Do("describe", sp, n)
    BY <2>1, <2>2, MetadataCalls
  <2> HIDE DEF s, o
  <2>4. \A k \in DOMAIN s : k = 1 \/ k = 2 \/ k = 3 \/ k = 4 \/ k = 5
    BY <2>3
  <2>5. InOrder(s)
    BY <2>3, <2>4 DEF InOrder, WillBeOpen, WillBeHeld, Do, Removes
  <2> QED
    BY <2>3, <2>4, <2>5, <1>6 DEF Do, s
<1> QED
  BY <1>0, <1>1, <1>2, <1>3, <1>4, <1>5, <1>6

-----------------------------------------------------------------------------
(* What a step does to the tables, the objects and the journal.            *)

Journals(op, sp, id) == journal' = Append(journal, [op |-> op, blob |-> id, by |-> sp])

\* One object of one File is put into its buffer.
Puts(sp, n, object) ==
  /\ DOMAIN buffer' = DOMAIN buffer
  /\ \A t \in DOMAIN buffer : t # sp => buffer'[t] = buffer[t]
  /\ DOMAIN buffer'[sp] = DOMAIN buffer[sp] \cup {n}
  /\ buffer'[sp][n] = object
  /\ \A m \in DOMAIN buffer[sp] : m # n => buffer'[sp][m] = buffer[sp][m]

\* The steps on a File sp and a name n of it.
StepOpens(sp) ==
  /\ DOMAIN buffer' = DOMAIN buffer \cup {sp}
  /\ \A t \in DOMAIN buffer : buffer'[t] = buffer[t]
  /\ sp \notin DOMAIN buffer => DOMAIN buffer'[sp] = {}
  /\ UNCHANGED <<tables, journal>>

StepAdds(sp, n) ==
  /\ ~NameTaken(n) /\ nextBlob < MaxBlob
  /\ rows' = rows \cup {[id |-> nextBlob, name |-> n, visible |-> FALSE, by |-> sp]}
  /\ nextBlob' = nextBlob + 1
  /\ Journals("Add", sp, nextBlob)
  /\ Puts(sp, n, NewObject(nextBlob))
  /\ UNCHANGED <<triples, nextTriple>>

StepLoads(sp, n) ==
  /\ n \notin DOMAIN buffer[sp]
  /\ \E r \in rows : r.name = n /\ r.visible /\ Puts(sp, n, NewObject(r.id))
  /\ UNCHANGED <<tables, journal>>

StepRemoves(sp, n) ==
  /\ n \in Live(sp)
  /\ Journals("Remove", sp, buffer[sp][n].id)
  /\ Puts(sp, n, [buffer[sp][n] EXCEPT !.removed = TRUE, !.newTriples = {}])
  /\ UNCHANGED tables

StepStores(sp, n) ==
  /\ n \in Live(sp)
  /\ Journals("Store", sp, buffer[sp][n].id)
  /\ UNCHANGED <<tables, buffer>>

StepDescribes(sp, n) ==
  /\ n \in Live(sp)
  /\ nextTriple < MaxTriple
  /\ triples' = triples \cup
       {[id |-> nextTriple, blob |-> buffer[sp][n].id, visible |-> FALSE, by |-> sp]}
  /\ nextTriple' = nextTriple + 1
  /\ Journals("Describe", sp, buffer[sp][n].id)
  /\ Puts(sp, n, [buffer[sp][n] EXCEPT !.newTriples = @ \cup {nextTriple}])
  /\ UNCHANGED <<rows, nextBlob>>

StepOn(sp, n) ==
  \/ StepAdds(sp, n) \/ StepLoads(sp, n) \/ StepRemoves(sp, n)
  \/ StepStores(sp, n) \/ StepDescribes(sp, n)

StepOf(op, sp, n) ==
  \/ op = "add" /\ StepAdds(sp, n)
  \/ op = "get" /\ StepLoads(sp, n)
  \/ op = "remove" /\ StepRemoves(sp, n)
  \/ op \in {"read", "write"} /\ StepStores(sp, n)
  \/ op = "describe" /\ StepDescribes(sp, n)

\* Setting an object changes nothing else.
LEMMA SetObjectPuts ==
  ASSUME call.file \in DOMAIN buffer, NEW object, SetObject(object)
  PROVE  Puts(call.file, call.name, object)
<1> DEFINE sp == call.file
           n == call.name
           old == buffer[sp]
           new == [m \in DOMAIN old \cup {n} |-> IF m = n THEN object ELSE old[m]]
<1>1. buffer' = [buffer EXCEPT ![sp] = new]
  BY DEF SetObject
<1>2. /\ DOMAIN new = DOMAIN old \cup {n} /\ new[n] = object
      /\ \A m \in DOMAIN old : m # n => new[m] = old[m]
  OBVIOUS
<1> HIDE DEF new
<1>3. buffer'[sp] = new /\ DOMAIN buffer' = DOMAIN buffer
  BY <1>1
<1>4. \A t \in DOMAIN buffer : t # sp => buffer'[t] = buffer[t]
  BY <1>1
<1> QED
  BY <1>2, <1>3, <1>4 DEF Puts

\* The next call finds its File open and, if it is made on a Blob object, one
\* that is not removed.
LEMMA NextCallReady ==
  ASSUME ClientTypeOK, InOrder(todo), todo # << >>
  PROVE  /\ call = todo[1] /\ call \in Call /\ call.file \in Spelling /\ call.name \in Name
         /\ 1 \in DOMAIN todo
         /\ call.do # "open" => call.file \in DOMAIN buffer
         /\ call.do \in {"remove", "read", "write", "describe"} =>
              call.file \in DOMAIN buffer /\ call.name \in Live(call.file)
<1>1. todo \in Seq(Call)
  BY DEF ClientTypeOK
<1>2. 1 \in DOMAIN todo /\ call = todo[1] /\ call \in Call
  BY <1>1, TailOfCalls DEF call
<1>3. 1 .. 1 - 1 = {}
  OBVIOUS
<1>4. call.do # "open" => WillBeOpen(todo, 1)
  BY <1>2 DEF InOrder
<1>5. call.do \in {"remove", "read", "write", "describe"} => WillBeHeld(todo, 1)
  BY <1>2 DEF InOrder
<1>6. call.do # "open" => call.file \in DOMAIN buffer
  BY <1>2, <1>3, <1>4 DEF WillBeOpen
<1>7. call.do \in {"remove", "read", "write", "describe"} =>
              call.file \in DOMAIN buffer /\ call.name \in Live(call.file)
  BY <1>2, <1>3, <1>5 DEF WillBeHeld, IsHeld
<1>8. call.file \in Spelling /\ call.name \in Name
  BY <1>2 DEF Call
<1> QED
  BY <1>2, <1>6, <1>7, <1>8

\* Which call a step makes.
LEMMA CallMade ==
  /\ GetFile => todo # << >> /\ call.do = "open"
  /\ CheckBlob => todo # << >> /\ call.do = "has"
  /\ AddBlob => todo # << >> /\ call.do = "add"
  /\ GetBlob => todo # << >> /\ call.do = "get"
  /\ RemoveFile => todo # << >> /\ call.do = "names"
  /\ RemoveBlob => todo # << >> /\ call.do = "remove"
  /\ UseContents => todo # << >> /\ call.do = "read"
  /\ WriteBlob => todo # << >> /\ call.do \in {"write", "read"}
  /\ AddTriple => todo # << >> /\ call.do = "describe"
BY DEF Calling, GetFile, CheckBlob, AddBlob, GetBlob, RemoveFile, RemoveBlob, UseContents,
       WriteBlob, AddTriple

\* A call opens a File, or does one of the steps on its File and name, or
\* touches neither tables nor objects nor journal.
LEMMA CallsStep ==
  ASSUME ClientTypeOK, InOrder(todo), Continue
  PROVE  /\ todo # << >>
         /\ \/ call.do = "open" /\ StepOpens(call.file)
            \/ call.file \in DOMAIN buffer /\ StepOf(call.do, call.file, call.name)
            \/ /\ call.do \notin {"open", "remove", "describe"}
               /\ UNCHANGED <<tables, buffer, journal>>
<1>0. todo # << >>
  BY CallMade DEF Continue
<1> DEFINE sp == call.file
           n == call.name
<1>10. /\ call.do # "open" => sp \in DOMAIN buffer
       /\ call.do \in {"remove", "read", "write", "describe"} =>
              sp \in DOMAIN buffer /\ n \in Live(sp)
  BY <1>0, NextCallReady
<1>1. CASE GetFile
  <2>1. /\ buffer' = [t \in DOMAIN buffer \cup {sp} |->
                        IF t \in DOMAIN buffer THEN buffer[t] ELSE << >>]
        /\ UNCHANGED <<tables, journal>>
    BY <1>1 DEF GetFile
  <2>2. sp \notin DOMAIN buffer => buffer'[sp] = << >>
    BY <2>1
  <2>3. DOMAIN << >> = {}
    OBVIOUS
  <2>4. StepOpens(sp)
    BY <2>1, <2>2, <2>3 DEF StepOpens
  <2> QED
    BY <1>0, <1>1, <2>4, CallMade
<1>2. CASE CheckBlob
  BY <1>0, <1>2, CallMade DEF CheckBlob
<1>3. CASE AddBlob
  <2>0. call.do = "add"
    BY <1>3, CallMade
  <2>1. sp \in DOMAIN buffer
    BY <2>0, <1>10
  <2>2. CASE NameTaken(n)
    BY <1>0, <1>3, <2>0, <2>2 DEF AddBlob, Throws
  <2>3. CASE ~NameTaken(n)
    <3>1. SetObject(NewObject(nextBlob))
      BY <1>3, <2>3 DEF AddBlob
    <3>2. Puts(sp, n, NewObject(nextBlob))
      BY <2>1, <3>1, SetObjectPuts
    <3>3. StepAdds(sp, n)
      BY <1>3, <2>3, <3>2 DEF AddBlob, StepAdds, Log, Journals
    <3> QED
      BY <1>0, <2>0, <2>1, <3>3 DEF StepOf
  <2> QED
    BY <2>2, <2>3
<1>4. CASE GetBlob
  <2>0. call.do = "get"
    BY <1>4, CallMade
  <2>1. sp \in DOMAIN buffer
    BY <2>0, <1>10
  <2>2. CASE Throws
    BY <1>0, <2>0, <2>2 DEF Throws
  <2>3. CASE UNCHANGED <<tables, buffer, journal>>
    BY <1>0, <2>0, <2>3
  <2>4. CASE /\ ~Buffered /\ UNCHANGED <<tables, journal>>
             /\ \E r \in rows : r.name = n /\ r.visible /\ SetObject(NewObject(r.id))
    <3>1. PICK r \in rows : r.name = n /\ r.visible /\ SetObject(NewObject(r.id))
      BY <2>4
    <3>2. Puts(sp, n, NewObject(r.id))
      BY <2>1, <3>1, SetObjectPuts
    <3>3. StepLoads(sp, n)
      BY <2>4, <3>1, <3>2 DEF StepLoads, Buffered
    <3> QED
      BY <1>0, <2>0, <2>1, <3>3 DEF StepOf
  <2> QED
    BY <1>4, <2>2, <2>3, <2>4 DEF GetBlob
<1>5. CASE RemoveFile
  BY <1>0, <1>5, CallMade DEF RemoveFile
<1>6. CASE RemoveBlob
  <2>0. call.do = "remove"
    BY <1>6, CallMade
  <2>1. sp \in DOMAIN buffer /\ n \in Live(sp)
    BY <2>0, <1>10
  <2>2. Puts(sp, n, [buffer[sp][n] EXCEPT !.removed = TRUE, !.newTriples = {}])
    BY <1>6, <2>1, SetObjectPuts DEF RemoveBlob, BlobObject
  <2>3. StepRemoves(sp, n)
    BY <1>6, <2>1, <2>2 DEF RemoveBlob, BlobObject, StepRemoves, Log, Journals
  <2> QED
    BY <1>0, <2>0, <2>1, <2>3 DEF StepOf
<1>7. CASE UseContents
  BY <1>0, <1>7, CallMade DEF UseContents
<1>8. CASE WriteBlob
  <2>0. call.do \in {"write", "read"}
    BY <1>8, CallMade
  <2>1. sp \in DOMAIN buffer /\ n \in Live(sp)
    BY <2>0, <1>10
  <2>2. CASE n \in modified
    BY <1>0, <1>8, <2>0, <2>2 DEF WriteBlob
  <2>3. CASE n \notin modified
    <3>1. StepStores(sp, n)
      BY <1>8, <2>1, <2>3 DEF WriteBlob, StepStores, Log, Journals, BlobObject
    <3> QED
      BY <1>0, <2>0, <2>1, <3>1 DEF StepOf
  <2> QED
    BY <2>2, <2>3
<1>9. CASE AddTriple
  <2>0. call.do = "describe"
    BY <1>9, CallMade
  <2>1. sp \in DOMAIN buffer /\ n \in Live(sp)
    BY <2>0, <1>10
  <2>2. Puts(sp, n, [buffer[sp][n] EXCEPT !.newTriples = @ \cup {nextTriple}])
    BY <1>9, <2>1, SetObjectPuts DEF AddTriple, BlobObject
  <2>3. StepDescribes(sp, n)
    BY <1>9, <2>1, <2>2 DEF AddTriple, BlobObject, StepDescribes, Log, Journals
  <2> QED
    BY <1>0, <2>0, <2>1, <2>3 DEF StepOf
<1> QED
  BY <1>1, <1>2, <1>3, <1>4, <1>5, <1>6, <1>7, <1>8, <1>9 DEF Continue

\* So a step does one of these, or is another session's.
LEMMA KindsOfStep ==
  ASSUME ClientTypeOK, InOrder(todo), [ClientNext]_vars
  PROVE  \/ \E sp \in Spelling : StepOpens(sp)
         \/ \E sp \in DOMAIN buffer : \E n \in Name : StepOn(sp, n)
         \/ Others
         \/ UNCHANGED <<tables, buffer, journal>>
<1>1. CASE \E act \in Commands : Begin(act)
  BY <1>1 DEF Begin
<1>2. CASE Continue
  <2>1. todo # << >>
    BY <1>2, CallsStep
  <2>2. call.file \in Spelling /\ call.name \in Name
    BY <2>1, NextCallReady
  <2>3. ASSUME NEW m \in Name, NEW sp, StepOf(call.do, sp, m)
        PROVE  StepOn(sp, m)
    BY <2>3 DEF StepOf, StepOn
  <2> QED
    BY <1>2, <2>2, <2>3, CallsStep
<1>3. CASE UNCHANGED vars
  BY <1>3 DEF vars
<1> QED
  BY <1>1, <1>2, <1>3 DEF ClientNext

-----------------------------------------------------------------------------
(* The tables, the objects and the journal.                                *)

DataStep ==
  \/ \E sp \in Spelling : StepOpens(sp)
  \/ \E sp \in DOMAIN buffer : \E n \in Name : StepOn(sp, n)
  \/ Others
  \/ UNCHANGED <<tables, buffer, journal>>

DataTyped ==
  /\ rows \subseteq Row /\ triples \subseteq TripleRow
  /\ DOMAIN buffer \subseteq Spelling
  /\ \A sp \in DOMAIN buffer : \A n \in DOMAIN buffer[sp] :
       n \in Name /\ buffer[sp][n] \in Object
  /\ journal \in Seq(JournalRow)
  /\ nextBlob \in 0 .. MaxBlob /\ nextTriple \in 0 .. MaxTriple

\* What the fields of a row are.
LEMMA Fields ==
  /\ \A r \in Row : /\ r.id \in Nat /\ r.name \in Name /\ r.visible \in BOOLEAN
                    /\ r.by \in Spelling \cup {None}
  /\ \A t \in TripleRow : /\ t.id \in Nat /\ t.blob \in Nat /\ t.visible \in BOOLEAN
                          /\ t.by \in Spelling \cup {None}
  /\ \A o \in Object : o.id \in Nat /\ o.removed \in BOOLEAN /\ o.newTriples \subseteq Nat
  /\ \A e \in JournalRow : /\ e.op \in {"Add", "Remove", "Store", "Describe"}
                           /\ e.blob \in Nat /\ e.by \in Spelling
BY DEF Row, TripleRow, Object, JournalRow

\* The cases of another session's step.
LEMMA OthersCases ==
  ASSUME Others
  PROVE  /\ UNCHANGED <<buffer, modified, journal, command, todo, failed, left>>
         /\ disturbed' = TRUE
         /\ \/ \E n \in Name : OthersAdd(n)
            \/ \E r \in rows : r.by = None /\ OthersPublish(r)
            \/ \E r \in rows : r.by = None /\ OthersRemove(r)
            \/ \E r \in rows : r.by = None /\ OthersDescribe(r)
BY DEF Others

\* Rows keep their ids and names, or are drawn from the counter; Files and their
\* buffers grow.
LEMMA RowsKept ==
  ASSUME DataTyped, DataStep
  PROVE  /\ \A r \in rows' : \/ \E q \in rows : q.id = r.id /\ q.name = r.name
                             \/ r.id = nextBlob /\ nextBlob' = nextBlob + 1
         /\ nextBlob' \in {nextBlob, nextBlob + 1}
         /\ nextTriple' \in {nextTriple, nextTriple + 1}
         /\ \A sp \in DOMAIN buffer :
              /\ sp \in DOMAIN buffer'
              /\ DOMAIN buffer[sp] \subseteq DOMAIN buffer'[sp]
<1>1. ASSUME NEW sp \in Spelling, StepOpens(sp)
      PROVE  /\ UNCHANGED <<rows, nextBlob, nextTriple>>
             /\ \A t \in DOMAIN buffer : t \in DOMAIN buffer' /\ buffer'[t] = buffer[t]
  BY <1>1 DEF StepOpens, tables
<1>2. ASSUME NEW sp \in DOMAIN buffer, NEW n \in Name, NEW o, Puts(sp, n, o)
      PROVE  \A t \in DOMAIN buffer :
               t \in DOMAIN buffer' /\ DOMAIN buffer[t] \subseteq DOMAIN buffer'[t]
  BY <1>2 DEF Puts
<1>3. ASSUME NEW sp \in DOMAIN buffer, NEW n \in Name, StepOn(sp, n)
      PROVE  /\ \A r \in rows' : \/ r \in rows
                                 \/ r.id = nextBlob /\ nextBlob' = nextBlob + 1
             /\ nextBlob' \in {nextBlob, nextBlob + 1}
             /\ nextTriple' \in {nextTriple, nextTriple + 1}
             /\ \A t \in DOMAIN buffer :
                  t \in DOMAIN buffer' /\ DOMAIN buffer[t] \subseteq DOMAIN buffer'[t]
  <2>1. CASE StepAdds(sp, n)
    BY <2>1, <1>2 DEF StepAdds
  <2>2. CASE StepLoads(sp, n)
    BY <2>2, <1>2 DEF StepLoads, tables
  <2>3. CASE StepRemoves(sp, n)
    BY <2>3, <1>2 DEF StepRemoves, tables
  <2>4. CASE StepStores(sp, n)
    BY <2>4 DEF StepStores, tables
  <2>5. CASE StepDescribes(sp, n)
    BY <2>5, <1>2 DEF StepDescribes
  <2> QED
    BY <1>3, <2>1, <2>2, <2>3, <2>4, <2>5 DEF StepOn
<1>4. ASSUME Others
      PROVE  /\ \A r \in rows' : \/ \E q \in rows : q.id = r.id /\ q.name = r.name
                                 \/ r.id = nextBlob /\ nextBlob' = nextBlob + 1
             /\ nextBlob' \in {nextBlob, nextBlob + 1}
             /\ nextTriple' \in {nextTriple, nextTriple + 1}
             /\ buffer' = buffer
  <2>1. ASSUME NEW n \in Name, OthersAdd(n)
        PROVE  /\ \A r \in rows' : \/ r \in rows
                                   \/ r.id = nextBlob /\ nextBlob' = nextBlob + 1
               /\ nextBlob' = nextBlob + 1 /\ nextTriple' = nextTriple
    BY <2>1 DEF OthersAdd
  <2>2. ASSUME NEW q \in rows, OthersPublish(q)
        PROVE  /\ \A r \in rows' : r \in rows \/ (q.id = r.id /\ q.name = r.name)
               /\ nextBlob' = nextBlob /\ nextTriple' = nextTriple
    <3> DEFINE p == [q EXCEPT !.visible = TRUE]
    <3>1. p.id = q.id /\ p.name = q.name
      <4>1. q \in Row
        BY DEF DataTyped
      <4> QED
        BY <4>1 DEF Row
    <3>2. rows' = (rows \ {q}) \cup {p} /\ UNCHANGED <<triples, nextBlob, nextTriple>>
      BY <2>2 DEF OthersPublish
    <3> HIDE DEF p
    <3> QED
      BY <3>1, <3>2
  <2>3. ASSUME NEW q \in rows, OthersRemove(q)
        PROVE  rows' \subseteq rows /\ nextBlob' = nextBlob /\ nextTriple' = nextTriple
    BY <2>3 DEF OthersRemove
  <2>4. ASSUME NEW q \in rows, OthersDescribe(q)
        PROVE  rows' = rows /\ nextBlob' = nextBlob /\ nextTriple' = nextTriple + 1
    BY <2>4 DEF OthersDescribe
  <2> QED
    BY <1>4, <2>1, <2>2, <2>3, <2>4, OthersCases
<1>5. CASE UNCHANGED <<tables, buffer, journal>>
  BY <1>5 DEF tables
<1> QED
  BY <1>1, <1>3, <1>4, <1>5 DEF DataStep

\* An object in a buffer is typed, and so is the one put there.
LEMMA PutsTyped ==
  ASSUME DataTyped, NEW sp \in DOMAIN buffer, NEW n \in Name, NEW o \in Object,
         Puts(sp, n, o)
  PROVE  /\ DOMAIN buffer' \subseteq Spelling
         /\ \A t \in DOMAIN buffer' : \A m \in DOMAIN buffer'[t] :
              m \in Name /\ buffer'[t][m] \in Object
BY DEF DataTyped, Puts

\* A row appended to the journal.
LEMMA JournalsTyped ==
  ASSUME journal \in Seq(JournalRow), NEW op \in {"Add", "Remove", "Store", "Describe"},
         NEW sp \in Spelling, NEW id \in Nat, Journals(op, sp, id)
  PROVE  /\ journal' \in Seq(JournalRow)
         /\ Len(journal') = Len(journal) + 1 /\ Len(journal) \in Nat
         /\ DOMAIN journal = 1 .. Len(journal) /\ DOMAIN journal' = 1 .. Len(journal) + 1
         /\ \A i \in 1 .. Len(journal) : journal'[i] = journal[i]
         /\ journal'[Len(journal) + 1].op = op
         /\ journal'[Len(journal) + 1].blob = id
         /\ journal'[Len(journal) + 1].by = sp
<1> DEFINE e == [op |-> op, blob |-> id, by |-> sp]
<1>1. e \in JournalRow
  BY DEF JournalRow
<1>2. e.op = op /\ e.blob = id /\ e.by = sp
  OBVIOUS
<1> HIDE DEF e
<1>3. journal' = Append(journal, e)
  BY DEF Journals, e
<1>4. /\ Append(journal, e) \in Seq(JournalRow)
      /\ Len(Append(journal, e)) = Len(journal) + 1
      /\ \A i \in 1 .. Len(journal) : Append(journal, e)[i] = journal[i]
      /\ Append(journal, e)[Len(journal) + 1] = e
  BY <1>1, AppendProperties
<1> QED
  BY <1>2, <1>3, <1>4

\* Tables, objects and journal stay typed.
LEMMA DataTypedKept ==
  ASSUME DataTyped, DataStep
  PROVE  DataTyped'
<1>0. /\ rows \subseteq Row /\ triples \subseteq TripleRow /\ DOMAIN buffer \subseteq Spelling
      /\ journal \in Seq(JournalRow) /\ nextBlob \in Nat /\ nextTriple \in Nat
      /\ nextBlob \in 0 .. MaxBlob /\ nextTriple \in 0 .. MaxTriple
      /\ MaxBlob \in Nat /\ MaxTriple \in Nat
  BY ClientAssumption DEF DataTyped
<1>1. ASSUME NEW sp \in Spelling, StepOpens(sp)
      PROVE  DataTyped'
  BY <1>1 DEF StepOpens, DataTyped, tables
<1>2. ASSUME NEW sp \in DOMAIN buffer, NEW n \in Name, StepAdds(sp, n)
      PROVE  DataTyped'
  <2>1. NewObject(nextBlob) \in Object
    BY <1>0 DEF NewObject, Object
  <2>2. /\ DOMAIN buffer' \subseteq Spelling
        /\ \A t \in DOMAIN buffer' : \A m \in DOMAIN buffer'[t] :
             m \in Name /\ buffer'[t][m] \in Object
    BY <1>2, <2>1, PutsTyped DEF StepAdds
  <2>3. journal' \in Seq(JournalRow)
    BY <1>0, <1>2, JournalsTyped DEF StepAdds
  <2>4. [id |-> nextBlob, name |-> n, visible |-> FALSE, by |-> sp] \in Row
    BY <1>0 DEF Row
  <2>5. rows' \subseteq Row
    BY <1>0, <1>2, <2>4 DEF StepAdds
  <2>6. nextBlob' \in 0 .. MaxBlob /\ UNCHANGED <<triples, nextTriple>>
    BY <1>0, <1>2 DEF StepAdds
  <2> QED
    BY <1>0, <2>2, <2>3, <2>5, <2>6 DEF DataTyped
<1>3. ASSUME NEW sp \in DOMAIN buffer, NEW n \in Name, StepLoads(sp, n)
      PROVE  DataTyped'
  <2>1. PICK r \in rows : Puts(sp, n, NewObject(r.id))
    BY <1>3 DEF StepLoads
  <2>2. NewObject(r.id) \in Object
    BY <1>0, Fields DEF NewObject, Object
  <2>3. /\ DOMAIN buffer' \subseteq Spelling
        /\ \A t \in DOMAIN buffer' : \A m \in DOMAIN buffer'[t] :
             m \in Name /\ buffer'[t][m] \in Object
    BY <2>1, <2>2, PutsTyped
  <2> QED
    BY <1>0, <1>3, <2>3 DEF DataTyped, StepLoads, tables
<1>4. ASSUME NEW sp \in DOMAIN buffer, NEW n \in Name, StepRemoves(sp, n)
      PROVE  DataTyped'
  <2> DEFINE o == [buffer[sp][n] EXCEPT !.removed = TRUE, !.newTriples = {}]
  <2>0. buffer[sp][n] \in Object
    BY <1>4 DEF StepRemoves, DataTyped, Live
  <2>1. o \in Object /\ buffer[sp][n].id \in Nat
    BY <2>0 DEF Object
  <2>2. /\ DOMAIN buffer' \subseteq Spelling
        /\ \A t \in DOMAIN buffer' : \A m \in DOMAIN buffer'[t] :
             m \in Name /\ buffer'[t][m] \in Object
    <3>1. Puts(sp, n, o)
      BY <1>4 DEF StepRemoves
    <3> HIDE DEF o
    <3> QED
      BY <2>1, <3>1, PutsTyped
  <2>3. journal' \in Seq(JournalRow)
    BY <1>0, <1>4, <2>1, JournalsTyped DEF StepRemoves
  <2> QED
    BY <1>0, <1>4, <2>2, <2>3 DEF DataTyped, StepRemoves, tables
<1>5. ASSUME NEW sp \in DOMAIN buffer, NEW n \in Name, StepStores(sp, n)
      PROVE  DataTyped'
  <2>0. buffer[sp][n] \in Object
    BY <1>5 DEF StepStores, DataTyped, Live
  <2>1. buffer[sp][n].id \in Nat
    BY <2>0 DEF Object
  <2>2. journal' \in Seq(JournalRow)
    BY <1>0, <1>5, <2>1, JournalsTyped DEF StepStores
  <2> QED
    BY <1>5, <2>2 DEF DataTyped, StepStores, tables
<1>6. ASSUME NEW sp \in DOMAIN buffer, NEW n \in Name, StepDescribes(sp, n)
      PROVE  DataTyped'
  <2> DEFINE o == [buffer[sp][n] EXCEPT !.newTriples = @ \cup {nextTriple}]
  <2>0. buffer[sp][n] \in Object
    BY <1>6 DEF StepDescribes, DataTyped, Live
  <2>1. o \in Object /\ buffer[sp][n].id \in Nat
    BY <1>0, <2>0 DEF Object
  <2>2. /\ DOMAIN buffer' \subseteq Spelling
        /\ \A t \in DOMAIN buffer' : \A m \in DOMAIN buffer'[t] :
             m \in Name /\ buffer'[t][m] \in Object
    <3>1. Puts(sp, n, o)
      BY <1>6 DEF StepDescribes
    <3> HIDE DEF o
    <3> QED
      BY <2>1, <3>1, PutsTyped
  <2>3. journal' \in Seq(JournalRow)
    BY <1>0, <1>6, <2>1, JournalsTyped DEF StepDescribes
  <2>4. [id |-> nextTriple, blob |-> buffer[sp][n].id, visible |-> FALSE, by |-> sp]
          \in TripleRow
    BY <1>0, <2>1 DEF TripleRow
  <2>5. triples' \subseteq TripleRow
    BY <1>0, <1>6, <2>4 DEF StepDescribes
  <2>6. nextTriple' \in 0 .. MaxTriple /\ UNCHANGED <<rows, nextBlob>>
    BY <1>0, <1>6 DEF StepDescribes
  <2> QED
    BY <1>0, <2>2, <2>3, <2>5, <2>6 DEF DataTyped
<1>7. ASSUME Others
      PROVE  DataTyped'
  <2>0. UNCHANGED <<buffer, journal>>
    BY <1>7, OthersCases
  <2>1. ASSUME NEW n \in Name, OthersAdd(n)
        PROVE  DataTyped'
    <3>1. [id |-> nextBlob, name |-> n, visible |-> FALSE, by |-> None] \in Row
      BY <1>0 DEF Row
    <3>2. rows' \subseteq Row
      BY <1>0, <2>1, <3>1 DEF OthersAdd
    <3>3. nextBlob' \in 0 .. MaxBlob /\ UNCHANGED <<triples, nextTriple>>
      BY <1>0, <2>1 DEF OthersAdd
    <3> QED
      BY <2>0, <3>2, <3>3 DEF DataTyped
  <2>2. ASSUME NEW r \in rows, OthersPublish(r)
        PROVE  DataTyped'
    <3>1. [r EXCEPT !.visible = TRUE] \in Row
      BY <1>0 DEF Row
    <3>2. rows' \subseteq Row
      BY <1>0, <2>2, <3>1 DEF OthersPublish
    <3> QED
      BY <2>0, <2>2, <3>2 DEF DataTyped, OthersPublish
  <2>3. ASSUME NEW r \in rows, OthersRemove(r)
        PROVE  DataTyped'
    BY <2>0, <2>3 DEF DataTyped, OthersRemove
  <2>4. ASSUME NEW r \in rows, OthersDescribe(r)
        PROVE  DataTyped'
    <3>1. [id |-> nextTriple, blob |-> r.id, visible |-> TRUE, by |-> None] \in TripleRow
      BY <1>0, Fields DEF TripleRow
    <3>2. triples' \subseteq TripleRow
      BY <1>0, <2>4, <3>1 DEF OthersDescribe
    <3>3. nextTriple' \in 0 .. MaxTriple /\ UNCHANGED <<rows, nextBlob>>
      BY <1>0, <2>4 DEF OthersDescribe
    <3> QED
      BY <2>0, <3>2, <3>3 DEF DataTyped
  <2> QED
    BY <1>7, <2>1, <2>2, <2>3, <2>4, OthersCases
<1>8. CASE UNCHANGED <<tables, buffer, journal>>
  BY <1>8 DEF DataTyped, tables
<1> QED
  BY <1>1, <1>2, <1>3, <1>4, <1>5, <1>6, <1>7, <1>8 DEF DataStep, StepOn

\* What is drawn from a counter is a new key.
LEMMA IdsKeyedKept ==
  ASSUME DataTyped, IdsKeyed, ObjectsKeyed, DataStep
  PROVE  IdsKeyed'
<1>0. /\ nextBlob \in Nat /\ nextTriple \in Nat
      /\ \A r \in rows : r.id \in Nat /\ r.by \in Spelling \cup {None}
      /\ \A t \in triples : t.id \in Nat /\ t.blob \in Nat
      /\ None \notin Spelling
  BY Fields, NoneAssumption DEF DataTyped
<1>1. \A r \in rows : r.id < nextBlob /\ r.id # nextBlob
  BY <1>0 DEF IdsKeyed
<1>2. \A t \in triples : t.id < nextTriple /\ t.id # nextTriple /\ t.blob < nextBlob
  BY <1>0 DEF IdsKeyed
<1> DEFINE RowIds == /\ \A r \in rows : r.id < nextBlob
                     /\ \A r, q \in rows : r.id = q.id => r = q
           TripleIds == /\ \A t \in triples : t.id < nextTriple /\ t.blob < nextBlob
                        /\ \A t, u \in triples : t.id = u.id => t = u
                        /\ \A t \in triples : t.visible <=> t.by = None
<1>3. RowIds /\ TripleIds
  BY DEF IdsKeyed
<1>4. RowIds' /\ TripleIds' => IdsKeyed'
  BY DEF IdsKeyed
<1>5. ASSUME UNCHANGED <<rows, nextBlob>>
      PROVE  RowIds'
  BY <1>3, <1>5
<1>6. ASSUME UNCHANGED <<triples, nextTriple>>, nextBlob' \in {nextBlob, nextBlob + 1}
      PROVE  TripleIds'
  BY <1>0, <1>2, <1>3, <1>6
<1>7. ASSUME NEW row, row.id = nextBlob, rows' = rows \cup {row}, nextBlob' = nextBlob + 1
      PROVE  RowIds'
  <2>1. \A r \in rows' : r \in rows \/ r = row
    BY <1>7
  <2>2. \A r \in rows' : r.id < nextBlob'
    BY <1>0, <1>1, <1>7, <2>1
  <2>3. \A r, q \in rows' : r.id = q.id => r = q
    BY <1>1, <1>3, <1>7, <2>1
  <2> QED
    BY <2>2, <2>3
<1>8. ASSUME NEW t, t.id = nextTriple, t.blob < nextBlob, t.visible <=> t.by = None,
             triples' = triples \cup {t}, nextTriple' = nextTriple + 1, nextBlob' = nextBlob
      PROVE  TripleIds'
  <2>1. \A u \in triples' : u \in triples \/ u = t
    BY <1>8
  <2>2. \A u \in triples' : u.id < nextTriple' /\ u.blob < nextBlob'
    BY <1>0, <1>2, <1>8, <2>1
  <2>3. \A u, w \in triples' : u.id = w.id => u = w
    BY <1>2, <1>3, <1>8, <2>1
  <2>4. \A u \in triples' : u.visible <=> u.by = None
    BY <1>3, <1>8, <2>1
  <2> QED
    BY <2>2, <2>3, <2>4
<1> HIDE DEF RowIds, TripleIds
<1>9. ASSUME NEW sp \in Spelling, StepOpens(sp)
      PROVE  IdsKeyed'
  BY <1>4, <1>5, <1>6, <1>9 DEF StepOpens, tables
<1>10. ASSUME NEW sp \in DOMAIN buffer, NEW n \in Name, StepOn(sp, n)
       PROVE  IdsKeyed'
  <2>1. CASE StepAdds(sp, n)
    <3> DEFINE row == [id |-> nextBlob, name |-> n, visible |-> FALSE, by |-> sp]
    <3>1. row.id = nextBlob
      OBVIOUS
    <3>2. /\ rows' = rows \cup {row} /\ nextBlob' = nextBlob + 1
          /\ UNCHANGED <<triples, nextTriple>>
      BY <2>1 DEF StepAdds
    <3> HIDE DEF row
    <3> QED
      BY <1>4, <1>6, <1>7, <3>1, <3>2
  <2>2. CASE StepLoads(sp, n)
    BY <1>4, <1>5, <1>6, <2>2 DEF StepLoads, tables
  <2>3. CASE StepRemoves(sp, n)
    BY <1>4, <1>5, <1>6, <2>3 DEF StepRemoves, tables
  <2>4. CASE StepStores(sp, n)
    BY <1>4, <1>5, <1>6, <2>4 DEF StepStores, tables
  <2>5. CASE StepDescribes(sp, n)
    <3> DEFINE t == [id |-> nextTriple, blob |-> buffer[sp][n].id, visible |-> FALSE,
                     by |-> sp]
    <3>1. /\ t.id = nextTriple /\ t.blob = buffer[sp][n].id
          /\ t.visible = FALSE /\ t.by = sp
      OBVIOUS
    <3>2. sp # None /\ n \in DOMAIN buffer[sp]
      BY <1>0, <2>5 DEF StepDescribes, Live, DataTyped
    <3>3. buffer[sp][n].id < nextBlob
      BY <3>2 DEF ObjectsKeyed
    <3>4. /\ triples' = triples \cup {t} /\ nextTriple' = nextTriple + 1
          /\ UNCHANGED <<rows, nextBlob>>
      BY <2>5 DEF StepDescribes
    <3> HIDE DEF t
    <3>5. TripleIds'
      BY <1>8, <3>1, <3>2, <3>3, <3>4
    <3> QED
      BY <1>4, <1>5, <3>4, <3>5
  <2> QED
    BY <1>10, <2>1, <2>2, <2>3, <2>4, <2>5 DEF StepOn
<1>11. ASSUME Others
       PROVE  IdsKeyed'
  <2>1. ASSUME NEW n \in Name, OthersAdd(n)
        PROVE  IdsKeyed'
    <3> DEFINE row == [id |-> nextBlob, name |-> n, visible |-> FALSE, by |-> None]
    <3>1. row.id = nextBlob
      OBVIOUS
    <3>2. /\ rows' = rows \cup {row} /\ nextBlob' = nextBlob + 1
          /\ UNCHANGED <<triples, nextTriple>>
      BY <2>1 DEF OthersAdd
    <3> HIDE DEF row
    <3> QED
      BY <1>4, <1>6, <1>7, <3>1, <3>2
  <2>2. ASSUME NEW q \in rows, OthersPublish(q)
        PROVE  IdsKeyed'
    <3> DEFINE p == [q EXCEPT !.visible = TRUE]
    <3>0. q \in Row
      BY DEF DataTyped
    <3>1. p.id = q.id
      BY <3>0 DEF Row
    <3>2. rows' = (rows \ {q}) \cup {p} /\ UNCHANGED <<triples, nextBlob, nextTriple>>
      BY <2>2 DEF OthersPublish
    <3> HIDE DEF p
    <3>3. \A r \in rows' : r = p \/ (r \in rows /\ r # q)
      BY <3>2
    <3>4. \A r \in rows : r.id = q.id => r = q
      BY <1>3 DEF RowIds
    <3>5. RowIds'
      BY <1>3, <3>1, <3>2, <3>3, <3>4 DEF RowIds
    <3> QED
      BY <1>4, <1>6, <3>2, <3>5
  <2>3. ASSUME NEW q \in rows, OthersRemove(q)
        PROVE  IdsKeyed'
    <3>1. rows' \subseteq rows /\ UNCHANGED <<triples, nextBlob, nextTriple>>
      BY <2>3 DEF OthersRemove
    <3>2. RowIds'
      BY <1>3, <3>1 DEF RowIds
    <3> QED
      BY <1>4, <1>6, <3>1, <3>2
  <2>4. ASSUME NEW q \in rows, OthersDescribe(q)
        PROVE  IdsKeyed'
    <3> DEFINE t == [id |-> nextTriple, blob |-> q.id, visible |-> TRUE, by |-> None]
    <3>1. t.id = nextTriple /\ t.blob = q.id /\ t.visible = TRUE /\ t.by = None
      OBVIOUS
    <3>2. /\ triples' = triples \cup {t} /\ nextTriple' = nextTriple + 1
          /\ UNCHANGED <<rows, nextBlob>>
      BY <2>4 DEF OthersDescribe
    <3> HIDE DEF t
    <3>3. TripleIds'
      BY <1>1, <1>8, <3>1, <3>2
    <3> QED
      BY <1>4, <1>5, <3>2, <3>3
  <2> QED
    BY <1>11, <2>1, <2>2, <2>3, <2>4, OthersCases
<1>12. CASE UNCHANGED <<tables, buffer, journal>>
  BY <1>4, <1>5, <1>6, <1>12 DEF tables
<1> QED
  BY <1>9, <1>10, <1>11, <1>12 DEF DataStep

\* A row that has the id of a buffered object keeps its name, so what is put
\* into a buffer is one object more at most.
LEMMA ObjectsKeyedKept ==
  ASSUME DataTyped, IdsKeyed, ObjectsKeyed, DataStep
  PROVE  ObjectsKeyed'
<1>0. nextBlob \in Nat /\ \A r \in rows : r.id \in Nat
  BY Fields DEF DataTyped
<1>1. /\ \A r \in rows' : \/ \E q \in rows : q.id = r.id /\ q.name = r.name
                          \/ r.id = nextBlob /\ nextBlob' = nextBlob + 1
      /\ nextBlob' \in {nextBlob, nextBlob + 1}
  BY RowsKept
<1>2. ASSUME NEW t \in DOMAIN buffer, NEW m \in DOMAIN buffer[t]
      PROVE  /\ buffer[t][m].id \in Nat /\ buffer[t][m].id < nextBlob
             /\ buffer[t][m].id < nextBlob'
             /\ \A r \in rows' : r.id = buffer[t][m].id => r.name = m
  <2>1. buffer[t][m].id \in Nat /\ buffer[t][m].id < nextBlob
    BY Fields DEF DataTyped, ObjectsKeyed
  <2>2. \A r \in rows : r.id = buffer[t][m].id => r.name = m
    BY DEF ObjectsKeyed
  <2> QED
    BY <1>0, <1>1, <2>1, <2>2
<1>3. ASSUME NEW t \in DOMAIN buffer', t \in DOMAIN buffer, buffer'[t] = buffer[t],
             NEW m \in DOMAIN buffer'[t]
      PROVE  /\ buffer'[t][m].id < nextBlob'
             /\ \A r \in rows' : r.id = buffer'[t][m].id => r.name = m
             /\ \A k \in DOMAIN buffer'[t] : buffer'[t][k].id = buffer'[t][m].id => k = m
  BY <1>2, <1>3 DEF ObjectsKeyed
<1>4. ASSUME NEW sp \in DOMAIN buffer, NEW n, NEW o, Puts(sp, n, o), o.id < nextBlob',
             \A r \in rows' : r.id = o.id => r.name = n,
             \A k \in DOMAIN buffer[sp] : buffer[sp][k].id = o.id => k = n
      PROVE  ObjectsKeyed'
  <2>1. /\ DOMAIN buffer' = DOMAIN buffer
        /\ \A t \in DOMAIN buffer : t # sp => buffer'[t] = buffer[t]
        /\ DOMAIN buffer'[sp] = DOMAIN buffer[sp] \cup {n} /\ buffer'[sp][n] = o
        /\ \A m \in DOMAIN buffer[sp] : m # n => buffer'[sp][m] = buffer[sp][m]
    BY <1>4 DEF Puts
  <2>2. ASSUME NEW m \in DOMAIN buffer'[sp]
        PROVE  /\ buffer'[sp][m].id < nextBlob'
               /\ \A r \in rows' : r.id = buffer'[sp][m].id => r.name = m
               /\ \A k \in DOMAIN buffer'[sp] : buffer'[sp][k].id = buffer'[sp][m].id => k = m
    <3>1. CASE m = n
      BY <1>4, <2>1, <3>1
    <3>2. CASE m # n
      <4>1. m \in DOMAIN buffer[sp] /\ buffer'[sp][m] = buffer[sp][m]
        BY <2>1, <3>2
      <4>2. \A k \in DOMAIN buffer[sp] : buffer[sp][k].id = buffer[sp][m].id => k = m
        BY <4>1 DEF ObjectsKeyed
      <4>3. buffer[sp][m].id # o.id
        BY <1>4, <3>2, <4>1
      <4>4. \A k \in DOMAIN buffer'[sp] : buffer'[sp][k].id = buffer'[sp][m].id => k = m
        BY <2>1, <4>1, <4>2, <4>3
      <4> QED
        BY <1>2, <4>1, <4>4
    <3> QED
      BY <3>1, <3>2
  <2> QED
    BY <1>3, <2>1, <2>2 DEF ObjectsKeyed
<1>5. ASSUME buffer' = buffer
      PROVE  ObjectsKeyed'
  BY <1>3, <1>5 DEF ObjectsKeyed
<1>6. ASSUME NEW sp \in Spelling, StepOpens(sp)
      PROVE  ObjectsKeyed'
  BY <1>3, <1>6 DEF ObjectsKeyed, StepOpens
<1>7. ASSUME NEW sp \in DOMAIN buffer, NEW n \in Name, StepAdds(sp, n)
      PROVE  ObjectsKeyed'
  <2> DEFINE row == [id |-> nextBlob, name |-> n, visible |-> FALSE, by |-> sp]
             o == NewObject(nextBlob)
  <2>1. row.name = n /\ row.id = nextBlob /\ o.id = nextBlob
    BY DEF NewObject
  <2>2. rows' = rows \cup {row} /\ nextBlob' = nextBlob + 1 /\ Puts(sp, n, o)
    BY <1>7 DEF StepAdds
  <2> HIDE DEF row, o
  <2>3. \A r \in rows : r.id # nextBlob
    BY <1>0 DEF IdsKeyed
  <2>4. \A r \in rows' : r.id = o.id => r.name = n
    BY <2>1, <2>2, <2>3
  <2>5. \A k \in DOMAIN buffer[sp] : buffer[sp][k].id # o.id
    BY <1>0, <1>2, <2>1
  <2>6. o.id < nextBlob'
    BY <1>0, <2>1, <2>2
  <2> QED
    BY <1>4, <2>2, <2>4, <2>5, <2>6
<1>8. ASSUME NEW sp \in DOMAIN buffer, NEW n \in Name, StepLoads(sp, n)
      PROVE  ObjectsKeyed'
  <2>1. PICK r \in rows : r.name = n /\ Puts(sp, n, NewObject(r.id))
    BY <1>8 DEF StepLoads
  <2> DEFINE o == NewObject(r.id)
  <2>2. o.id = r.id
    BY DEF NewObject
  <2>3. Puts(sp, n, o)
    BY <2>1
  <2> HIDE DEF o
  <2>4. rows' = rows /\ nextBlob' = nextBlob /\ n \notin DOMAIN buffer[sp]
    BY <1>8 DEF StepLoads, tables
  <2>5. o.id < nextBlob' /\ \A q \in rows' : q.id = o.id => q.name = n
    BY <2>1, <2>2, <2>4 DEF IdsKeyed
  <2>6. \A k \in DOMAIN buffer[sp] : buffer[sp][k].id = o.id => k = n
    BY <2>1, <2>2 DEF ObjectsKeyed
  <2> QED
    BY <1>4, <2>3, <2>5, <2>6
<1>9. ASSUME NEW sp \in DOMAIN buffer, NEW n \in DOMAIN buffer[sp], NEW o,
             o.id = buffer[sp][n].id, Puts(sp, n, o)
      PROVE  ObjectsKeyed'
  <2>1. o.id < nextBlob' /\ \A r \in rows' : r.id = o.id => r.name = n
    BY <1>2, <1>9
  <2>2. \A k \in DOMAIN buffer[sp] : buffer[sp][k].id = o.id => k = n
    BY <1>9 DEF ObjectsKeyed
  <2> QED
    BY <1>4, <1>9, <2>1, <2>2
<1>10. ASSUME NEW sp \in DOMAIN buffer, NEW n \in Name, StepRemoves(sp, n)
       PROVE  ObjectsKeyed'
  <2> DEFINE o == [buffer[sp][n] EXCEPT !.removed = TRUE, !.newTriples = {}]
  <2>1. n \in DOMAIN buffer[sp] /\ buffer[sp][n] \in Object
    BY <1>10 DEF StepRemoves, Live, DataTyped
  <2>2. o.id = buffer[sp][n].id
    BY <2>1 DEF Object
  <2>3. Puts(sp, n, o)
    BY <1>10 DEF StepRemoves
  <2> HIDE DEF o
  <2> QED
    BY <1>9, <2>1, <2>2, <2>3
<1>11. ASSUME NEW sp \in DOMAIN buffer, NEW n \in Name, StepDescribes(sp, n)
       PROVE  ObjectsKeyed'
  <2> DEFINE o == [buffer[sp][n] EXCEPT !.newTriples = @ \cup {nextTriple}]
  <2>1. n \in DOMAIN buffer[sp] /\ buffer[sp][n] \in Object
    BY <1>11 DEF StepDescribes, Live, DataTyped
  <2>2. o.id = buffer[sp][n].id
    BY <2>1 DEF Object
  <2>3. Puts(sp, n, o)
    BY <1>11 DEF StepDescribes
  <2> HIDE DEF o
  <2> QED
    BY <1>9, <2>1, <2>2, <2>3
<1>12. ASSUME NEW sp \in DOMAIN buffer, NEW n \in Name, StepOn(sp, n)
       PROVE  ObjectsKeyed'
  <2>1. CASE StepStores(sp, n)
    BY <1>5, <2>1 DEF StepStores
  <2> QED
    BY <1>7, <1>8, <1>10, <1>11, <1>12, <2>1 DEF StepOn
<1>13. CASE Others
  BY <1>5, <1>13, OthersCases
<1>14. CASE UNCHANGED <<tables, buffer, journal>>
  BY <1>5, <1>14
<1> QED
  BY <1>6, <1>12, <1>13, <1>14 DEF DataStep

\* What was met stays met.
LEMMA MetKept ==
  ASSUME DataTyped, DataStep, NEW sp, NEW id \in Nat, Met(sp, id)
  PROVE  Met(sp, id)'
<1>1. nextBlob \in Nat
  BY DEF DataTyped
<1>2. /\ \A r \in rows' : \/ \E q \in rows : q.id = r.id /\ q.name = r.name
                          \/ r.id = nextBlob /\ nextBlob' = nextBlob + 1
      /\ nextBlob' \in {nextBlob, nextBlob + 1}
      /\ \A t \in DOMAIN buffer :
           t \in DOMAIN buffer' /\ DOMAIN buffer[t] \subseteq DOMAIN buffer'[t]
  BY RowsKept
<1>3. sp \in DOMAIN buffer /\ id < nextBlob /\ id # nextBlob
  BY <1>1 DEF Met
<1>4. id < nextBlob'
  BY <1>1, <1>2, <1>3
<1>5. \A r \in rows' : r.id = id => r.name \in DOMAIN buffer'[sp]
  BY <1>2, <1>3 DEF Met
<1> QED
  BY <1>2, <1>3, <1>4, <1>5 DEF Met

\* A buffered blob is met.
LEMMA BufferedMet ==
  ASSUME DataTyped, ObjectsKeyed, NEW sp \in DOMAIN buffer, NEW n \in Live(sp)
  PROVE  /\ sp \in Spelling /\ n \in DOMAIN buffer[sp]
         /\ buffer[sp][n].id \in Nat /\ Met(sp, buffer[sp][n].id)
<1>1. sp \in Spelling /\ n \in DOMAIN buffer[sp] /\ buffer[sp][n].id \in Nat
  BY Fields DEF DataTyped, Live
<1>2. Met(sp, buffer[sp][n].id)
  BY <1>1 DEF Met, ObjectsKeyed
<1> QED
  BY <1>1, <1>2

\* And a new one: it has the only row of its id.
LEMMA AddedMet ==
  ASSUME DataTyped, IdsKeyed, NEW sp \in DOMAIN buffer, NEW n, StepAdds(sp, n),
         NEW id, id = nextBlob
  PROVE  Met(sp, id)'
<1> DEFINE row == [id |-> nextBlob, name |-> n, visible |-> FALSE, by |-> sp]
<1>1. row.id = nextBlob /\ row.name = n
  OBVIOUS
<1>2. rows' = rows \cup {row} /\ nextBlob' = nextBlob + 1
  BY DEF StepAdds
<1> HIDE DEF row
<1>3. DOMAIN buffer' = DOMAIN buffer /\ n \in DOMAIN buffer'[sp]
  BY DEF StepAdds, Puts
<1>4. nextBlob \in Nat /\ \A r \in rows : r.id \in Nat /\ r.id < nextBlob
  BY Fields DEF DataTyped, IdsKeyed
<1>5. id < nextBlob'
  BY <1>2, <1>4
<1>6. \A r \in rows' : r.id = id => r = row
  BY <1>2, <1>4
<1> QED
  BY <1>1, <1>3, <1>5, <1>6 DEF Met

\* What a step journals: the creation of a blob, or something of an object that
\* is not removed.
LEMMA JournalGrows ==
  ASSUME DataTyped, ObjectsKeyed, DataStep
  PROVE  \/ UNCHANGED journal
         \/ \E sp \in DOMAIN buffer : \E n \in Name : \E op, id :
              /\ op \in {"Add", "Remove", "Store", "Describe"} /\ id \in Nat
              /\ Journals(op, sp, id)
              /\ \/ op = "Add" /\ id = nextBlob /\ StepAdds(sp, n)
                 \/ n \in Live(sp) /\ id = buffer[sp][n].id
              /\ op = "Remove" => StepRemoves(sp, n)
<1>0. nextBlob \in Nat
  BY DEF DataTyped
<1>1. ASSUME NEW sp \in Spelling, StepOpens(sp)
      PROVE  UNCHANGED journal
  BY <1>1 DEF StepOpens
<1>2. CASE Others
  BY <1>2, OthersCases
<1>3. ASSUME NEW sp \in DOMAIN buffer, NEW n \in Name, StepOn(sp, n)
      PROVE  \/ UNCHANGED journal
             \/ \E op, id :
                  /\ op \in {"Add", "Remove", "Store", "Describe"} /\ id \in Nat
                  /\ Journals(op, sp, id)
                  /\ \/ op = "Add" /\ id = nextBlob /\ StepAdds(sp, n)
                     \/ n \in Live(sp) /\ id = buffer[sp][n].id
                  /\ op = "Remove" => StepRemoves(sp, n)
  <2>0. n \in Live(sp) => buffer[sp][n].id \in Nat
    BY BufferedMet
  <2>1. CASE StepAdds(sp, n)
    <3>1. Journals("Add", sp, nextBlob)
      BY <2>1 DEF StepAdds
    <3> QED
      BY <1>0, <2>1, <3>1
  <2>2. CASE StepLoads(sp, n)
    BY <2>2 DEF StepLoads
  <2>3. CASE StepRemoves(sp, n)
    <3>1. n \in Live(sp) /\ Journals("Remove", sp, buffer[sp][n].id)
      BY <2>3 DEF StepRemoves
    <3> QED
      BY <2>0, <2>3, <3>1
  <2>4. CASE StepStores(sp, n)
    <3>1. n \in Live(sp) /\ Journals("Store", sp, buffer[sp][n].id)
      BY <2>4 DEF StepStores
    <3> QED
      BY <2>0, <3>1
  <2>5. CASE StepDescribes(sp, n)
    <3>1. n \in Live(sp) /\ Journals("Describe", sp, buffer[sp][n].id)
      BY <2>5 DEF StepDescribes
    <3> QED
      BY <2>0, <3>1
  <2> QED
    BY <1>3, <2>1, <2>2, <2>3, <2>4, <2>5 DEF StepOn
<1> QED
  BY <1>1, <1>2, <1>3 DEF DataStep

\* What is journaled has been met.
LEMMA JournalMetKept ==
  ASSUME DataTyped, IdsKeyed, ObjectsKeyed, JournalMet, DataStep
  PROVE  JournalMet'
<1>1. \A i \in DOMAIN journal : journal[i].blob \in Nat
  BY Fields DEF DataTyped
<1>2. ASSUME NEW i \in DOMAIN journal
      PROVE  Met(journal[i].by, journal[i].blob)
  BY DEF JournalMet
<1>3. ASSUME NEW i \in DOMAIN journal, NEW sp, NEW id,
             sp = journal[i].by, id = journal[i].blob
      PROVE  Met(sp, id)'
  <2>1. id \in Nat /\ Met(sp, id)
    BY <1>1, <1>2, <1>3
  <2> QED
    BY <2>1, MetKept
<1>4. CASE UNCHANGED journal
  <2> SUFFICES ASSUME NEW i \in DOMAIN journal
               PROVE  Met(journal[i].by, journal[i].blob)'
    BY <1>4 DEF JournalMet
  <2>1. /\ journal[i].by \in DOMAIN buffer' /\ journal[i].blob < nextBlob'
        /\ \A r \in rows' : r.id = journal[i].blob => r.name \in DOMAIN buffer'[journal[i].by]
    BY <1>3 DEF Met
  <2> QED
    BY <1>4, <2>1 DEF Met
<1>5. CASE ~UNCHANGED journal
  <2>1. PICK sp \in DOMAIN buffer, n \in Name :
          \E op, id :
            /\ op \in {"Add", "Remove", "Store", "Describe"} /\ id \in Nat
            /\ Journals(op, sp, id)
            /\ \/ op = "Add" /\ id = nextBlob /\ StepAdds(sp, n)
               \/ n \in Live(sp) /\ id = buffer[sp][n].id
    BY <1>5, JournalGrows
  <2>2. PICK op, id :
          /\ op \in {"Add", "Remove", "Store", "Describe"} /\ id \in Nat
          /\ Journals(op, sp, id)
          /\ \/ op = "Add" /\ id = nextBlob /\ StepAdds(sp, n)
             \/ n \in Live(sp) /\ id = buffer[sp][n].id
    BY <2>1
  <2>3. sp \in Spelling /\ journal \in Seq(JournalRow)
    BY DEF DataTyped
  <2>4. /\ DOMAIN journal = 1 .. Len(journal) /\ DOMAIN journal' = 1 .. Len(journal) + 1
        /\ Len(journal) \in Nat
        /\ \A i \in 1 .. Len(journal) : journal'[i] = journal[i]
        /\ journal'[Len(journal) + 1].blob = id /\ journal'[Len(journal) + 1].by = sp
    BY <2>2, <2>3, JournalsTyped
  <2>5. Met(sp, id)'
    <3>1. CASE id = nextBlob /\ StepAdds(sp, n)
      BY <3>1, AddedMet
    <3>2. CASE n \in Live(sp) /\ id = buffer[sp][n].id
      <4>1. id \in Nat /\ Met(sp, id)
        BY <3>2, BufferedMet
      <4> QED
        BY <4>1, MetKept
    <3> QED
      BY <2>2, <3>1, <3>2
  <2>6. ASSUME NEW i \in DOMAIN journal'
        PROVE  /\ journal'[i].by \in DOMAIN buffer' /\ journal'[i].blob < nextBlob'
               /\ \A r \in rows' : r.id = journal'[i].blob
                                     => r.name \in DOMAIN buffer'[journal'[i].by]
    <3>1. CASE i = Len(journal) + 1
      BY <2>4, <2>5, <3>1 DEF Met
    <3>2. CASE i \in DOMAIN journal
      <4>1. journal'[i] = journal[i]
        BY <2>4, <3>2
      <4>2. /\ journal[i].by \in DOMAIN buffer' /\ journal[i].blob < nextBlob'
            /\ \A r \in rows' : r.id = journal[i].blob
                                  => r.name \in DOMAIN buffer'[journal[i].by]
        BY <1>3, <3>2 DEF Met
      <4> QED
        BY <4>1, <4>2
    <3> QED
      BY <2>4, <3>1, <3>2
  <2> QED
    BY <2>6 DEF JournalMet, Met
<1> QED
  BY <1>4, <1>5

\* And what is described.
LEMMA TriplesMetKept ==
  ASSUME DataTyped, ObjectsKeyed, TriplesMet, DataStep
  PROVE  TriplesMet'
<1>1. \A t \in triples : t.blob \in Nat
  BY Fields DEF DataTyped
<1>2. ASSUME NEW t \in triples, t.by # None, NEW sp, NEW id, sp = t.by, id = t.blob
      PROVE  Met(sp, id)'
  <2>1. id \in Nat /\ Met(sp, id)
    BY <1>1, <1>2 DEF TriplesMet
  <2> QED
    BY <2>1, MetKept
<1>3. ASSUME NEW t \in triples, t.by # None
      PROVE  /\ t.by \in DOMAIN buffer' /\ t.blob < nextBlob'
             /\ \A r \in rows' : r.id = t.blob => r.name \in DOMAIN buffer'[t.by]
  BY <1>2, <1>3 DEF Met
<1>4. ASSUME \A t \in triples' : t \in triples \/ t.by = None
      PROVE  TriplesMet'
  BY <1>3, <1>4 DEF TriplesMet, Met
<1>5. ASSUME NEW sp \in DOMAIN buffer, NEW n \in Name, StepDescribes(sp, n)
      PROVE  TriplesMet'
  <2> DEFINE t == [id |-> nextTriple, blob |-> buffer[sp][n].id, visible |-> FALSE,
                   by |-> sp]
             id == buffer[sp][n].id
  <2>1. t.blob = id /\ t.by = sp
    OBVIOUS
  <2>2. triples' = triples \cup {t}
    BY <1>5 DEF StepDescribes
  <2>3. n \in Live(sp)
    BY <1>5 DEF StepDescribes
  <2>4. id \in Nat /\ Met(sp, id)
    BY <2>3, BufferedMet
  <2>5. ASSUME NEW x, x = id
        PROVE  Met(sp, x)'
    <3>1. x \in Nat /\ Met(sp, x)
      BY <2>4, <2>5
    <3> QED
      BY <3>1, MetKept
  <2>6. /\ sp \in DOMAIN buffer' /\ id < nextBlob'
        /\ \A r \in rows' : r.id = id => r.name \in DOMAIN buffer'[sp]
    BY <2>5 DEF Met
  <2> HIDE DEF t, id
  <2> QED
    BY <1>3, <2>1, <2>2, <2>6 DEF TriplesMet, Met
<1>6. ASSUME NEW sp \in Spelling, StepOpens(sp)
      PROVE  TriplesMet'
  BY <1>4, <1>6 DEF StepOpens, tables
<1>7. ASSUME NEW sp \in DOMAIN buffer, NEW n \in Name, StepOn(sp, n)
      PROVE  TriplesMet'
  <2>1. StepDescribes(sp, n) \/ UNCHANGED triples
    BY <1>7 DEF StepOn, StepAdds, StepLoads, StepRemoves, StepStores, tables
  <2> QED
    BY <1>4, <1>5, <2>1
<1>8. ASSUME Others
      PROVE  TriplesMet'
  <2>1. ASSUME NEW r \in rows, OthersDescribe(r)
        PROVE  TriplesMet'
    <3> DEFINE t == [id |-> nextTriple, blob |-> r.id, visible |-> TRUE, by |-> None]
    <3>1. t.by = None
      OBVIOUS
    <3>2. triples' = triples \cup {t}
      BY <2>1 DEF OthersDescribe
    <3> HIDE DEF t
    <3> QED
      BY <1>4, <3>1, <3>2
  <2>2. CASE UNCHANGED triples
    BY <1>4, <2>2
  <2> QED
    BY <1>8, <2>1, <2>2, OthersCases DEF OthersAdd, OthersPublish, OthersRemove
<1>9. CASE UNCHANGED <<tables, buffer, journal>>
  BY <1>4, <1>9 DEF tables
<1> QED
  BY <1>6, <1>7, <1>8, <1>9 DEF DataStep

\* After an object is put, the objects that are not removed are that one, if it
\* is not, and those there were.
LEMMA LiveAfterPut ==
  ASSUME NEW sp \in DOMAIN buffer, NEW n, NEW o, Puts(sp, n, o),
         NEW t \in DOMAIN buffer, NEW m \in Live(t)'
  PROVE  \/ t = sp /\ m = n /\ ~o.removed /\ buffer'[t][m] = o
         \/ m \in Live(t) /\ buffer'[t][m] = buffer[t][m] /\ (t # sp \/ m # n)
<1>1. m \in DOMAIN buffer'[t] /\ ~buffer'[t][m].removed
  BY DEF Live
<1>2. CASE t = sp /\ m = n
  BY <1>1, <1>2 DEF Puts
<1>3. CASE t = sp /\ m # n
  BY <1>1, <1>3 DEF Puts, Live
<1>4. CASE t # sp
  BY <1>1, <1>4 DEF Puts, Live
<1> QED
  BY <1>2, <1>3, <1>4

\* Other steps give no removed object back.
LEMMA LiveOtherwise ==
  ASSUME DataStep
  PROVE  \/ \E sp \in DOMAIN buffer : \E n \in Name : \E o : Puts(sp, n, o) /\ StepOn(sp, n)
         \/ \A t \in DOMAIN buffer : buffer'[t] = buffer[t]
<1>1. ASSUME NEW sp \in DOMAIN buffer, NEW n \in Name, StepOn(sp, n)
      PROVE  buffer' = buffer \/ \E o : Puts(sp, n, o)
  <2>1. CASE StepAdds(sp, n)
    BY <2>1 DEF StepAdds
  <2>2. CASE StepLoads(sp, n)
    BY <2>2 DEF StepLoads
  <2>3. CASE StepRemoves(sp, n)
    BY <2>3 DEF StepRemoves
  <2>4. CASE StepStores(sp, n)
    BY <2>4 DEF StepStores
  <2>5. CASE StepDescribes(sp, n)
    BY <2>5 DEF StepDescribes
  <2> QED
    BY <1>1, <2>1, <2>2, <2>3, <2>4, <2>5 DEF StepOn
<1>2. CASE Others
  BY <1>2, OthersCases
<1> QED
  BY <1>1, <1>2 DEF DataStep, StepOpens

\* What a step puts into a buffer that is not removed has the id of an object
\* that was there and was not removed, or one nothing was journaled of through
\* this File.
LEMMA LivesOn ==
  ASSUME DataTyped, IdsKeyed, ObjectsKeyed, JournalMet, DataStep,
         NEW t \in DOMAIN buffer, NEW m \in Live(t)'
  PROVE  \/ m \in Live(t) /\ buffer'[t][m].id = buffer[t][m].id
         \/ \A i \in DOMAIN journal :
              journal[i].by = t => journal[i].blob # buffer'[t][m].id
<1>0. /\ nextBlob \in Nat
      /\ \A i \in DOMAIN journal : journal[i].blob \in Nat /\ journal[i].blob < nextBlob
      /\ \A i \in DOMAIN journal : \A r \in rows :
           r.id = journal[i].blob => r.name \in DOMAIN buffer[journal[i].by]
  BY Fields DEF DataTyped, JournalMet, Met
<1>1. CASE \A u \in DOMAIN buffer : buffer'[u] = buffer[u]
  BY <1>1 DEF Live
<1>2. ASSUME NEW sp \in DOMAIN buffer, NEW n \in Name, NEW o, Puts(sp, n, o), StepOn(sp, n)
      PROVE  \/ m \in Live(t) /\ buffer'[t][m].id = buffer[t][m].id
             \/ \A i \in DOMAIN journal :
                  journal[i].by = t => journal[i].blob # buffer'[t][m].id
  <2>1. \/ t = sp /\ m = n /\ ~o.removed /\ buffer'[t][m] = o
        \/ m \in Live(t) /\ buffer'[t][m] = buffer[t][m]
    BY <1>2, LiveAfterPut
  <2>2. CASE m \in Live(t) /\ buffer'[t][m] = buffer[t][m]
    BY <2>2
  <2>3. CASE t = sp /\ m = n /\ ~o.removed /\ buffer'[t][m] = o
    <3>0. \A p : Puts(sp, n, p) => p = o
      BY <1>2 DEF Puts
    <3>1. CASE StepAdds(sp, n)
      <4>1. o.id = nextBlob
        BY <3>0, <3>1 DEF StepAdds, NewObject
      <4> QED
        BY <1>0, <2>3, <4>1
    <3>2. CASE StepLoads(sp, n)
      <4>1. PICK r \in rows : r.name = n /\ Puts(sp, n, NewObject(r.id))
        BY <3>2 DEF StepLoads
      <4>2. o.id = r.id /\ n \notin DOMAIN buffer[sp]
        BY <3>0, <3>2, <4>1 DEF NewObject, StepLoads
      <4> QED
        BY <1>0, <2>3, <4>1, <4>2
    <3>3. CASE StepRemoves(sp, n)
      <4> DEFINE p == [buffer[sp][n] EXCEPT !.removed = TRUE, !.newTriples = {}]
      <4>1. buffer[sp][n] \in Object
        BY <3>3 DEF StepRemoves, DataTyped, Live
      <4>2. p.removed
        BY <4>1 DEF Object
      <4>3. Puts(sp, n, p)
        BY <3>3 DEF StepRemoves
      <4> HIDE DEF p
      <4> QED
        BY <2>3, <3>0, <4>2, <4>3
    <3>4. CASE StepStores(sp, n)
      BY <3>4 DEF StepStores, Live
    <3>5. CASE StepDescribes(sp, n)
      <4> DEFINE p == [buffer[sp][n] EXCEPT !.newTriples = @ \cup {nextTriple}]
      <4>1. buffer[sp][n] \in Object /\ n \in Live(sp)
        BY <3>5 DEF StepDescribes, DataTyped, Live
      <4>2. p.id = buffer[sp][n].id
        BY <4>1 DEF Object
      <4>3. Puts(sp, n, p)
        BY <3>5 DEF StepDescribes
      <4> HIDE DEF p
      <4>4. o = p
        BY <3>0, <4>3
      <4> QED
        BY <2>3, <4>1, <4>2, <4>4
    <3> QED
      BY <1>2, <3>1, <3>2, <3>3, <3>4, <3>5 DEF StepOn
  <2> QED
    BY <2>1, <2>2, <2>3
<1> QED
  BY <1>1, <1>2, LiveOtherwise

\* What is removed stays removed.
LEMMA RemovedDeadKept ==
  ASSUME DataTyped, IdsKeyed, ObjectsKeyed, JournalMet, RemovedDead, DataStep
  PROVE  RemovedDead'
<1>1. ASSUME NEW i \in DOMAIN journal, journal[i].op = "Remove",
             NEW t, t = journal[i].by, NEW m \in Live(t)'
      PROVE  buffer'[t][m].id # journal[i].blob
  <2>1. t \in DOMAIN buffer
    BY <1>1 DEF JournalMet, Met
  <2>2. \/ m \in Live(t) /\ buffer'[t][m].id = buffer[t][m].id
        \/ \A j \in DOMAIN journal :
             journal[j].by = t => journal[j].blob # buffer'[t][m].id
    BY <1>1, <2>1, LivesOn
  <2> QED
    BY <1>1, <2>2 DEF RemovedDead
<1>2. ASSUME NEW i \in DOMAIN journal, journal[i].op = "Remove"
      PROVE  \A m \in DOMAIN buffer'[journal[i].by] :
               ~buffer'[journal[i].by][m].removed
                 => buffer'[journal[i].by][m].id # journal[i].blob
  BY <1>1, <1>2 DEF Live
<1>3. CASE UNCHANGED journal
  BY <1>2, <1>3 DEF RemovedDead, Live
<1>4. CASE ~UNCHANGED journal
  <2>1. PICK sp \in DOMAIN buffer, n \in Name :
          \E op, id :
            /\ op \in {"Add", "Remove", "Store", "Describe"} /\ id \in Nat
            /\ Journals(op, sp, id)
            /\ \/ op = "Add" /\ id = nextBlob /\ StepAdds(sp, n)
               \/ n \in Live(sp) /\ id = buffer[sp][n].id
            /\ op = "Remove" => StepRemoves(sp, n)
    BY <1>4, JournalGrows
  <2>2. PICK op, id :
          /\ op \in {"Add", "Remove", "Store", "Describe"} /\ id \in Nat
          /\ Journals(op, sp, id)
          /\ \/ op = "Add" /\ id = nextBlob /\ StepAdds(sp, n)
             \/ n \in Live(sp) /\ id = buffer[sp][n].id
          /\ op = "Remove" => StepRemoves(sp, n)
    BY <2>1
  <2>3. sp \in Spelling /\ journal \in Seq(JournalRow)
    BY DEF DataTyped
  <2>4. /\ DOMAIN journal = 1 .. Len(journal) /\ DOMAIN journal' = 1 .. Len(journal) + 1
        /\ Len(journal) \in Nat
        /\ \A i \in 1 .. Len(journal) : journal'[i] = journal[i]
        /\ journal'[Len(journal) + 1].op = op
        /\ journal'[Len(journal) + 1].blob = id /\ journal'[Len(journal) + 1].by = sp
    BY <2>2, <2>3, JournalsTyped
  <2>5. ASSUME op = "Remove", NEW m \in DOMAIN buffer'[sp], ~buffer'[sp][m].removed
        PROVE  buffer'[sp][m].id # id
    <3> DEFINE p == [buffer[sp][n] EXCEPT !.removed = TRUE, !.newTriples = {}]
    <3>1. StepRemoves(sp, n) /\ n \in Live(sp) /\ id = buffer[sp][n].id
      BY <2>2, <2>5
    <3>2. n \in DOMAIN buffer[sp] /\ buffer[sp][n] \in Object
      BY <3>1 DEF DataTyped, Live
    <3>3. p.removed
      BY <3>2 DEF Object
    <3>4. Puts(sp, n, p)
      BY <3>1 DEF StepRemoves
    <3> HIDE DEF p
    <3>5. m # n /\ m \in DOMAIN buffer[sp] /\ buffer'[sp][m] = buffer[sp][m]
      BY <2>5, <3>3, <3>4 DEF Puts
    <3> QED
      BY <3>1, <3>2, <3>5 DEF ObjectsKeyed
  <2>6. ASSUME NEW i \in DOMAIN journal', journal'[i].op = "Remove",
               NEW m \in DOMAIN buffer'[journal'[i].by],
               ~buffer'[journal'[i].by][m].removed
        PROVE  buffer'[journal'[i].by][m].id # journal'[i].blob
    <3>1. CASE i = Len(journal) + 1
      BY <2>4, <2>5, <2>6, <3>1
    <3>2. CASE i \in DOMAIN journal
      BY <1>2, <2>4, <2>6, <3>2
    <3> QED
      BY <2>4, <3>1, <3>2
  <2> QED
    BY <2>6 DEF RemovedDead, Live
<1> QED
  BY <1>3, <1>4

\* So nothing is journaled of a removed blob through the File it was removed
\* through.
LEMMA RemovalIsFinalKept ==
  ASSUME DataTyped, ObjectsKeyed, JournalMet, RemovedDead, RemovalIsFinal, DataStep
  PROVE  RemovalIsFinal'
<1>1. CASE UNCHANGED journal
  BY <1>1 DEF RemovalIsFinal
<1>2. CASE ~UNCHANGED journal
  <2>1. PICK sp \in DOMAIN buffer, n \in Name :
          \E op, id :
            /\ op \in {"Add", "Remove", "Store", "Describe"} /\ id \in Nat
            /\ Journals(op, sp, id)
            /\ \/ op = "Add" /\ id = nextBlob /\ StepAdds(sp, n)
               \/ n \in Live(sp) /\ id = buffer[sp][n].id
    BY <1>2, JournalGrows
  <2>2. PICK op, id :
          /\ op \in {"Add", "Remove", "Store", "Describe"} /\ id \in Nat
          /\ Journals(op, sp, id)
          /\ \/ op = "Add" /\ id = nextBlob /\ StepAdds(sp, n)
             \/ n \in Live(sp) /\ id = buffer[sp][n].id
    BY <2>1
  <2>3. sp \in Spelling /\ journal \in Seq(JournalRow)
    BY DEF DataTyped
  <2>4. /\ DOMAIN journal = 1 .. Len(journal) /\ DOMAIN journal' = 1 .. Len(journal) + 1
        /\ Len(journal) \in Nat
        /\ \A i \in 1 .. Len(journal) : journal'[i] = journal[i]
        /\ journal'[Len(journal) + 1].blob = id /\ journal'[Len(journal) + 1].by = sp
    BY <2>2, <2>3, JournalsTyped
  <2>5. \A i \in DOMAIN journal : journal[i].blob \in Nat /\ journal[i].blob < nextBlob
    BY Fields DEF DataTyped, JournalMet, Met
  <2>6. ASSUME NEW i \in DOMAIN journal, journal[i].op = "Remove", journal[i].blob = id
        PROVE  sp # journal[i].by
    <3>1. n \in Live(sp) /\ id = buffer[sp][n].id
      BY <2>2, <2>5, <2>6 DEF DataTyped
    <3> QED
      BY <2>6, <3>1 DEF RemovedDead
  <2>7. ASSUME NEW i \in DOMAIN journal', NEW j \in DOMAIN journal',
               i < j, journal'[i].op = "Remove", journal'[j].blob = journal'[i].blob
        PROVE  journal'[j].by # journal'[i].by
    <3>1. i \in DOMAIN journal /\ journal'[i] = journal[i]
      BY <2>4, <2>7
    <3>2. CASE j = Len(journal) + 1
      BY <2>4, <2>6, <2>7, <3>1, <3>2
    <3>3. CASE j \in DOMAIN journal
      BY <2>4, <2>7, <3>1, <3>3 DEF RemovalIsFinal
    <3> QED
      BY <2>4, <3>2, <3>3
  <2> QED
    BY <2>7 DEF RemovalIsFinal
<1> QED
  BY <1>1, <1>2

\* The triples an object knows: what TriplesKnown says of one object.
Knows(sp, o) ==
  /\ \A t \in triples : t.by = sp /\ t.blob = o.id => t.id \in o.newTriples
  /\ \A x \in o.newTriples : \E t \in triples : t.by = sp /\ t.blob = o.id /\ t.id = x

\* An object keeps track of the triples added through its File: of its own when
\* one is added to it, and none is added to another object under its id.
LEMMA TriplesKnownKept ==
  ASSUME DataTyped, IdsKeyed, ObjectsKeyed, TriplesMet, TriplesKnown, DataStep
  PROVE  TriplesKnown'
<1>0. /\ nextBlob \in Nat /\ DOMAIN buffer \subseteq Spelling /\ None \notin Spelling
      /\ \A t \in triples : t.blob \in Nat /\ t.blob < nextBlob /\ t.blob # nextBlob
      /\ \A sp \in DOMAIN buffer : \A n \in DOMAIN buffer[sp] : buffer[sp][n] \in Object
  BY Fields, NoneAssumption DEF DataTyped, IdsKeyed
<1>1. \A sp \in DOMAIN buffer : \A n \in Live(sp) : Knows(sp, buffer[sp][n])
  BY DEF TriplesKnown, Knows
<1>2. ASSUME \A sp \in DOMAIN buffer' : \A n \in Live(sp)' :
               /\ \A t \in triples' : t.by = sp /\ t.blob = buffer'[sp][n].id
                                        => t.id \in buffer'[sp][n].newTriples
               /\ \A x \in buffer'[sp][n].newTriples :
                    \E t \in triples' : t.by = sp /\ t.blob = buffer'[sp][n].id /\ t.id = x
      PROVE  TriplesKnown'
  BY <1>2 DEF TriplesKnown
<1>3. ASSUME \A t \in DOMAIN buffer : buffer'[t] = buffer[t],
             \A t \in DOMAIN buffer' : t \in DOMAIN buffer \/ DOMAIN buffer'[t] = {},
             triples \subseteq triples',
             \A t \in triples' : t \in triples \/ t.by = None
      PROVE  TriplesKnown'
  <2>1. ASSUME NEW sp \in DOMAIN buffer', NEW n \in Live(sp)'
        PROVE  /\ \A t \in triples' : t.by = sp /\ t.blob = buffer'[sp][n].id
                                        => t.id \in buffer'[sp][n].newTriples
               /\ \A x \in buffer'[sp][n].newTriples :
                    \E t \in triples' : t.by = sp /\ t.blob = buffer'[sp][n].id /\ t.id = x
    <3>1. sp \in DOMAIN buffer /\ n \in Live(sp) /\ buffer'[sp][n] = buffer[sp][n]
      BY <1>3, <2>1 DEF Live
    <3>2. sp # None
      BY <1>0, <3>1
    <3> QED
      BY <1>1, <1>3, <3>1, <3>2 DEF Knows
  <2> QED
    BY <1>2, <2>1
<1>4. ASSUME NEW sp \in DOMAIN buffer, NEW n \in Name, NEW o, Puts(sp, n, o),
             triples \subseteq triples',
             \A t \in triples' : t \in triples \/
               (n \in Live(sp) /\ t.by = sp /\ t.blob = buffer[sp][n].id),
             ~o.removed =>
               /\ \A t \in triples' : t.by = sp /\ t.blob = o.id => t.id \in o.newTriples
               /\ \A x \in o.newTriples :
                    \E t \in triples' : t.by = sp /\ t.blob = o.id /\ t.id = x
      PROVE  TriplesKnown'
  <2>1. ASSUME NEW u \in DOMAIN buffer', NEW m \in Live(u)'
        PROVE  /\ \A t \in triples' : t.by = u /\ t.blob = buffer'[u][m].id
                                        => t.id \in buffer'[u][m].newTriples
               /\ \A x \in buffer'[u][m].newTriples :
                    \E t \in triples' : t.by = u /\ t.blob = buffer'[u][m].id /\ t.id = x
    <3>1. u \in DOMAIN buffer
      BY <1>4 DEF Puts
    <3>2. \/ u = sp /\ m = n /\ ~o.removed /\ buffer'[u][m] = o
          \/ m \in Live(u) /\ buffer'[u][m] = buffer[u][m] /\ (u # sp \/ m # n)
      BY <1>4, <3>1, LiveAfterPut
    <3>3. CASE u = sp /\ m = n /\ ~o.removed /\ buffer'[u][m] = o
      BY <1>4, <3>3
    <3>4. CASE m \in Live(u) /\ buffer'[u][m] = buffer[u][m] /\ (u # sp \/ m # n)
      <4>1. ASSUME NEW t \in triples', t.by = u, t.blob = buffer[u][m].id
            PROVE  t \in triples
        <5>1. CASE n \in Live(sp) /\ t.by = sp /\ t.blob = buffer[sp][n].id
          <6>1. u = sp /\ m # n /\ n \in DOMAIN buffer[sp] /\ m \in DOMAIN buffer[sp]
            BY <3>4, <4>1, <5>1 DEF Live
          <6> QED
            BY <4>1, <5>1, <6>1 DEF ObjectsKeyed
        <5> QED
          BY <1>4, <5>1
      <4>2. Knows(u, buffer[u][m])
        BY <1>1, <3>1, <3>4
      <4> QED
        BY <1>4, <3>4, <4>1, <4>2 DEF Knows
    <3> QED
      BY <3>2, <3>3, <3>4
  <2> QED
    BY <1>2, <2>1
<1>5. ASSUME NEW sp \in DOMAIN buffer, NEW n \in Name, NEW id, Puts(sp, n, NewObject(id)),
             triples' = triples, \A t \in triples : ~(t.by = sp /\ t.blob = id)
      PROVE  TriplesKnown'
  <2> DEFINE o == NewObject(id)
  <2>1. o.id = id /\ o.newTriples = {}
    BY DEF NewObject
  <2>2. Puts(sp, n, o)
    BY <1>5
  <2> HIDE DEF o
  <2> QED
    BY <1>4, <1>5, <2>1, <2>2
<1>6. ASSUME NEW sp \in DOMAIN buffer, NEW n \in Name, StepAdds(sp, n)
      PROVE  TriplesKnown'
  BY <1>0, <1>5, <1>6 DEF StepAdds
<1>7. ASSUME NEW sp \in DOMAIN buffer, NEW n \in Name, StepLoads(sp, n)
      PROVE  TriplesKnown'
  <2>1. PICK r \in rows : r.name = n /\ Puts(sp, n, NewObject(r.id))
    BY <1>7 DEF StepLoads
  <2>2. n \notin DOMAIN buffer[sp] /\ triples' = triples
    BY <1>7 DEF StepLoads, tables
  <2>3. ASSUME NEW t \in triples, t.by = sp, t.blob = r.id
        PROVE  FALSE
    <3>1. Met(t.by, t.blob)
      BY <1>0, <2>3 DEF TriplesMet
    <3>2. r.name \in DOMAIN buffer[sp]
      BY <2>3, <3>1 DEF Met
    <3> QED
      BY <2>1, <2>2, <3>2
  <2> QED
    BY <1>5, <2>1, <2>2, <2>3
<1>8. ASSUME NEW sp \in DOMAIN buffer, NEW n \in Name, StepRemoves(sp, n)
      PROVE  TriplesKnown'
  <2> DEFINE p == [buffer[sp][n] EXCEPT !.removed = TRUE, !.newTriples = {}]
  <2>1. buffer[sp][n] \in Object
    BY <1>0, <1>8 DEF StepRemoves, Live
  <2>2. p.removed
    BY <2>1 DEF Object
  <2>3. Puts(sp, n, p) /\ triples' = triples
    BY <1>8 DEF StepRemoves, tables
  <2> HIDE DEF p
  <2> QED
    BY <1>4, <2>2, <2>3
<1>9. ASSUME NEW sp \in DOMAIN buffer, NEW n \in Name, StepDescribes(sp, n)
      PROVE  TriplesKnown'
  <2> DEFINE p == [buffer[sp][n] EXCEPT !.newTriples = @ \cup {nextTriple}]
             new == [id |-> nextTriple, blob |-> buffer[sp][n].id, visible |-> FALSE,
                     by |-> sp]
  <2>1. buffer[sp][n] \in Object /\ n \in Live(sp)
    BY <1>0, <1>9 DEF StepDescribes, Live
  <2>2. /\ p.id = buffer[sp][n].id
        /\ p.newTriples = buffer[sp][n].newTriples \cup {nextTriple}
    BY <2>1 DEF Object
  <2>3. new.by = sp /\ new.blob = buffer[sp][n].id /\ new.id = nextTriple
    OBVIOUS
  <2>4. Puts(sp, n, p) /\ triples' = triples \cup {new}
    BY <1>9 DEF StepDescribes
  <2> HIDE DEF p, new
  <2>5. Knows(sp, buffer[sp][n])
    BY <1>1, <2>1
  <2>6. \A t \in triples' : t.by = sp /\ t.blob = p.id => t.id \in p.newTriples
    BY <2>2, <2>3, <2>4, <2>5 DEF Knows
  <2>7. \A x \in p.newTriples : \E t \in triples' : t.by = sp /\ t.blob = p.id /\ t.id = x
    <3>1. ASSUME NEW x \in buffer[sp][n].newTriples
          PROVE  \E t \in triples' : t.by = sp /\ t.blob = p.id /\ t.id = x
      BY <2>2, <2>4, <2>5 DEF Knows
    <3>2. new \in triples'
      BY <2>4
    <3> QED
      BY <2>2, <2>3, <3>1, <3>2
  <2> QED
    BY <1>4, <2>1, <2>3, <2>4, <2>6, <2>7
<1>10. ASSUME NEW sp \in DOMAIN buffer, NEW n \in Name, StepOn(sp, n)
       PROVE  TriplesKnown'
  <2>1. CASE StepStores(sp, n)
    BY <1>3, <2>1 DEF StepStores, tables
  <2> QED
    BY <1>6, <1>7, <1>8, <1>9, <1>10, <2>1 DEF StepOn
<1>11. ASSUME NEW sp \in Spelling, StepOpens(sp)
       PROVE  TriplesKnown'
  BY <1>3, <1>11 DEF StepOpens, tables
<1>12. CASE Others
  <2>1. ASSUME NEW r \in rows, OthersDescribe(r)
        PROVE  triples \subseteq triples' /\ \A t \in triples' : t \in triples \/ t.by = None
    <3> DEFINE t == [id |-> nextTriple, blob |-> r.id, visible |-> TRUE, by |-> None]
    <3>1. t.by = None
      OBVIOUS
    <3>2. triples' = triples \cup {t}
      BY <2>1 DEF OthersDescribe
    <3> HIDE DEF t
    <3> QED
      BY <3>1, <3>2
  <2>2. triples \subseteq triples' /\ \A t \in triples' : t \in triples \/ t.by = None
    BY <1>12, <2>1, OthersCases DEF OthersAdd, OthersPublish, OthersRemove
  <2> QED
    BY <1>3, <1>12, <2>2, OthersCases
<1>13. CASE UNCHANGED <<tables, buffer, journal>>
  BY <1>3, <1>13 DEF tables
<1> QED
  BY <1>10, <1>11, <1>12, <1>13 DEF DataStep

\* The elements of a finite set, once each.
LEMMA ElementsOnce ==
  ASSUME NEW S, IsFiniteSet(S)
  PROVE  /\ SetToSeq(S) \in Seq(S) /\ Cardinality(S) \in Nat
         /\ Len(SetToSeq(S)) = Cardinality(S)
         /\ \A i, j \in 1 .. Cardinality(S) : SetToSeq(S)[i] = SetToSeq(S)[j] => i = j
         /\ \A x \in S : \E i \in 1 .. Cardinality(S) : SetToSeq(S)[i] = x
<1> DEFINE n == Cardinality(S)
<1>1. n \in Nat /\ ExistsBijection(1 .. n, S)
  BY FS_CardinalityType
<1>2. PICK g \in Bijection(1 .. n, S) : TRUE
  BY <1>1 DEF ExistsBijection
<1>3. g \in [1 .. n -> S] /\ IsInjective(g)
  BY <1>2 DEF Bijection, Injection
<1>4. SetToSeq(S) \in [1 .. n -> S] /\ IsInjective(SetToSeq(S))
  BY <1>3 DEF SetToSeq
<1> DEFINE f == SetToSeq(S)
<1> HIDE DEF f
<1>5. f \in [1 .. n -> S] /\ IsInjective(f)
  BY <1>4 DEF f
<1>6. f \in Seq(S) /\ Len(f) = n
  BY <1>1, <1>5
<1>7. \A i, j \in 1 .. n : f[i] = f[j] => i = j
  BY <1>5 DEF IsInjective
<1>8. f \in Injection(1 .. n, S)
  BY <1>5 DEF Injection
<1>9. Cardinality(1 .. n) = n
  BY <1>1, FS_Interval
<1>10. f \in Surjection(1 .. n, S)
  BY <1>8, <1>9, FS_Injection
<1>11. \A x \in S : \E i \in 1 .. n : f[i] = x
  BY <1>10 DEF Surjection
<1> QED
  BY <1>1, <1>6, <1>7, <1>11 DEF f

\* So what getTriples returns is complete, and nothing in it comes twice.
LEMMA ReadBack ==
  ASSUME DataTyped, IdsKeyed, TriplesKnown
  PROVE  TriplesReadBack
<1> SUFFICES ASSUME NEW sp \in DOMAIN buffer, NEW n \in Live(sp)
             PROVE  /\ IsInjective(GetTriples(buffer[sp][n]))
                    /\ \A t \in triples : t.blob = buffer[sp][n].id =>
                         (t.visible \/ t.by = sp
                            <=> t.id \in ToSet(GetTriples(buffer[sp][n])))
  BY DEF TriplesReadBack
<1> DEFINE o == buffer[sp][n]
           V == VisibleTriples(o.id)
           W == o.newTriples
<1>0. /\ o \in Object /\ sp \in Spelling /\ None \notin Spelling /\ nextTriple \in Nat
      /\ \A t \in triples : t.id \in Nat /\ t.id < nextTriple
  BY Fields, NoneAssumption DEF DataTyped, IdsKeyed, Live
<1>1. /\ \A x \in V : \E t \in triples : t.visible /\ t.blob = o.id /\ t.id = x
      /\ \A t \in triples : t.visible /\ t.blob = o.id => t.id \in V
  BY DEF VisibleTriples
<1>2. /\ \A x \in W : \E t \in triples : t.by = sp /\ t.blob = o.id /\ t.id = x
      /\ \A t \in triples : t.by = sp /\ t.blob = o.id => t.id \in W
  BY DEF TriplesKnown
<1> DEFINE got == SetToSeq(V) \o SetToSeq(W)
<1>3. GetTriples(o) = got
  BY DEF GetTriples
<1> HIDE DEF o, V, W
<1>4. \A x : ~(x \in V /\ x \in W)
  BY <1>0, <1>1, <1>2 DEF IdsKeyed
<1>5. IsFiniteSet(V) /\ IsFiniteSet(W)
  <2>1. IsFiniteSet(0 .. nextTriple)
    BY <1>0, FS_Interval
  <2>2. V \subseteq 0 .. nextTriple /\ W \subseteq 0 .. nextTriple
    BY <1>0, <1>1, <1>2
  <2> QED
    BY <2>1, <2>2, FS_Subset
<1> DEFINE a == SetToSeq(V)
           b == SetToSeq(W)
           k == Cardinality(V)
           l == Cardinality(W)
<1>6. /\ a \in Seq(V) /\ k \in Nat /\ Len(a) = k
      /\ \A i, j \in 1 .. k : a[i] = a[j] => i = j
      /\ \A x \in V : \E i \in 1 .. k : a[i] = x
  BY <1>5, ElementsOnce
<1>7. /\ b \in Seq(W) /\ l \in Nat /\ Len(b) = l
      /\ \A i, j \in 1 .. l : b[i] = b[j] => i = j
      /\ \A x \in W : \E i \in 1 .. l : b[i] = x
  BY <1>5, ElementsOnce
<1> HIDE DEF a, b, k, l
<1>8. got = a \o b
  BY DEF a, b
<1>9. /\ DOMAIN got = 1 .. k + l
      /\ \A i \in 1 .. k : got[i] = a[i] /\ got[i] \in V
      /\ \A i \in 1 .. k + l : i > k =>
           i - k \in 1 .. l /\ got[i] = b[i - k] /\ got[i] \in W
  <2>1. a \in Seq(V \cup W) /\ b \in Seq(V \cup W)
    BY <1>6, <1>7
  <2>2. /\ Len(a \o b) = Len(a) + Len(b) /\ a \o b \in Seq(V \cup W)
        /\ \A i \in 1 .. Len(a) + Len(b) :
             (a \o b)[i] = IF i <= Len(a) THEN a[i] ELSE b[i - Len(a)]
    BY <2>1, ConcatProperties
  <2>3. \A i \in 1 .. k : a[i] \in V
    BY <1>6
  <2>4. \A i \in 1 .. l : b[i] \in W
    BY <1>7
  <2>5. DOMAIN got = 1 .. k + l
    BY <1>6, <1>7, <1>8, <2>2
  <2>6. \A i \in 1 .. k : got[i] = a[i]
    BY <1>6, <1>7, <1>8, <2>2
  <2>7. \A i \in 1 .. k + l : i > k => i - k \in 1 .. l /\ got[i] = b[i - k]
    BY <1>6, <1>7, <1>8, <2>2
  <2> HIDE DEF got
  <2> QED
    BY <2>3, <2>4, <2>5, <2>6, <2>7
<1> HIDE DEF got
<1>10. \A i, j \in DOMAIN got : got[i] = got[j] => i = j
  <2> SUFFICES ASSUME NEW i \in 1 .. k + l, NEW j \in 1 .. k + l, got[i] = got[j]
               PROVE  i = j
    BY <1>9
  <2>0. i \in Int /\ j \in Int
    BY <1>6, <1>7
  <2>1. CASE i <= k /\ j <= k
    BY <1>6, <1>9, <2>1, <2>0
  <2>2. CASE i > k /\ j > k
    <3>1. i - k \in 1 .. l /\ j - k \in 1 .. l /\ b[i - k] = b[j - k]
      BY <1>9, <2>2
    <3>2. i - k = j - k
      BY <1>7, <3>1
    <3> QED
      BY <1>6, <2>0, <3>2
  <2>3. CASE (i <= k /\ j > k) \/ (i > k /\ j <= k)
    BY <1>4, <1>6, <1>9, <2>0, <2>3
  <2> QED
    BY <1>6, <2>0, <2>1, <2>2, <2>3
<1>11. IsInjective(got)
  BY <1>10 DEF IsInjective
<1>12. ToSet(got) = V \cup W
  <2>1. ASSUME NEW x \in V
        PROVE  \E i \in DOMAIN got : got[i] = x
    <3>1. PICK i \in 1 .. k : a[i] = x
      BY <1>6
    <3>2. i \in DOMAIN got /\ got[i] = x
      BY <1>6, <1>7, <1>9, <3>1
    <3> QED
      BY <3>2
  <2>2. ASSUME NEW x \in W
        PROVE  \E i \in DOMAIN got : got[i] = x
    <3>1. PICK i \in 1 .. l : b[i] = x
      BY <1>7
    <3>2. k + i \in 1 .. k + l /\ k + i > k /\ (k + i) - k = i
      BY <1>6, <1>7
    <3>3. got[k + i] = b[(k + i) - k]
      BY <1>9, <3>2
    <3>4. got[k + i] = x
      BY <3>1, <3>2, <3>3
    <3> QED
      BY <1>9, <3>2, <3>4
  <2>3. \A i \in DOMAIN got : got[i] \in V \cup W
    BY <1>6, <1>7, <1>9
  <2> QED
    BY <2>1, <2>2, <2>3 DEF ToSet
<1>13. ASSUME NEW t \in triples, t.blob = o.id
       PROVE  t.visible \/ t.by = sp <=> t.id \in V \cup W
  BY <1>1, <1>2, <1>13 DEF IdsKeyed
<1> QED
  BY <1>3, <1>11, <1>12, <1>13 DEF o

-----------------------------------------------------------------------------
(* The calls still to be made.                                             *)

\* What a call comes to: it returns, and what it is made for is there; or the
\* store has to create the blob; or the file is listed; or an exception ends the
\* command.
Fulfilled(c) ==
  /\ Returns /\ c.do # "names"
  /\ c.do = "open" => c.file \in DOMAIN buffer'
  /\ c.do = "has" => HasBlob(c.file, c.name)
  /\ c.do \in {"add", "get"} => IsHeld(c.file, c.name)'

NotFound(c) ==
  /\ c.do = "has" /\ ~HasBlob(c.file, c.name)
  /\ todo' = <<Do("add", c.file, c.name)>> \o Tail(todo)
  /\ UNCHANGED failed

FileListed(c) ==
  /\ c.do = "names"
  /\ \E names \in Ascending(GetBlobNames(c.file)) : todo' = Removals(c.file, names)
  /\ UNCHANGED failed

MayGet(sp, n) ==
  IF n \in DOMAIN buffer[sp] THEN ~buffer[sp][n].removed ELSE n \in VisibleNames

Refused(c) ==
  /\ todo' = << >> /\ failed' = c
  /\ \/ c.do = "add" /\ NameTaken(c.name)
     \/ c.do = "get" /\ ~MayGet(c.file, c.name)
  /\ UNCHANGED <<tables, buffer, modified, journal>>

\* A call ends in one of these ways.
LEMMA CallEnds ==
  ASSUME ClientTypeOK, InOrder(todo), Continue, NEW c, c = call
  PROVE  Fulfilled(c) \/ NotFound(c) \/ FileListed(c) \/ Refused(c)
<1>1. todo # << >>
  BY CallMade DEF Continue
<1>2. c.do # "open" => c.file \in DOMAIN buffer
  BY <1>1, NextCallReady
<1>3. CASE GetFile
  <2>1. c.file \in DOMAIN buffer'
    BY <1>3 DEF GetFile
  <2>2. Returns /\ c.do = "open"
    BY <1>3, CallMade DEF GetFile
  <2> QED
    BY <2>1, <2>2 DEF Fulfilled
<1>4. CASE CheckBlob
  <2>1. c.do = "has"
    BY <1>4, CallMade
  <2>2. CASE HasBlob(c.file, c.name)
    BY <1>4, <2>1, <2>2 DEF CheckBlob, Returns, Fulfilled
  <2>3. CASE ~HasBlob(c.file, c.name)
    BY <1>4, <2>1, <2>3 DEF CheckBlob, NotFound
  <2> QED
    BY <2>2, <2>3
<1>5. CASE AddBlob
  <2>1. c.do = "add"
    BY <1>5, CallMade
  <2>2. CASE NameTaken(c.name)
    BY <1>5, <2>1, <2>2 DEF AddBlob, Throws, Refused
  <2>3. CASE ~NameTaken(c.name)
    <3>1. Returns /\ SetObject(NewObject(nextBlob))
      BY <1>5, <2>3 DEF AddBlob
    <3>2. Puts(c.file, c.name, NewObject(nextBlob))
      BY <1>2, <2>1, <3>1, SetObjectPuts
    <3>3. IsHeld(c.file, c.name)'
      BY <1>2, <2>1, <3>2 DEF IsHeld, Live, Puts, NewObject
    <3> QED
      BY <2>1, <3>1, <3>3 DEF Fulfilled
  <2> QED
    BY <2>2, <2>3
<1>6. CASE GetBlob
  <2>1. c.do = "get" /\ c.file \in DOMAIN buffer
    BY <1>2, <1>6, CallMade
  <2>2. CASE Throws /\ (IF Buffered THEN BlobObject.removed ELSE c.name \notin VisibleNames)
    <3>1. ~MayGet(c.file, c.name)
      BY <2>2 DEF Buffered, BlobObject, MayGet
    <3> QED
      BY <2>1, <2>2, <3>1 DEF Throws, Refused
  <2>3. CASE Returns /\ Buffered /\ ~BlobObject.removed /\ UNCHANGED buffer
    <3>1. IsHeld(c.file, c.name)'
      BY <2>1, <2>3 DEF Buffered, BlobObject, IsHeld, Live
    <3> QED
      BY <2>1, <2>3, <3>1 DEF Fulfilled
  <2>4. CASE Returns /\ \E r \in rows : SetObject(NewObject(r.id))
    <3>1. PICK r \in rows : SetObject(NewObject(r.id))
      BY <2>4
    <3>2. Puts(c.file, c.name, NewObject(r.id))
      BY <2>1, <3>1, SetObjectPuts
    <3>3. IsHeld(c.file, c.name)'
      BY <2>1, <3>2 DEF IsHeld, Live, Puts, NewObject
    <3> QED
      BY <2>1, <2>4, <3>3 DEF Fulfilled
  <2> QED
    BY <1>6, <2>2, <2>3, <2>4 DEF GetBlob
<1>7. CASE RemoveFile
  BY <1>7 DEF RemoveFile, Calling, FileListed
<1>8. CASE RemoveBlob \/ UseContents \/ WriteBlob \/ AddTriple
  <2>1. c.do \notin {"open", "has", "add", "get", "names"}
    BY <1>8, CallMade
  <2>2. Returns
    BY <1>8 DEF RemoveBlob, UseContents, WriteBlob, AddTriple
  <2> QED
    BY <2>1, <2>2 DEF Fulfilled
<1> QED
  BY <1>3, <1>4, <1>5, <1>6, <1>7, <1>8 DEF Continue

\* Only the removal of an object takes it away.
LEMMA HeldKept ==
  ASSUME ClientTypeOK, InOrder(todo), Continue, NEW c, c = call,
         NEW sp \in DOMAIN buffer, NEW n \in Live(sp), ~Removes(c, sp, n)
  PROVE  IsHeld(sp, n)'
<1>1. n \in DOMAIN buffer[sp] /\ ~buffer[sp][n].removed /\ buffer[sp][n] \in Object
  BY DEF Live, ClientTypeOK
<1>2. ASSUME NEW o, Puts(c.file, c.name, o), c.file \in DOMAIN buffer,
             c.file = sp /\ c.name = n => ~o.removed
      PROVE  IsHeld(sp, n)'
  BY <1>1, <1>2 DEF Puts, IsHeld, Live
<1>3. CASE StepOpens(c.file)
  BY <1>1, <1>3 DEF StepOpens, IsHeld, Live
<1>4. CASE UNCHANGED <<tables, buffer, journal>>
  BY <1>1, <1>4 DEF IsHeld, Live
<1>5. CASE c.file \in DOMAIN buffer /\ StepOf(c.do, c.file, c.name)
  <2>1. CASE StepAdds(c.file, c.name)
    BY <1>2, <1>5, <2>1 DEF StepAdds, NewObject
  <2>2. CASE StepLoads(c.file, c.name)
    BY <1>2, <1>5, <2>2 DEF StepLoads, NewObject
  <2>3. CASE c.do = "remove" /\ StepRemoves(c.file, c.name)
    <3>1. c.file # sp \/ c.name # n
      BY <2>3 DEF Removes
    <3> QED
      BY <1>2, <1>5, <2>3, <3>1 DEF StepRemoves
  <2>4. CASE StepStores(c.file, c.name)
    BY <1>1, <2>4 DEF StepStores, IsHeld, Live
  <2>5. CASE StepDescribes(c.file, c.name)
    <3> DEFINE o == buffer[c.file][c.name]
               p == [o EXCEPT !.newTriples = @ \cup {nextTriple}]
    <3>1. Puts(c.file, c.name, p)
      BY <2>5 DEF StepDescribes
    <3>2. o \in Object
      BY <1>5, <2>5 DEF StepDescribes, Live, ClientTypeOK
    <3>3. p.removed = o.removed
      BY <3>2 DEF Object
    <3> HIDE DEF p
    <3>4. c.file = sp /\ c.name = n => ~p.removed
      BY <1>1, <3>3
    <3> QED
      BY <1>2, <1>5, <3>1, <3>4
  <2> QED
    BY <1>5, <2>1, <2>2, <2>3, <2>4, <2>5 DEF StepOf
<1> QED
  BY <1>3, <1>4, <1>5, CallsStep

\* What the removal of a file has still to remove: no call brings more of it, and
\* to remove a blob makes it less.
LEMMA LeftShrinks ==
  ASSUME ClientTypeOK, InOrder(todo), Continue, NEW c, c = call,
         c.do \in {"get", "remove"}, NEW n \in Left(c.file)'
  PROVE  n \in Left(c.file) /\ ~Removes(c, c.file, n)
<1> DEFINE sp == c.file
<1>0. /\ sp \in DOMAIN buffer /\ c.name \in Name
      /\ \A m \in DOMAIN buffer[sp] : buffer[sp][m] \in Object
  <2>1. todo # << >>
    BY CallMade DEF Continue
  <2>2. sp \in DOMAIN buffer /\ c.name \in Name
    BY <2>1, NextCallReady
  <2> QED
    BY <2>2 DEF ClientTypeOK
<1>1. n \in Live(sp)' \/ (n \in VisibleNames' /\ n \notin DOMAIN buffer'[sp])
  BY DEF Left
<1>2. CASE c.do = "get" /\ UNCHANGED <<tables, buffer, journal>>
  BY <1>1, <1>2 DEF Left, Live, VisibleNames, tables, Removes
<1>3. CASE c.do = "get" /\ StepLoads(sp, c.name)
  <2>1. PICK r \in rows : r.name = c.name /\ r.visible /\ Puts(sp, c.name, NewObject(r.id))
    BY <1>3 DEF StepLoads
  <2>2. c.name \in VisibleNames /\ c.name \notin DOMAIN buffer[sp]
    BY <1>3, <2>1 DEF StepLoads, VisibleNames
  <2>3. CASE n \in Live(sp)'
    BY <1>0, <1>3, <2>1, <2>2, <2>3, LiveAfterPut DEF Left, Removes
  <2>4. CASE n \in VisibleNames' /\ n \notin DOMAIN buffer'[sp]
    BY <1>3, <2>1, <2>4 DEF Left, Puts, StepLoads, VisibleNames, tables, Removes
  <2> QED
    BY <1>1, <2>3, <2>4
<1>4. CASE c.do = "remove" /\ StepRemoves(sp, c.name)
  <2> DEFINE p == [buffer[sp][c.name] EXCEPT !.removed = TRUE, !.newTriples = {}]
  <2>1. buffer[sp][c.name] \in Object /\ c.name \in DOMAIN buffer[sp]
    BY <1>0, <1>4 DEF StepRemoves, Live
  <2>2. p.removed
    BY <2>1 DEF Object
  <2>3. Puts(sp, c.name, p)
    BY <1>4 DEF StepRemoves
  <2> HIDE DEF p
  <2>4. CASE n \in Live(sp)'
    BY <1>0, <1>4, <2>2, <2>3, <2>4, LiveAfterPut DEF Left, Removes
  <2>5. CASE n \in VisibleNames' /\ n \notin DOMAIN buffer'[sp]
    BY <1>4, <2>1, <2>3, <2>5 DEF Left, Puts, StepRemoves, VisibleNames, tables, Removes
  <2> QED
    BY <1>1, <2>4, <2>5
<1> QED
  BY <1>2, <1>3, <1>4, CallsStep DEF StepOf

\* Files stay open.
LEMMA FilesStay ==
  ASSUME ClientTypeOK, InOrder(todo), Continue
  PROVE  DOMAIN buffer \subseteq DOMAIN buffer'
<1>1. CASE StepOpens(call.file)
  BY <1>1 DEF StepOpens
<1>2. CASE StepOf(call.do, call.file, call.name)
  BY <1>2 DEF StepOf, StepAdds, StepLoads, StepRemoves, StepStores, StepDescribes, Puts
<1> QED
  BY <1>1, <1>2, CallsStep

\* The calls stay in order when the first returns,
LEMMA InOrderReturns ==
  ASSUME ClientTypeOK, Continue, NEW t, t = todo, t # << >>, InOrder(t),
         NEW c, c = call, Fulfilled(c), NEW s, s = Tail(t)
  PROVE  InOrder(s)'
<1>0. /\ Len(t) \in Nat /\ DOMAIN t = 1 .. Len(t) /\ c = t[1] /\ t \in Seq(Call)
      /\ DOMAIN s = 1 .. Len(t) - 1
      /\ \A k \in 1 .. Len(t) - 1 : s[k] = t[k + 1]
  <2>1. t \in Seq(Call)
    BY DEF ClientTypeOK
  <2> QED
    BY <2>1, TailOfCalls DEF call
<1> SUFFICES ASSUME NEW k \in 1 .. Len(t) - 1
             PROVE  /\ s[k].do # "open" => WillBeOpen(s, k)'
                    /\ s[k].do \in {"remove", "read", "write", "describe"}
                         => WillBeHeld(s, k)'
  BY <1>0 DEF InOrder
<1>1. /\ k + 1 \in DOMAIN t /\ s[k] = t[k + 1] /\ k \in Nat /\ (k + 1) - 1 = k
      /\ \A j \in 1 .. k : j = 1 \/ (j - 1 \in 1 .. k - 1 /\ s[j - 1] = t[j])
      /\ \A l \in 1 .. k - 1 : l + 1 \in 1 .. k /\ s[l] = t[l + 1]
  <2>1. \A j \in 1 .. k : j = 1 \/ (j - 1 \in 1 .. k - 1 /\ (j - 1) + 1 = j
                                     /\ j - 1 \in 1 .. Len(t) - 1)
    BY <1>0
  <2> QED
    BY <1>0, <2>1
<1>2. ASSUME s[k].do # "open"
      PROVE  WillBeOpen(s, k)'
  <2>1. WillBeOpen(t, k + 1)
    BY <1>0, <1>1, <1>2 DEF InOrder
  <2>2. CASE s[k].file \in DOMAIN buffer
    BY <2>2, <1>0, FilesStay DEF WillBeOpen
  <2>3. ASSUME NEW j \in 1 .. k, t[j].do = "open", t[j].file = s[k].file
        PROVE  WillBeOpen(s, k)'
    <3>1. CASE j = 1
      BY <1>0, <2>3, <3>1 DEF Fulfilled, WillBeOpen
    <3>2. CASE j - 1 \in 1 .. k - 1 /\ s[j - 1] = t[j]
      BY <2>3, <3>2 DEF WillBeOpen
    <3> QED
      BY <1>1, <3>1, <3>2
  <2> QED
    BY <1>1, <2>1, <2>2, <2>3 DEF WillBeOpen
<1>3. ASSUME s[k].do \in {"remove", "read", "write", "describe"}
      PROVE  WillBeHeld(s, k)'
  <2> DEFINE sp == s[k].file
             n == s[k].name
  <2>1. \/ IsHeld(sp, n) /\ \A l \in 1 .. k : ~Removes(t[l], sp, n)
        \/ \E j \in 1 .. k : /\ t[j].do = "get" /\ t[j].file = sp /\ t[j].name = n
                              /\ \A l \in j + 1 .. k : ~Removes(t[l], sp, n)
    <3>1. WillBeHeld(t, k + 1)
      BY <1>0, <1>1, <1>3 DEF InOrder
    <3> QED
      BY <1>1, <3>1 DEF WillBeHeld
  <2>2. CASE IsHeld(sp, n) /\ \A l \in 1 .. k : ~Removes(t[l], sp, n)
    <3>1. 1 \in 1 .. k
      BY <1>1
    <3>2. ~Removes(c, sp, n)
      BY <1>0, <2>2, <3>1
    <3>3. IsHeld(sp, n)'
      <4>1. ASSUME NEW u, NEW m, IsHeld(u, m), ~Removes(c, u, m)
            PROVE  IsHeld(u, m)'
        BY <4>1, HeldKept DEF IsHeld
      <4> QED
        BY <2>2, <3>2, <4>1
    <3>4. \A l \in 1 .. k - 1 : ~Removes(s[l], sp, n)
      BY <1>1, <2>2
    <3> QED
      BY <3>3, <3>4 DEF WillBeHeld, Removes
  <2>3. ASSUME NEW j \in 1 .. k, t[j].do = "get", t[j].file = sp, t[j].name = n,
               \A l \in j + 1 .. k : ~Removes(t[l], sp, n)
        PROVE  WillBeHeld(s, k)'
    <3>1. CASE j = 1
      <4>1. IsHeld(sp, n)'
        BY <1>0, <2>3, <3>1 DEF Fulfilled
      <4>2. \A l \in 1 .. k - 1 : ~Removes(s[l], sp, n)
        <5>1. \A l \in 1 .. k - 1 : l + 1 \in j + 1 .. k
          BY <1>1, <3>1
        <5> QED
          BY <1>1, <2>3, <5>1
      <4> QED
        BY <4>1, <4>2 DEF WillBeHeld, Removes
    <3>2. CASE j - 1 \in 1 .. k - 1 /\ s[j - 1] = t[j]
      <4>1. \A l \in (j - 1) + 1 .. k - 1 : l \in 1 .. k - 1 /\ l + 1 \in j + 1 .. k
        BY <1>1, <3>2
      <4>2. \A l \in (j - 1) + 1 .. k - 1 : ~Removes(s[l], sp, n)
        BY <1>1, <2>3, <4>1
      <4> QED
        BY <2>3, <3>2, <4>2 DEF WillBeHeld, Removes
    <3> QED
      BY <1>1, <3>1, <3>2
  <2> QED
    BY <2>1, <2>2, <2>3
<1> QED
  BY <1>2, <1>3

\* when a blob is created in between,
LEMMA InOrderCreates ==
  ASSUME ClientTypeOK, Continue, NEW t, t = todo, t # << >>, InOrder(t),
         NEW c, c = call, c.do = "has", UNCHANGED buffer,
         NEW s, s = <<Do("add", c.file, c.name)>> \o Tail(t)
  PROVE  /\ s \in Seq(Call) /\ DOMAIN s = DOMAIN t
         /\ s[1] = Do("add", c.file, c.name) /\ s[1] \in Call
         /\ \A k \in DOMAIN t : k = 1 \/ (k \in Nat /\ k > 1 /\ s[k] = t[k])
         /\ InOrder(s)'
<1>0. /\ Len(t) \in Nat /\ DOMAIN t = 1 .. Len(t) /\ c = t[1] /\ t \in Seq(Call)
      /\ Tail(t) \in Seq(Call) /\ Len(Tail(t)) = Len(t) - 1
      /\ \A k \in 1 .. Len(t) - 1 : Tail(t)[k] = t[k + 1]
  <2>1. t \in Seq(Call)
    BY DEF ClientTypeOK
  <2> QED
    BY <2>1, TailOfCalls DEF call
<1>1. c.file \in Spelling /\ c.name \in Name /\ c.file \in DOMAIN buffer
  BY NextCallReady
<1>2. /\ Do("add", c.file, c.name) \in Call
      /\ Do("add", c.file, c.name).do = "add" /\ Do("add", c.file, c.name).file = c.file
  BY <1>1, DoIsCall
<1>3. /\ s \in Seq(Call) /\ DOMAIN s = 1 .. Len(Tail(t)) + 1
      /\ s[1] = Do("add", c.file, c.name)
      /\ \A k \in 1 .. Len(Tail(t)) : s[k + 1] = Tail(t)[k]
  BY <1>0, <1>2, Prepended
<1>4. DOMAIN s = DOMAIN t
  BY <1>0, <1>3
<1>5. ASSUME NEW k \in DOMAIN t
      PROVE  k = 1 \/ (k \in Nat /\ k > 1 /\ s[k] = t[k])
  <2>1. CASE k # 1
    <3>1. k - 1 \in 1 .. Len(t) - 1 /\ (k - 1) + 1 = k /\ k \in Nat /\ k > 1
      BY <1>0, <1>5, <2>1
    <3>2. s[(k - 1) + 1] = Tail(t)[k - 1] /\ Tail(t)[k - 1] = t[(k - 1) + 1]
      BY <1>0, <1>3, <3>1
    <3> QED
      BY <3>1, <3>2
  <2> QED
    BY <2>1
<1>6. ASSUME NEW k \in DOMAIN s
      PROVE  /\ s[k].do # "open" => WillBeOpen(s, k)'
             /\ s[k].do \in {"remove", "read", "write", "describe"} => WillBeHeld(s, k)'
  <2>1. CASE k = 1
    BY <1>1, <1>2, <1>3, <2>1 DEF WillBeOpen
  <2>2. CASE k # 1
    <3>1. k \in DOMAIN t /\ s[k] = t[k] /\ k \in 1 .. Len(t)
      BY <1>0, <1>4, <1>5, <1>6, <2>2
    <3>2. \A j \in 1 .. k - 1 : j \in DOMAIN t
      BY <1>0, <3>1
    <3>3. \A j \in 1 .. k - 1 : j = 1 \/ s[j] = t[j]
      BY <1>5, <3>2
    <3>4. \A sp, n : ~Removes(s[1], sp, n)
      BY <1>2, <1>3 DEF Removes
    <3>5. ASSUME s[k].do # "open"
          PROVE  WillBeOpen(s, k)'
      <4>1. WillBeOpen(t, k)
        BY <3>1, <3>5 DEF InOrder
      <4> QED
        BY <1>0, <3>1, <3>3, <4>1 DEF WillBeOpen
    <3>6. ASSUME s[k].do \in {"remove", "read", "write", "describe"}
          PROVE  WillBeHeld(s, k)'
      <4> DEFINE sp == s[k].file
                 n == s[k].name
      <4>1. \/ IsHeld(sp, n) /\ \A l \in 1 .. k - 1 : ~Removes(t[l], sp, n)
            \/ \E j \in 1 .. k - 1 : /\ t[j].do = "get" /\ t[j].file = sp /\ t[j].name = n
                                     /\ \A l \in j + 1 .. k - 1 : ~Removes(t[l], sp, n)
        <5>1. WillBeHeld(t, k)
          BY <3>1, <3>6 DEF InOrder
        <5>2. t[k].file = sp /\ t[k].name = n
          BY <3>1
        <5> HIDE DEF sp, n
        <5> QED
          BY <5>1, <5>2 DEF WillBeHeld
      <4>2. CASE IsHeld(sp, n) /\ \A l \in 1 .. k - 1 : ~Removes(t[l], sp, n)
        <5>1. \A l \in 1 .. k - 1 : ~Removes(s[l], sp, n)
          BY <3>3, <3>4, <4>2
        <5>2. IsHeld(sp, n)'
          BY <4>2 DEF IsHeld, Live
        <5> QED
          BY <5>1, <5>2 DEF WillBeHeld, Removes
      <4>3. ASSUME NEW j \in 1 .. k - 1, t[j].do = "get", t[j].file = sp, t[j].name = n,
                   \A l \in j + 1 .. k - 1 : ~Removes(t[l], sp, n)
            PROVE  WillBeHeld(s, k)'
        <5>1. s[j] = t[j]
          BY <1>0, <3>3, <4>3
        <5>2. \A l \in j + 1 .. k - 1 : l \in 1 .. k - 1
          BY <3>1
        <5>3. \A l \in j + 1 .. k - 1 : ~Removes(s[l], sp, n)
          BY <3>3, <3>4, <4>3, <5>2
        <5>4. /\ s[j].do = "get" /\ s[j].file = s[k].file /\ s[j].name = s[k].name
              /\ \A l \in j + 1 .. k - 1 : ~Removes(s[l], s[k].file, s[k].name)
          BY <4>3, <5>1, <5>3
        <5> QED
          BY <5>4 DEF WillBeHeld, Removes
      <4> QED
        BY <4>1, <4>2, <4>3
    <3> QED
      BY <3>5, <3>6
  <2> QED
    BY <2>1, <2>2
<1>7. InOrder(s)'
  BY <1>6 DEF InOrder
<1> QED
  BY <1>2, <1>3, <1>4, <1>5, <1>7

\* and when the file has been listed.
LEMMA InOrderRemovals ==
  ASSUME NEW sp \in Spelling, sp \in DOMAIN buffer', NEW names \in Seq(Name),
         NEW s, s = Removals(sp, names)
  PROVE  InOrder(s)'
<1> DEFINE len == Len(names)
<1>0. len \in Nat /\ \A i \in 1 .. len : names[i] \in Name
  OBVIOUS
<1>1. /\ DOMAIN s = 1 .. 2 * len
      /\ \A i \in 1 .. len : s[2 * i - 1] = Do("get", sp, names[i])
      /\ \A k \in DOMAIN s : \E i \in 1 .. len :
           \/ k = 2 * i - 1 /\ s[k] = Do("get", sp, names[i])
           \/ k = 2 * i /\ s[k] = Do("remove", sp, names[i])
  BY RemovalsInPairs
<1>2. ASSUME NEW k \in DOMAIN s
      PROVE  /\ s[k].do # "open" => WillBeOpen(s, k)'
             /\ s[k].do \in {"remove", "read", "write", "describe"} => WillBeHeld(s, k)'
  <2>1. PICK i \in 1 .. len :
           \/ k = 2 * i - 1 /\ s[k] = Do("get", sp, names[i])
           \/ k = 2 * i /\ s[k] = Do("remove", sp, names[i])
    BY <1>1
  <2>2. names[i] \in Name /\ i \in Nat
    BY <1>0
  <2>3. s[k].file = sp /\ s[k].name = names[i]
    BY <2>1, <2>2, DoIsCall
  <2>4. WillBeOpen(s, k)'
    BY <2>3 DEF WillBeOpen
  <2>5. CASE k = 2 * i - 1 /\ s[k] = Do("get", sp, names[i])
    BY <2>2, <2>4, <2>5, DoIsCall
  <2>6. CASE k = 2 * i /\ s[k] = Do("remove", sp, names[i])
    <3>1. 2 * i - 1 \in 1 .. k - 1 /\ (2 * i - 1) + 1 .. k - 1 = {}
      BY <1>0, <2>6
    <3>2. /\ s[2 * i - 1].do = "get" /\ s[2 * i - 1].file = s[k].file
          /\ s[2 * i - 1].name = s[k].name
      BY <1>1, <2>2, <2>3, DoIsCall
    <3>3. WillBeHeld(s, k)'
      BY <3>1, <3>2 DEF WillBeHeld
    <3> QED
      BY <2>4, <3>3
  <2> QED
    BY <2>1, <2>5, <2>6
<1> QED
  BY <1>2 DEF InOrder

\* What is listed is a set of names.
LEMMA ListedNames ==
  ASSUME ClientTypeOK, NEW sp \in DOMAIN buffer
  PROVE  GetBlobNames(sp) \in SUBSET Name
BY Fields DEF ClientTypeOK, GetBlobNames, VisibleNames, Live

\* The first call, and what follows it.
LEMMA FirstCall ==
  ASSUME ClientTypeOK, InOrder(todo), Continue, NEW c, c = call, NEW t, t = todo
  PROVE  /\ t # << >> /\ t \in Seq(Call) /\ c \in Call /\ c.file \in Spelling /\ c.name \in Name
         /\ c = t[1] /\ 1 \in DOMAIN t
         /\ c.do # "open" => c.file \in DOMAIN buffer
         /\ c.do = "names" => UNCHANGED <<tables, buffer>>
         /\ c.do = "has" => UNCHANGED <<tables, buffer>>
         /\ UNCHANGED <<command, disturbed, left>>
<1>1. t # << >>
  BY CallMade DEF Continue
<1>2. /\ c.do = "names" => UNCHANGED <<tables, buffer>>
      /\ c.do = "has" => UNCHANGED <<tables, buffer>>
  BY <1>1, CallsStep DEF StepOf
<1> QED
  BY <1>1, <1>2, NextCallReady DEF ClientTypeOK, Continue

\* The calls to be made stay calls, and in order.
LEMMA InOrderKept ==
  ASSUME ClientTypeOK, InOrder(todo), [ClientNext]_vars
  PROVE  todo' \in Seq(Call) /\ InOrder(todo)'
<1>0. todo \in Seq(Call)
  BY DEF ClientTypeOK
<1>1. ASSUME NEW act \in Commands, Begin(act)
      PROVE  todo' \in Seq(Call) /\ InOrder(todo)'
  <2>1. todo' = Calls(act) /\ buffer' = buffer
    BY <1>1 DEF Begin
  <2>2. PICK s : s = Calls(act)
    OBVIOUS
  <2>3. s \in Seq(Call) /\ InOrder(s)
    BY <2>2, CallsInOrder
  <2>4. InOrder(s)'
    BY <2>1, <2>3 DEF InOrder, WillBeOpen, WillBeHeld, IsHeld, Live
  <2> QED
    BY <2>1, <2>2, <2>3, <2>4 DEF InOrder, WillBeOpen, WillBeHeld
<1>2. CASE Continue
  <2>1. PICK c, t : c = call /\ t = todo
    OBVIOUS
  <2>2. /\ t # << >> /\ t \in Seq(Call) /\ c \in Call /\ c.file \in Spelling
        /\ c.do # "open" => c.file \in DOMAIN buffer
        /\ c.do \in {"has", "names"} => UNCHANGED <<tables, buffer>>
    BY <1>2, <2>1, FirstCall
  <2>3. \E s : todo' = s /\ s \in Seq(Call) /\ InOrder(s)'
    <3>1. CASE Fulfilled(c)
      <4>1. PICK s : s = Tail(t)
        OBVIOUS
      <4>2. todo' = s /\ s \in Seq(Call)
        BY <2>1, <2>2, <3>1, <4>1, TailOfCalls DEF Fulfilled, Returns
      <4>3. InOrder(s)'
        BY <1>2, <2>1, <2>2, <3>1, <4>1, InOrderReturns
      <4> QED
        BY <4>2, <4>3
    <3>2. CASE NotFound(c)
      <4>1. PICK s : s = <<Do("add", c.file, c.name)>> \o Tail(t)
        OBVIOUS
      <4>2. todo' = s /\ c.do = "has" /\ UNCHANGED buffer
        BY <2>1, <2>2, <3>2, <4>1 DEF NotFound
      <4>3. s \in Seq(Call) /\ InOrder(s)'
        BY <1>2, <2>1, <2>2, <4>1, <4>2, InOrderCreates
      <4> QED
        BY <4>2, <4>3
    <3>3. CASE FileListed(c)
      <4>1. c.file \in DOMAIN buffer /\ c.file \in DOMAIN buffer'
        BY <2>2, <3>3 DEF FileListed
      <4>2. PICK names \in Ascending(GetBlobNames(c.file)) : todo' = Removals(c.file, names)
        BY <3>3 DEF FileListed
      <4>3. PICK s : s = Removals(c.file, names)
        OBVIOUS
      <4>4. names \in Seq(Name)
        BY <4>1, ListedNames, AscendingLists
      <4>5. s \in Seq(Call) /\ InOrder(s)'
        BY <2>2, <4>1, <4>3, <4>4, RemovalsInPairs, InOrderRemovals
      <4> QED
        BY <4>2, <4>3, <4>5
    <3>4. CASE Refused(c)
      <4>1. PICK s : s = << >>
        OBVIOUS
      <4>2. s \in Seq(Call) /\ DOMAIN s = {}
        BY <4>1
      <4>3. InOrder(s)'
        BY <4>2 DEF InOrder
      <4> QED
        BY <3>4, <4>1, <4>2, <4>3 DEF Refused
    <3> QED
      BY <1>2, <2>1, <3>1, <3>2, <3>3, <3>4, CallEnds
  <2> QED
    BY <2>3 DEF InOrder, WillBeOpen, WillBeHeld
<1>3. CASE Others
  <2>1. UNCHANGED <<buffer, todo>>
    BY <1>3, OthersCases
  <2> QED
    BY <1>0, <2>1 DEF InOrder, WillBeOpen, WillBeHeld, IsHeld, Live
<1>4. CASE UNCHANGED vars
  BY <1>0, <1>4 DEF vars, InOrder, WillBeOpen, WillBeHeld, IsHeld, Live
<1> QED
  BY <1>1, <1>2, <1>3, <1>4 DEF ClientNext

\* The calls after a step, position by position.
LEMMA CallsAfter ==
  ASSUME ClientTypeOK, InOrder(todo), Continue, NEW c, c = call, NEW t, t = todo
  PROVE  \/ /\ Fulfilled(c)
            /\ \A k \in DOMAIN todo' : k \in Nat /\ k >= 1 /\ todo'[k] = t[k + 1]
                                       /\ k + 1 \in DOMAIN t
            /\ \A k \in DOMAIN t : k # 1 => k - 1 \in DOMAIN todo' /\ todo'[k - 1] = t[k]
         \/ /\ NotFound(c) /\ 1 \in DOMAIN todo' /\ todo'[1] = Do("add", c.file, c.name)
            /\ todo'[1].do = "add" /\ todo'[1].file = c.file /\ todo'[1].name = c.name
            /\ UNCHANGED <<tables, buffer>>
            /\ \A k \in DOMAIN todo' : k = 1 \/ (k \in DOMAIN t /\ k > 1 /\ todo'[k] = t[k])
         \/ /\ FileListed(c) /\ UNCHANGED <<tables, buffer>>
            /\ \E names \in Seq(Name) :
                 /\ todo' = Removals(c.file, names) /\ todo' \in Seq(Call)
                 /\ Len(names) \in Nat
                 /\ \A i \in 1 .. Len(names) :
                      names[i] \in GetBlobNames(c.file) /\ names[i] \in Name
                 /\ \A i, j \in 1 .. Len(names) : names[i] = names[j] => i = j
                 /\ \A n \in GetBlobNames(c.file) : \E i \in 1 .. Len(names) : names[i] = n
         \/ Refused(c)
<1>1. /\ t # << >> /\ t \in Seq(Call) /\ c \in Call /\ c.file \in Spelling /\ c.name \in Name
      /\ c = t[1]
      /\ c.do # "open" => c.file \in DOMAIN buffer
      /\ c.do = "names" => UNCHANGED <<tables, buffer>>
      /\ c.do = "has" => UNCHANGED <<tables, buffer>>
  BY FirstCall
<1>2. CASE Fulfilled(c)
  <2>1. PICK s : s = Tail(t)
    OBVIOUS
  <2>2. todo' = s
    BY <1>2, <2>1 DEF Fulfilled, Returns
  <2>3. /\ Len(t) \in Nat /\ DOMAIN t = 1 .. Len(t) /\ DOMAIN s = 1 .. Len(t) - 1
        /\ \A k \in 1 .. Len(t) - 1 : s[k] = t[k + 1]
    BY <1>1, <2>1, TailOfCalls
  <2>4. \A k \in DOMAIN s : k \in Nat /\ k >= 1 /\ s[k] = t[k + 1] /\ k + 1 \in DOMAIN t
    BY <2>3
  <2>5. \A k \in DOMAIN t : k # 1 => k - 1 \in 1 .. Len(t) - 1 /\ (k - 1) + 1 = k
    BY <2>3
  <2>6. \A k \in DOMAIN t : k # 1 => k - 1 \in DOMAIN s /\ s[k - 1] = t[k]
    BY <2>3, <2>5
  <2> QED
    BY <1>2, <2>2, <2>4, <2>6
<1>3. CASE NotFound(c)
  <2>1. PICK s : s = <<Do("add", c.file, c.name)>> \o Tail(t)
    OBVIOUS
  <2>2. todo' = s /\ c.do = "has" /\ UNCHANGED <<tables, buffer>>
    BY <1>1, <1>3, <2>1 DEF NotFound
  <2>3. /\ DOMAIN s = DOMAIN t /\ s[1] = Do("add", c.file, c.name)
        /\ \A k \in DOMAIN t : k = 1 \/ (k \in Nat /\ k > 1 /\ s[k] = t[k])
    BY <1>1, <2>1, <2>2, InOrderCreates
  <2>4. 1 \in DOMAIN t
    BY <1>1, FirstCall
  <2>5. s[1].do = "add" /\ s[1].file = c.file /\ s[1].name = c.name
    BY <1>1, <2>3, DoIsCall
  <2> QED
    BY <1>3, <2>2, <2>3, <2>4, <2>5
<1>4. CASE FileListed(c)
  <2>1. c.do = "names" /\ c.file \in DOMAIN buffer
    BY <1>1, <1>4 DEF FileListed
  <2>2. PICK names \in Ascending(GetBlobNames(c.file)) : todo' = Removals(c.file, names)
    BY <1>4 DEF FileListed
  <2>3. GetBlobNames(c.file) \in SUBSET Name
    BY <2>1, ListedNames
  <2>4. /\ names \in Seq(Name)
        /\ \A i \in 1 .. Len(names) : names[i] \in GetBlobNames(c.file)
        /\ \A i, j \in 1 .. Len(names) : names[i] = names[j] => i = j
        /\ \A n \in GetBlobNames(c.file) : \E i \in 1 .. Len(names) : names[i] = n
    BY <2>3, AscendingLists
  <2>5. todo' \in Seq(Call)
    BY <1>1, <2>2, <2>4, RemovalsInPairs
  <2>6. Len(names) \in Nat /\ \A i \in 1 .. Len(names) : names[i] \in Name
    BY <2>4
  <2>7. \E ns \in Seq(Name) :
          /\ todo' = Removals(c.file, ns) /\ todo' \in Seq(Call)
          /\ Len(ns) \in Nat
          /\ \A i \in 1 .. Len(ns) : ns[i] \in GetBlobNames(c.file) /\ ns[i] \in Name
          /\ \A i, j \in 1 .. Len(ns) : ns[i] = ns[j] => i = j
          /\ \A n \in GetBlobNames(c.file) : \E i \in 1 .. Len(ns) : ns[i] = n
    <3>1. /\ names \in Seq(Name) /\ Len(names) \in Nat
          /\ \A i \in 1 .. Len(names) : names[i] \in GetBlobNames(c.file) /\ names[i] \in Name
      BY <2>4, <2>6
    <3> QED
      BY <2>2, <2>4, <2>5, <3>1
  <2> QED
    BY <1>1, <1>4, <2>1, <2>7
<1> QED
  BY <1>2, <1>3, <1>4, CallEnds

\* Nothing is called after an exception.
LEMMA CallsWantedKept ==
  ASSUME ClientTypeOK, InOrder(todo), CallsWanted, [ClientNext]_vars
  PROVE  CallsWanted'
<1>1. ASSUME NEW act \in Commands, Begin(act)
      PROVE  CallsWanted'
  <2>1. act \in Action
    BY CommandsTyped
  <2> QED
    BY <1>1, <2>1, NoneAssumption DEF Begin, CallsWanted
<1>2. CASE Continue
  <2>1. PICK c, t : c = call /\ t = todo
    OBVIOUS
  <2>2. todo # << >> /\ UNCHANGED command
    BY <1>2, <2>1, FirstCall
  <2>3. UNCHANGED failed \/ todo' = << >>
    BY <1>2, <2>1, CallEnds DEF Fulfilled, Returns, NotFound, FileListed, Refused
  <2> QED
    BY <2>2, <2>3 DEF CallsWanted
<1>3. CASE Others
  BY <1>3, OthersCases DEF CallsWanted
<1>4. CASE UNCHANGED vars
  BY <1>4 DEF vars, CallsWanted
<1> QED
  BY <1>1, <1>2, <1>3, <1>4 DEF ClientNext

\* A blob is created only after it has been looked for in vain.
LEMMA AddsMissingKept ==
  ASSUME ClientTypeOK, InOrder(todo), AddsMissing, [ClientNext]_vars
  PROVE  AddsMissing'
<1>1. ASSUME NEW act \in Commands, Begin(act)
      PROVE  AddsMissing'
  BY <1>1, CallsInOrder DEF Begin, AddsMissing
<1>2. CASE Continue
  <2>1. PICK c, t : c = call /\ t = todo
    OBVIOUS
  <2>2. UNCHANGED disturbed /\ \A k \in DOMAIN t : t[k].do = "add" => k = 1
    BY <1>2, <2>1, FirstCall DEF AddsMissing
  <2>3. CASE \A k \in DOMAIN todo' : k \in Nat /\ k >= 1 /\ todo'[k] = t[k + 1]
                                     /\ k + 1 \in DOMAIN t
    <3>1. ASSUME NEW k \in DOMAIN todo'
          PROVE  todo'[k].do # "add"
      <4>1. k + 1 # 1 /\ k + 1 \in DOMAIN t /\ todo'[k] = t[k + 1]
        BY <2>3
      <4> QED
        BY <2>2, <4>1
    <3> QED
      BY <3>1 DEF AddsMissing
  <2>4. CASE /\ NotFound(c) /\ UNCHANGED <<tables, buffer>>
             /\ todo'[1].file = c.file /\ todo'[1].name = c.name
             /\ \A k \in DOMAIN todo' : k = 1 \/ (k \in DOMAIN t /\ k > 1 /\ todo'[k] = t[k])
    <3>1. ~HasBlob(c.file, c.name)'
      BY <2>4 DEF NotFound, HasBlob, GetBlobNames, VisibleNames, Live, tables
    <3>2. ASSUME NEW k \in DOMAIN todo', todo'[k].do = "add"
          PROVE  k = 1 /\ todo'[k].file = c.file /\ todo'[k].name = c.name
      <4>1. ~(k \in DOMAIN t /\ k > 1 /\ todo'[k] = t[k])
        BY <2>2, <3>2
      <4> QED
        BY <2>4, <4>1
    <3> QED
      BY <3>1, <3>2 DEF AddsMissing
  <2>5. CASE \E names \in Seq(Name) : todo' = Removals(c.file, names)
    <3>1. PICK names \in Seq(Name) : todo' = Removals(c.file, names)
      BY <2>5
    <3>2. \A k \in DOMAIN todo' : todo'[k].do # "add"
      BY <3>1 DEF Removals, Do
    <3> QED
      BY <3>2 DEF AddsMissing
  <2>6. CASE Refused(c)
    BY <2>6 DEF Refused, AddsMissing
  <2> QED
    BY <1>2, <2>1, <2>3, <2>4, <2>5, <2>6, CallsAfter
<1>3. CASE Others
  BY <1>3, OthersCases DEF AddsMissing
<1>4. CASE UNCHANGED vars
  BY <1>4 DEF vars, tables, AddsMissing, HasBlob, GetBlobNames, VisibleNames, Live
<1> QED
  BY <1>1, <1>2, <1>3, <1>4 DEF ClientNext

\* What is visible changes by no call.
LEMMA VisibleKept ==
  ASSUME ClientTypeOK, InOrder(todo), Continue
  PROVE  VisibleNames' = VisibleNames
<1>1. CASE UNCHANGED rows
  BY <1>1 DEF VisibleNames
<1>2. CASE \E sp, n : StepAdds(sp, n)
  <2>1. PICK sp, n : rows' = rows \cup
               {[id |-> nextBlob, name |-> n, visible |-> FALSE, by |-> sp]}
    BY <1>2 DEF StepAdds
  <2> QED
    BY <2>1 DEF VisibleNames
<1> QED
  BY <1>1, <1>2, CallsStep
  DEF StepOpens, StepOf, StepLoads, StepRemoves, StepStores, StepDescribes, tables

\* So a blob that is there stays, as long as it is not removed.
LEMMA HasKept ==
  ASSUME ClientTypeOK, InOrder(todo), Continue, NEW c, c = call,
         NEW sp \in DOMAIN buffer, NEW n, HasBlob(sp, n), ~Removes(c, sp, n)
  PROVE  HasBlob(sp, n)'
<1>1. CASE n \in VisibleNames
  BY <1>1, VisibleKept DEF HasBlob, GetBlobNames
<1>2. CASE n \in Live(sp)
  BY <1>2, HeldKept DEF IsHeld, HasBlob, GetBlobNames
<1> QED
  BY <1>1, <1>2 DEF HasBlob, GetBlobNames

\* The action store finds what it opens.
LEMMA StoreFindsKept ==
  ASSUME ClientTypeOK, InOrder(todo), StoreFinds, [ClientNext]_vars
  PROVE  StoreFinds'
<1>1. ASSUME NEW act \in Commands, Begin(act)
      PROVE  StoreFinds'
  <2>1. todo' = Calls(act) /\ command' = act
    BY <1>1 DEF Begin
  <2>2. act.action = "store" =>
          \A k \in DOMAIN Calls(act) :
            /\ Calls(act)[k].do # "names"
            /\ Calls(act)[k].do = "get" =>
                 /\ k # 1 /\ Calls(act)[k - 1].do = "has"
                 /\ Calls(act)[k - 1].file = Calls(act)[k].file
                 /\ Calls(act)[k - 1].name = Calls(act)[k].name
    BY CallsInOrder
  <2> QED
    BY <2>1, <2>2 DEF StoreFinds
<1>2. CASE Continue
  <2> SUFFICES ASSUME command # None, command.action = "store", ~disturbed
               PROVE  \A k \in DOMAIN todo' :
                        /\ todo'[k].do # "names"
                        /\ todo'[k].do = "get" =>
                             IF k = 1 THEN \A sp, n : sp = todo'[k].file /\ n = todo'[k].name
                                             => HasBlob(sp, n)'
                             ELSE /\ todo'[k - 1].do \in {"has", "add"}
                                  /\ todo'[k - 1].file = todo'[k].file
                                  /\ todo'[k - 1].name = todo'[k].name
    <3>1. UNCHANGED <<command, disturbed>>
      BY <1>2 DEF Continue
    <3> QED
      BY <3>1 DEF StoreFinds
  <2>1. PICK c, t : c = call /\ t = todo
    OBVIOUS
  <2>2. /\ c = t[1] /\ 1 \in DOMAIN t /\ c.file \in Spelling /\ c.name \in Name
        /\ c.do # "open" => c.file \in DOMAIN buffer
        /\ c.do = "has" => UNCHANGED <<tables, buffer>>
    BY <1>2, <2>1, FirstCall
  <2>3. \A k \in DOMAIN t :
          /\ t[k].do # "names"
          /\ t[k].do = "get" =>
               k = 1 \/ (/\ t[k - 1].do \in {"has", "add"}
                         /\ t[k - 1].file = t[k].file
                         /\ t[k - 1].name = t[k].name)
    BY <2>1 DEF StoreFinds
  <2>4. CASE /\ Fulfilled(c)
             /\ \A k \in DOMAIN todo' : /\ k \in Nat /\ k >= 1 /\ todo'[k] = t[k + 1]
                                        /\ k + 1 \in DOMAIN t
    <3>1. c.do \in {"has", "add"} => HasBlob(c.file, c.name)'
      <4>1. CASE c.do = "has"
        <5>1. HasBlob(c.file, c.name) /\ UNCHANGED <<tables, buffer>>
          BY <2>2, <2>4, <4>1 DEF Fulfilled
        <5> QED
          BY <5>1 DEF HasBlob, GetBlobNames, VisibleNames, Live, tables
      <4>2. CASE c.do = "add"
        BY <2>4, <4>2 DEF Fulfilled, IsHeld, HasBlob, GetBlobNames
      <4> QED
        BY <4>1, <4>2
    <3>2. ASSUME NEW k \in DOMAIN todo'
          PROVE  /\ todo'[k].do # "names"
                 /\ todo'[k].do = "get" =>
                      /\ t[k].do \in {"has", "add"} /\ t[k].file = todo'[k].file
                      /\ t[k].name = todo'[k].name
                 /\ k # 1 => k - 1 \in DOMAIN todo' /\ todo'[k - 1] = t[k]
      <4>1. k \in Nat /\ k >= 1 /\ todo'[k] = t[k + 1] /\ k + 1 \in DOMAIN t
            /\ k + 1 # 1 /\ (k + 1) - 1 = k
        BY <2>4
      <4>2. /\ todo'[k].do # "names"
            /\ todo'[k].do = "get" =>
                      /\ t[k].do \in {"has", "add"} /\ t[k].file = todo'[k].file
                      /\ t[k].name = todo'[k].name
        BY <2>3, <4>1
      <4>3. k # 1 => k - 1 \in DOMAIN todo' /\ todo'[k - 1] = t[k]
        <5>1. todo' = Tail(t) /\ t # << >> /\ t \in Seq(Call)
          BY <1>2, <2>1, <2>4, FirstCall DEF Fulfilled, Returns
        <5>2. /\ Len(t) \in Nat /\ DOMAIN Tail(t) = 1 .. Len(t) - 1
              /\ \A j \in 1 .. Len(t) - 1 : Tail(t)[j] = t[j + 1]
          BY <5>1, TailOfCalls
        <5>3. k # 1 => k - 1 \in 1 .. Len(t) - 1 /\ (k - 1) + 1 = k
          BY <5>1, <5>2
        <5> QED
          BY <5>1, <5>2, <5>3
      <4> QED
        BY <4>2, <4>3
    <3>3. ASSUME NEW k \in DOMAIN todo', todo'[k].do = "get", k = 1, NEW sp, NEW n,
                 sp = todo'[k].file, n = todo'[k].name
          PROVE  HasBlob(sp, n)'
      <4>1. c.do \in {"has", "add"} /\ c.file = sp /\ c.name = n
        BY <2>2, <3>2, <3>3
      <4> QED
        BY <3>1, <4>1
    <3>4. ASSUME NEW k \in DOMAIN todo', todo'[k].do = "get", k # 1
          PROVE  /\ todo'[k - 1].do \in {"has", "add"}
                 /\ todo'[k - 1].file = todo'[k].file
                 /\ todo'[k - 1].name = todo'[k].name
      BY <3>2, <3>4
    <3> QED
      BY <3>2, <3>3, <3>4
  <2>5. CASE /\ NotFound(c) /\ todo'[1].do = "add"
             /\ todo'[1].file = c.file /\ todo'[1].name = c.name
             /\ \A k \in DOMAIN todo' : k = 1 \/ (k \in DOMAIN t /\ k > 1 /\ todo'[k] = t[k])
             /\ 1 \in DOMAIN todo'
    <3>1. ASSUME NEW k \in DOMAIN todo', k # 1
          PROVE  /\ todo'[k] = t[k] /\ todo'[k].do # "names"
                 /\ todo'[k].do = "get" =>
                      /\ todo'[k - 1].do \in {"has", "add"}
                      /\ todo'[k - 1].file = todo'[k].file
                      /\ todo'[k - 1].name = todo'[k].name
      <4>1. todo'[k] = t[k] /\ k \in DOMAIN t /\ k > 1
        BY <2>5, <3>1
      <4>2. \/ k - 1 = 1
            \/ k - 1 # 1 /\ todo'[k - 1] = t[k - 1]
        <5>1. todo' = <<Do("add", c.file, c.name)>> \o Tail(t) /\ t # << >>
          BY <1>2, <2>1, <2>5, FirstCall DEF NotFound
        <5>2. /\ DOMAIN todo' = DOMAIN t
              /\ \A j \in DOMAIN t : j = 1 \/ todo'[j] = t[j]
          <6>1. PICK s : s = <<Do("add", c.file, c.name)>> \o Tail(t)
            OBVIOUS
          <6>2. c.do = "has" /\ UNCHANGED buffer
            BY <2>2, <2>5 DEF NotFound
          <6>3. DOMAIN s = DOMAIN t /\ \A j \in DOMAIN t : j = 1 \/ s[j] = t[j]
            BY <1>2, <2>1, <5>1, <6>1, <6>2, InOrderCreates
          <6> QED
            BY <5>1, <6>1, <6>3
        <5>3. t \in Seq(Call)
          BY <2>1 DEF ClientTypeOK
        <5>4. k - 1 \in DOMAIN t
          BY <4>1, <5>3
        <5> QED
          BY <5>2, <5>4
      <4>3. todo'[k].do = "get" =>
              /\ t[k - 1].do \in {"has", "add"} /\ t[k - 1].file = t[k].file
              /\ t[k - 1].name = t[k].name
        BY <2>3, <3>1, <4>1
      <4>4. CASE k - 1 = 1
        BY <2>2, <2>3, <2>5, <4>1, <4>3, <4>4
      <4>5. CASE k - 1 # 1 /\ todo'[k - 1] = t[k - 1]
        BY <2>3, <4>1, <4>3, <4>5
      <4> QED
        BY <4>2, <4>4, <4>5
    <3> QED
      BY <2>5, <3>1
  <2>6. CASE FileListed(c)
    BY <2>2, <2>3, <2>6 DEF FileListed
  <2>7. CASE Refused(c)
    BY <2>7 DEF Refused
  <2> QED
    BY <1>2, <2>1, <2>4, <2>5, <2>6, <2>7, CallsAfter
<1>3. CASE Others
  BY <1>3, OthersCases DEF StoreFinds
<1>4. CASE UNCHANGED vars
  BY <1>4 DEF vars, tables, StoreFinds, HasBlob, GetBlobNames, VisibleNames, Live
<1> QED
  BY <1>1, <1>2, <1>3, <1>4 DEF ClientNext

\* The removal of a file lists it and gets on with it.
LEMMA RmProgressKept ==
  ASSUME ClientTypeOK, InOrder(todo), CallsWanted, RmProgress, [ClientNext]_vars
  PROVE  RmProgress'
<1>1. ASSUME NEW act \in Commands, Begin(act)
      PROVE  RmProgress'
  <2>1. todo' = Calls(act) /\ command' = act /\ buffer' = buffer
    BY <1>1 DEF Begin
  <2>2. act.file \in Spelling /\ act.names[1] \in Name
    BY CommandsTyped
  <2>3. ASSUME act.action = "rmFile"
        PROVE  /\ DOMAIN todo' = {1, 2}
               /\ todo'[1].do = "open" /\ todo'[1].file = act.file
               /\ todo'[2].do = "names" /\ todo'[2].file = act.file
    BY <2>1, <2>2, <2>3, CallsInOrder, DoIsCall
  <2>4. ASSUME act.action = "rmFile"
        PROVE  RmCalls' /\ ~Listed'
    BY <2>1, <2>3, <2>4 DEF RmCalls, Listed
  <2> QED
    BY <2>1, <2>4 DEF RmProgress
<1>2. CASE Continue
  <2>0. PICK c, t, act : c = call /\ t = todo /\ act = command
    OBVIOUS
  <2>1. UNCHANGED <<command, disturbed>>
    BY <1>2 DEF Continue
  <2> SUFFICES ASSUME act # None, act.action = "rmFile", ~disturbed
               PROVE  /\ RmCalls'
                      /\ failed' = None /\ Listed' =>
                           \A n \in Left(act.file)' :
                             \E k \in DOMAIN todo' : Removes(todo'[k], act.file, n)
    BY <2>0, <2>1 DEF RmProgress, Removes
  <2> DEFINE sp == act.file
  <2>2. /\ c = t[1] /\ 1 \in DOMAIN t /\ c.file \in Spelling /\ c.name \in Name
        /\ c.do # "open" => c.file \in DOMAIN buffer
        /\ t \in Seq(Call) /\ t # << >>
    BY <1>2, <2>0, FirstCall
  <2>3. failed = None
    BY <2>0, <2>2 DEF CallsWanted
  <2>4. /\ \A k \in DOMAIN t :
             /\ t[k].file = sp
             /\ t[k].do \in {"open", "names", "get", "remove"}
             /\ t[k].do = "open" => \E l \in DOMAIN t : l > k /\ t[l].do = "names"
             /\ t[k].do = "get" =>
                  /\ sp \in DOMAIN buffer /\ HasBlob(sp, t[k].name)
                  /\ \A l \in 1 .. k - 1 : ~Removes(t[l], sp, t[k].name)
        /\ (\A k \in DOMAIN t : t[k].do # "names") =>
             \A n \in Left(sp) : \E k \in DOMAIN t : Removes(t[k], sp, n)
    <3>1. RmCalls /\ (Listed => \A n \in Left(sp) : \E k \in DOMAIN todo : Removes(todo[k], sp, n))
      BY <2>0, <2>3 DEF RmProgress
    <3> QED
      BY <2>0, <3>1 DEF RmCalls, Listed
  <2>5. c.file = sp /\ c.do \in {"open", "names", "get", "remove"}
    BY <2>2, <2>4
  <2>6. CASE /\ Fulfilled(c)
             /\ \A k \in DOMAIN todo' : /\ k \in Nat /\ k >= 1 /\ todo'[k] = t[k + 1]
                                        /\ k + 1 \in DOMAIN t
             /\ \A k \in DOMAIN t : k # 1 => k - 1 \in DOMAIN todo' /\ todo'[k - 1] = t[k]
    <3>0. \A k \in DOMAIN t : k \in Nat /\ k >= 1
      BY <2>2
    <3>1. ASSUME NEW k \in DOMAIN todo'
          PROVE  /\ todo'[k].file = sp
                 /\ todo'[k].do \in {"open", "names", "get", "remove"}
                 /\ todo'[k].do = "open" =>
                      \E l \in DOMAIN todo' : l > k /\ todo'[l].do = "names"
      <4>1. k \in Nat /\ todo'[k] = t[k + 1] /\ k + 1 \in DOMAIN t
        BY <2>6
      <4>2. ASSUME todo'[k].do = "open"
            PROVE  \E l \in DOMAIN todo' : l > k /\ todo'[l].do = "names"
        <5>1. PICK l \in DOMAIN t : l > k + 1 /\ t[l].do = "names"
          BY <2>4, <4>1, <4>2
        <5>2. l # 1 /\ l - 1 > k
          BY <3>0, <4>1, <5>1
        <5> QED
          BY <2>6, <5>1, <5>2
      <4> QED
        BY <2>4, <4>1, <4>2
    <3>2. ASSUME NEW k \in DOMAIN todo', todo'[k].do = "get", NEW n, n = todo'[k].name
          PROVE  /\ sp \in DOMAIN buffer' /\ HasBlob(sp, n)'
                 /\ \A l \in 1 .. k - 1 : ~Removes(todo'[l], sp, n)
      <4>1. /\ k \in Nat /\ k >= 1 /\ todo'[k] = t[k + 1] /\ k + 1 \in DOMAIN t
            /\ (k + 1) - 1 = k
        BY <2>6
      <4>2. /\ sp \in DOMAIN buffer /\ HasBlob(sp, n)
            /\ \A l \in 1 .. k : ~Removes(t[l], sp, n)
        BY <2>4, <3>2, <4>1
      <4>3. ~Removes(c, sp, n)
        BY <2>2, <4>1, <4>2
      <4>4. HasBlob(sp, n)'
        <5>1. ASSUME NEW u \in DOMAIN buffer, NEW m, HasBlob(u, m), ~Removes(c, u, m)
              PROVE  HasBlob(u, m)'
          BY <1>2, <2>0, <5>1, HasKept
        <5> QED
          BY <4>2, <4>3, <5>1
      <4>5. sp \in DOMAIN buffer'
        BY <1>2, <4>2, FilesStay
      <4>6. ASSUME NEW l \in 1 .. k - 1
            PROVE  ~Removes(todo'[l], sp, n)
        <5>0. Len(t) \in Nat /\ DOMAIN t = 1 .. Len(t) /\ l \in 1 .. k - 1
          BY <2>2, <4>6
        <5>1. l + 1 \in DOMAIN t /\ l + 1 \in 1 .. k /\ l + 1 # 1 /\ (l + 1) - 1 = l
          BY <4>1, <5>0
        <5>2. todo'[l] = t[l + 1]
          BY <2>6, <5>1
        <5> QED
          BY <4>2, <5>1, <5>2
      <4> QED
        BY <4>4, <4>5, <4>6
    <3>3. RmCalls'
      <4>1. command' = act
        BY <2>0, <2>1
      <4> QED
        BY <3>1, <3>2, <4>1 DEF RmCalls, Removes
    <3>4. ASSUME Listed', NEW n \in Left(sp)'
          PROVE  \E k \in DOMAIN todo' : Removes(todo'[k], sp, n)
      <4>1. ASSUME NEW k \in DOMAIN t
            PROVE  t[k].do # "names"
        <5>1. CASE k = 1
          BY <2>2, <2>6, <5>1 DEF Fulfilled
        <5>2. CASE k # 1
          BY <2>6, <3>4, <5>2 DEF Listed
        <5> QED
          BY <5>1, <5>2
      <4>2. c.do \in {"get", "remove"}
        BY <2>2, <2>4, <2>5, <4>1
      <4>3. n \in Left(sp) /\ ~Removes(c, sp, n)
        <5>1. n \in Left(c.file)'
          BY <2>0, <2>5, <3>4 DEF Left, Live
        <5>2. n \in Left(c.file) /\ ~Removes(c, c.file, n)
          BY <1>2, <2>0, <4>2, <5>1, LeftShrinks
        <5> QED
          BY <2>5, <5>2
      <4>4. PICK k \in DOMAIN t : Removes(t[k], sp, n)
        BY <2>4, <4>1, <4>3
      <4>5. k # 1
        BY <2>2, <4>3, <4>4
      <4> QED
        BY <2>6, <4>4, <4>5
    <3> QED
      BY <3>3, <3>4
  <2>7. CASE NotFound(c)
    BY <2>5, <2>7 DEF NotFound
  <2>8. CASE /\ FileListed(c) /\ UNCHANGED <<tables, buffer>>
             /\ \E names \in Seq(Name) :
                 /\ todo' = Removals(c.file, names) /\ todo' \in Seq(Call)
                 /\ Len(names) \in Nat
                 /\ \A i \in 1 .. Len(names) :
                      names[i] \in GetBlobNames(c.file) /\ names[i] \in Name
                 /\ \A i, j \in 1 .. Len(names) : names[i] = names[j] => i = j
                 /\ \A n \in GetBlobNames(c.file) : \E i \in 1 .. Len(names) : names[i] = n
    <3>1. PICK names \in Seq(Name) :
            /\ todo' = Removals(sp, names)
            /\ Len(names) \in Nat
            /\ \A i \in 1 .. Len(names) : names[i] \in GetBlobNames(sp) /\ names[i] \in Name
            /\ \A i, j \in 1 .. Len(names) : names[i] = names[j] => i = j
            /\ \A n \in GetBlobNames(sp) : \E i \in 1 .. Len(names) : names[i] = n
      BY <2>5, <2>8
    <3> DEFINE len == Len(names)
    <3>2. /\ DOMAIN todo' = 1 .. 2 * len
          /\ \A i \in 1 .. len : 2 * i \in DOMAIN todo' /\ todo'[2 * i] = Do("remove", sp, names[i])
          /\ \A k \in DOMAIN todo' : \E i \in 1 .. len :
               \/ k = 2 * i - 1 /\ todo'[k] = Do("get", sp, names[i])
               \/ k = 2 * i /\ todo'[k] = Do("remove", sp, names[i])
      <4>1. PICK R : R = Removals(sp, names)
        OBVIOUS
      <4>2. sp \in Spelling
        BY <2>2, <2>5
      <4>3. /\ DOMAIN R = 1 .. 2 * len
            /\ \A i \in 1 .. len : 2 * i \in DOMAIN R /\ R[2 * i] = Do("remove", sp, names[i])
            /\ \A k \in DOMAIN R : \E i \in 1 .. len :
                 \/ k = 2 * i - 1 /\ R[k] = Do("get", sp, names[i])
                 \/ k = 2 * i /\ R[k] = Do("remove", sp, names[i])
        BY <4>1, <4>2, RemovalsInPairs
      <4> QED
        BY <3>1, <4>1, <4>3
    <3>3. sp \in DOMAIN buffer /\ sp \in DOMAIN buffer'
      BY <2>2, <2>5, <2>8 DEF FileListed
    <3>4. \A n : HasBlob(sp, n)' <=> n \in GetBlobNames(sp)
      BY <2>8 DEF HasBlob, GetBlobNames, VisibleNames, Live, tables
    <3>5. ASSUME NEW k \in DOMAIN todo', NEW n, n = todo'[k].name
          PROVE  /\ todo'[k].file = sp /\ todo'[k].do \in {"get", "remove"}
                 /\ todo'[k].do = "get" =>
                      HasBlob(sp, n)' /\ \A l \in 1 .. k - 1 : ~Removes(todo'[l], sp, n)
      <4>1. PICK i \in 1 .. len :
              \/ k = 2 * i - 1 /\ todo'[k] = Do("get", sp, names[i])
              \/ k = 2 * i /\ todo'[k] = Do("remove", sp, names[i])
        BY <3>2
      <4>2. i \in Nat /\ names[i] \in Name /\ names[i] \in GetBlobNames(sp) /\ sp \in Spelling
        BY <2>2, <2>5, <3>1
      <4>3. CASE k = 2 * i /\ todo'[k] = Do("remove", sp, names[i])
        BY <4>2, <4>3, DoIsCall
      <4>4. CASE k = 2 * i - 1 /\ todo'[k] = Do("get", sp, names[i])
        <5>1. todo'[k].file = sp /\ todo'[k].do = "get" /\ n = names[i]
          BY <3>5, <4>2, <4>4, DoIsCall
        <5>2. ASSUME NEW l \in 1 .. k - 1
              PROVE  ~Removes(todo'[l], sp, n)
          <6>1. l \in DOMAIN todo'
            BY <3>1, <3>2, <4>2, <4>4
          <6>2. PICK j \in 1 .. len :
                  \/ l = 2 * j - 1 /\ todo'[l] = Do("get", sp, names[j])
                  \/ l = 2 * j /\ todo'[l] = Do("remove", sp, names[j])
            BY <3>2, <6>1
          <6>3. j # i /\ names[j] \in Name
            BY <3>1, <4>2, <4>4, <6>2
          <6>4. names[j] # names[i]
            BY <3>1, <6>3
          <6>5. todo'[l].do = "get" \/ todo'[l].name # n
            BY <4>2, <5>1, <6>2, <6>3, <6>4, DoIsCall
          <6> QED
            BY <6>5 DEF Removes
        <5> QED
          BY <3>4, <4>2, <5>1, <5>2
      <4> QED
        BY <4>1, <4>3, <4>4
    <3>6. RmCalls'
      <4>1. command' = act
        BY <2>0, <2>1
      <4> QED
        BY <3>3, <3>5, <4>1 DEF RmCalls, Removes
    <3>7. ASSUME NEW n \in Left(sp)'
          PROVE  \E k \in DOMAIN todo' : Removes(todo'[k], sp, n)
      <4>1. n \in GetBlobNames(sp)
        BY <2>8, <3>7 DEF Left, GetBlobNames, VisibleNames, Live, tables
      <4>2. PICK i \in 1 .. len : names[i] = n
        BY <3>1, <4>1
      <4>3. names[i] \in Name /\ sp \in Spelling
        BY <2>2, <2>5, <3>1
      <4>4. 2 * i \in DOMAIN todo' /\ Removes(todo'[2 * i], sp, n)
        BY <3>2, <4>2, <4>3, DoIsCall DEF Removes
      <4> QED
        BY <4>4
    <3> QED
      BY <3>6, <3>7
  <2>9. CASE Refused(c)
    <3>1. RmCalls' /\ failed' # None
      <4>1. c \in Call /\ None \notin Call
        BY <1>2, <2>0, FirstCall, NoneAssumption
      <4> QED
        BY <2>9, <4>1 DEF Refused, RmCalls
    <3> QED
      BY <3>1
  <2> QED
    BY <1>2, <2>0, <2>6, <2>7, <2>8, <2>9, CallsAfter
<1>3. CASE Others
  BY <1>3, OthersCases DEF RmProgress
<1>4. CASE UNCHANGED vars
  <2>1. UNCHANGED <<rows, buffer, command, todo, failed, disturbed>>
    BY <1>4 DEF vars, tables
  <2>2. RmCalls' = RmCalls /\ Listed' = Listed
    BY <2>1 DEF RmCalls, Listed, HasBlob, GetBlobNames, VisibleNames, Live, Removes
  <2>3. \A u : Left(u)' = Left(u)
    BY <2>1 DEF Left, VisibleNames, Live
  <2> QED
    BY <2>1, <2>2, <2>3 DEF RmProgress, Removes
<1> QED
  BY <1>1, <1>2, <1>3, <1>4 DEF ClientNext

\* An exception has its reason when it is thrown, and keeps it until another
\* session does something.
LEMMA ExceptionsExplainedKept ==
  ASSUME ClientTypeOK, InOrder(todo), CallsWanted, AddsMissing, StoreFinds, RmProgress,
         ExceptionsExplained, [ClientNext]_vars
  PROVE  ExceptionsExplained'
<1>1. ASSUME NEW act \in Commands, Begin(act)
      PROVE  ExceptionsExplained'
  BY <1>1 DEF Begin, ExceptionsExplained
<1>2. CASE Continue
  <2>1. PICK c, t : c = call /\ t = todo
    OBVIOUS
  <2>2. /\ t # << >> /\ c = t[1] /\ 1 \in DOMAIN t /\ c \in Call
        /\ c.do # "open" => c.file \in DOMAIN buffer
        /\ UNCHANGED <<command, disturbed>>
    BY <1>2, <2>1, FirstCall
  <2>3. command # None /\ failed = None
    BY <2>1, <2>2 DEF CallsWanted
  <2>4. CASE failed' = failed
    BY <2>3, <2>4 DEF ExceptionsExplained
  <2>5. CASE Refused(c) /\ ~disturbed
    <3>1. failed' = c /\ UNCHANGED <<tables, buffer>>
      BY <2>5 DEF Refused
    <3>2. CASE c.do = "add" /\ NameTaken(c.name)
      <4>1. ~HasBlob(c.file, c.name)
        BY <2>1, <2>2, <2>5, <3>2 DEF AddsMissing
      <4>2. c.name \notin VisibleNames' \cup Live(c.file)' /\ NameTaken(c.name)'
        BY <3>1, <3>2, <4>1
        DEF HasBlob, GetBlobNames, VisibleNames, Live, NameTaken, tables
      <4> QED
        BY <3>1, <3>2, <4>2 DEF ExceptionsExplained, VisibleNames, Live, NameTaken
    <3>3. CASE c.do = "get" /\ ~MayGet(c.file, c.name)
      <4>1. \/ c.name \in DOMAIN buffer[c.file] /\ c.name \notin Live(c.file)
            \/ c.name \notin VisibleNames \cup Live(c.file)
        BY <3>3 DEF MayGet, Live
      <4>2. ASSUME command.action = "store"
            PROVE  HasBlob(c.file, c.name)
        BY <2>1, <2>2, <2>3, <2>5, <3>3, <4>2 DEF StoreFinds
      <4>3. ASSUME command.action = "rmFile"
            PROVE  HasBlob(c.file, c.name)
        <5>1. RmCalls
          BY <2>3, <2>5, <4>3 DEF RmProgress
        <5>2. c.file = command.file /\ HasBlob(command.file, c.name)
          BY <2>1, <2>2, <3>3, <5>1 DEF RmCalls
        <5> QED
          BY <5>2
      <4>4. \/ RemovedThrough(c.file, c.name)'
            \/ /\ command.action \notin {"store", "rmFile"}
               /\ c.name \notin VisibleNames' \cup Live(c.file)'
        BY <3>1, <4>1, <4>2, <4>3
        DEF RemovedThrough, HasBlob, GetBlobNames, VisibleNames, Live, tables
      <4> QED
        BY <2>2, <3>1, <3>3, <4>4 DEF ExceptionsExplained, RemovedThrough, VisibleNames, Live
    <3> QED
      BY <2>5, <3>2, <3>3 DEF Refused
  <2>6. CASE disturbed
    BY <2>2, <2>6 DEF ExceptionsExplained
  <2>7. failed' = failed \/ Refused(c)
    BY <1>2, <2>1, CallEnds DEF Fulfilled, Returns, NotFound, FileListed
  <2> QED
    BY <2>4, <2>5, <2>6, <2>7
<1>3. CASE Others
  BY <1>3, OthersCases DEF ExceptionsExplained
<1>4. CASE UNCHANGED vars
  BY <1>4 DEF vars, tables, ExceptionsExplained, RemovedThrough, VisibleNames, Live, NameTaken
<1> QED
  BY <1>1, <1>2, <1>3, <1>4 DEF ClientNext

\* The types of the rest.
LEMMA TypesKept ==
  ASSUME ClientTypeOK, InOrder(todo), [ClientNext]_vars
  PROVE  ClientTypeOK'
<1>1. DataTyped
  BY DEF ClientTypeOK, DataTyped
<1>2. DataStep
  BY KindsOfStep DEF DataStep
<1>3. DataTyped'
  BY <1>1, <1>2, DataTypedKept
<1>4. todo' \in Seq(Call) /\ InOrder(todo)'
  BY InOrderKept
<1>5. todo' # << >> /\ Head(todo').do # "open" => Head(todo').file \in DOMAIN buffer'
  <2>1. ASSUME todo' # << >>
        PROVE  1 \in DOMAIN todo' /\ Head(todo') = todo'[1]
    <3>1. PICK s : s = todo'
      OBVIOUS
    <3> QED
      BY <1>4, <2>1, <3>1, TailOfCalls
  <2>2. ASSUME NEW s, s = todo', 1 \in DOMAIN s, s[1].do # "open"
        PROVE  s[1].file \in DOMAIN buffer'
    <3>1. 1 .. 1 - 1 = {}
      OBVIOUS
    <3> QED
      BY <1>4, <2>2, <3>1 DEF InOrder, WillBeOpen
  <2> QED
    BY <2>1, <2>2
<1>6. /\ modified' \subseteq Name
      /\ command' = None \/ command' \in Action
      /\ failed' \in Call \cup {None} /\ disturbed' \in BOOLEAN /\ left' \in 0 .. MaxCommands
  <2>0. /\ modified \subseteq Name
        /\ command = None \/ command \in Action
        /\ failed \in Call \cup {None} /\ disturbed \in BOOLEAN /\ left \in 0 .. MaxCommands
    BY DEF ClientTypeOK
  <2>1. ASSUME NEW act \in Commands, Begin(act)
        PROVE  /\ UNCHANGED <<modified, failed>> /\ command' \in Action
               /\ disturbed' \in BOOLEAN /\ left' \in 0 .. MaxCommands
    <3>1. act \in Action
      BY CommandsTyped
    <3>2. left > 0 /\ left' = left - 1
      BY <2>1 DEF Begin
    <3>3. left' \in 0 .. MaxCommands
      BY <2>0, <3>2, ClientAssumption
    <3> QED
      BY <2>1, <3>1, <3>3 DEF Begin
  <2>2. CASE Continue
    <3>1. PICK c, t : c = call /\ t = todo
      OBVIOUS
    <3>2. /\ c \in Call /\ c.name \in Name
          /\ UNCHANGED <<command, disturbed, left>>
      BY <2>2, <3>1, FirstCall
    <3>3. failed' = failed \/ failed' = c
      BY <2>2, <3>1, CallEnds DEF Fulfilled, Returns, NotFound, FileListed, Refused
    <3>4. modified' = modified \/ modified' = modified \cup {c.name}
      BY <2>2, <3>1
      DEF Continue, GetFile, CheckBlob, AddBlob, GetBlob, RemoveFile, RemoveBlob, UseContents,
          WriteBlob, AddTriple, Throws
    <3> QED
      BY <2>0, <3>2, <3>3, <3>4
  <2>3. CASE Others
    BY <2>0, <2>3, OthersCases
  <2>4. CASE UNCHANGED vars
    BY <2>0, <2>4 DEF vars
  <2> QED
    BY <2>0, <2>1, <2>2, <2>3, <2>4 DEF ClientNext
<1> QED
  BY <1>3, <1>4, <1>5, <1>6 DEF ClientTypeOK, DataTyped

-----------------------------------------------------------------------------
(* The invariant.                                                          *)

\* It holds when the session begins.
LEMMA InvAtFirst ==
  ASSUME ClientInit
  PROVE  ClientInv
<1>1. /\ triples = {} /\ buffer = << >> /\ modified = {} /\ journal = << >>
      /\ nextBlob = 1 /\ nextTriple = 0 /\ command = None /\ todo = << >> /\ failed = None
      /\ disturbed = FALSE /\ left = MaxCommands
  BY DEF ClientInit
<1>2. DOMAIN buffer = {} /\ DOMAIN journal = {} /\ DOMAIN todo = {}
  BY <1>1
<1>3. ASSUME NEW r \in rows
      PROVE  r \in Row /\ r.id = 0
  <2>1. r \in [id : {0}, name : {1}, visible : {TRUE}, by : {None}]
    BY DEF ClientInit
  <2>2. r = [id |-> r.id, name |-> r.name, visible |-> r.visible, by |-> r.by]
    BY <2>1
  <2>3. r.id = 0 /\ r.name = 1 /\ r.visible = TRUE /\ r.by = None
    BY <2>1
  <2>4. 1 \in Name
    BY ClientAssumption
  <2>5. r.visible \in BOOLEAN
    <3>1. r.visible \in {TRUE}
      BY <2>1
    <3> QED
      BY <3>1, Zenon
  <2>6. r \in Row
    BY <2>2, <2>3, <2>4, <2>5 DEF Row
  <2> QED
    BY <2>3, <2>6
<1>4. ASSUME NEW r \in rows, NEW q \in rows
      PROVE  r = q
  <2> DEFINE R == [id : {0}, name : {1}, visible : {TRUE}, by : {None}]
  <2>1. \A x, y \in R : x = y
    <3>1. ASSUME NEW x \in R
          PROVE  /\ x = [id |-> x.id, name |-> x.name, visible |-> x.visible, by |-> x.by]
                 /\ x.id = 0 /\ x.name = 1 /\ x.by = None
      OBVIOUS
    <3>2. ASSUME NEW x \in R, NEW y \in R
          PROVE  x.visible = y.visible
      OBVIOUS
    <3> HIDE DEF R
    <3> QED
      BY <3>1, <3>2
  <2> QED
    BY <2>1 DEF ClientInit
<1>5. ClientTypeOK
  <2>1. MaxBlob \in Nat \ {0} /\ MaxTriple \in Nat /\ MaxCommands \in Nat
    BY ClientAssumption
  <2>2. nextBlob \in 0 .. MaxBlob /\ nextTriple \in 0 .. MaxTriple /\ left \in 0 .. MaxCommands
    BY <1>1, <2>1
  <2>3. journal \in Seq(JournalRow) /\ todo \in Seq(Call)
    BY <1>1
  <2> QED
    BY <1>1, <1>2, <1>3, <2>2, <2>3 DEF ClientTypeOK
<1>6. IdsKeyed
  BY <1>1, <1>3, <1>4 DEF IdsKeyed
<1>7. /\ ObjectsKeyed /\ JournalMet /\ TriplesMet /\ RemovedDead /\ TriplesKnown
      /\ RemovalIsFinal
  BY <1>1, <1>2
  DEF ObjectsKeyed, JournalMet, TriplesMet, RemovedDead, TriplesKnown, RemovalIsFinal
<1>8. InOrder(todo) /\ CallsWanted /\ AddsMissing /\ StoreFinds /\ RmProgress
  BY <1>1, <1>2 DEF InOrder, CallsWanted, AddsMissing, StoreFinds, RmProgress
<1>9. ExceptionsExplained
  BY <1>1 DEF ExceptionsExplained
<1> QED
  BY <1>5, <1>6, <1>7, <1>8, <1>9 DEF ClientInv

\* And every step keeps it.
LEMMA InvKept ==
  ASSUME ClientInv, [ClientNext]_vars
  PROVE  ClientInv'
<1>1. /\ ClientTypeOK /\ IdsKeyed /\ ObjectsKeyed
      /\ JournalMet /\ TriplesMet /\ RemovedDead /\ TriplesKnown
      /\ InOrder(todo) /\ CallsWanted /\ AddsMissing /\ StoreFinds /\ RmProgress
      /\ ExceptionsExplained /\ RemovalIsFinal
  BY DEF ClientInv
<1>2. DataTyped
  BY <1>1 DEF ClientTypeOK, DataTyped
<1>3. DataStep
  BY <1>1, KindsOfStep DEF DataStep
<1>4. ClientTypeOK'
  BY <1>1, TypesKept
<1>5. IdsKeyed' /\ ObjectsKeyed'
  BY <1>1, <1>2, <1>3, IdsKeyedKept, ObjectsKeyedKept
<1>6. JournalMet' /\ TriplesMet' /\ RemovedDead' /\ TriplesKnown' /\ RemovalIsFinal'
  BY <1>1, <1>2, <1>3, JournalMetKept, TriplesMetKept, RemovedDeadKept, TriplesKnownKept,
     RemovalIsFinalKept
<1>7. InOrder(todo)' /\ CallsWanted' /\ AddsMissing' /\ StoreFinds' /\ RmProgress'
  BY <1>1, InOrderKept, CallsWantedKept, AddsMissingKept, StoreFindsKept, RmProgressKept
<1>8. ExceptionsExplained'
  BY <1>1, ExceptionsExplainedKept
<1> QED
  BY <1>4, <1>5, <1>6, <1>7, <1>8 DEF ClientInv

\* The invariant the following theorems rest on: what the File and Blob objects, the
\* journal and the tables have to do with each other after every call of an action.
THEOREM ClientInvariant == ClientSpec => []ClientInv
<1>1. ClientInit => ClientInv
  BY InvAtFirst
<1>2. ClientInv /\ [ClientNext]_vars => ClientInv'
  BY InvKept
<1> QED
  BY <1>1, <1>2, PTL DEF ClientSpec

\* Whatever commands the shell is given, the objects in the buffers of Environment and
\* File, the journal and the calls an action has still to make are well-formed, and no
\* action calls a File it has not opened.
THEOREM TypesHold == ClientSpec => []ClientTypeOK
<1>1. ClientInv => ClientTypeOK
  BY DEF ClientInv
<1> QED
  BY <1>1, ClientInvariant, PTL

\* Where getBlob, addBlob or the destructors throw, it is for a reason: undisturbed, a
\* store and the removal of a file throw only because of a blob removed earlier or a
\* row nobody can see; the other actions only where nothing is there.
THEOREM ExceptionsHaveReasons == ClientSpec => []ExceptionsExplained
<1>1. ClientInv => ExceptionsExplained
  BY DEF ClientInv
<1> QED
  BY <1>1, ClientInvariant, PTL

\* rm without a name (File::removeFile) empties the file, however many blobs it has.
THEOREM RmEmpties == ClientSpec => []RmEmptiesFile
<1>1. ASSUME ClientInv
      PROVE  RmEmptiesFile
  <2>1. ASSUME command # None, command.action = "rmFile", todo = << >>, failed = None,
               ~disturbed
        PROVE  Live(command.file) = {} /\ VisibleNames \subseteq DOMAIN buffer[command.file]
    <3>1. DOMAIN todo = {}
      BY <2>1
    <3>2. \A n \in Left(command.file) :
            \E k \in DOMAIN todo : Removes(todo[k], command.file, n)
      BY <1>1, <2>1, <3>1 DEF ClientInv, RmProgress, Listed
    <3> QED
      BY <3>1, <3>2 DEF Left
  <2> QED
    BY <2>1 DEF RmEmptiesFile
<1> QED
  BY <1>1, ClientInvariant, PTL

\* What a session has said about a blob (Blob::addTriple) it reads back through the
\* same File, once (Blob::getTriples).
THEOREM TriplesAreReadBack == ClientSpec => []TriplesReadBack
<1>1. ASSUME ClientInv
      PROVE  TriplesReadBack
  <2>1. DataTyped
    BY <1>1 DEF ClientInv, ClientTypeOK, DataTyped
  <2> QED
    BY <1>1, <2>1, ReadBack DEF ClientInv
<1> QED
  BY <1>1, ClientInvariant, PTL

\* After Blob::remove nothing is journaled of the blob through the File it was removed
\* through: neither a store nor a triple nor a second removal.
THEOREM RemovalsAreFinal == ClientSpec => []RemovalIsFinal
<1>1. ClientInv => RemovalIsFinal
  BY DEF ClientInv
<1> QED
  BY <1>1, ClientInvariant, PTL
=============================================================================
