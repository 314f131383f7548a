-------------------------- MODULE ConnectionsSafety --------------------------
(***************************************************************************)
(* Connections keeps its properties for any number of processes, names and *)
(* operations, with both drivers.  ConnectionInv says what the code relies *)
(* on: an operation has a plan (its statements, and the ids drawn for the  *)
(* inserts in it), transactions go with the place of a process, one        *)
(* connection writes, every view of ids is full and covers the older ones, *)
(* and rows that must be single are so in every view.                      *)
(***************************************************************************)
EXTENDS Connections, SequenceTheorems, FiniteSetTheorems, TLAPS

\* What every operation ends with.
Endings == {<< >>, AddRow("journal"), AddRow("handle"), AddRow("journal") \o AddRow("handle")}

\* Tables an operation draws one id of at a time.
SingleTables == {"session", "file", "metadata", "journal", "handle"}

\* The statements an operation has left while it holds ids of these tables, the
\* last one drawn first.
Plan(todo, held) ==
  \E rest \in Endings :
    \/ held = << >> /\ todo = rest
    \/ held = << >> /\ \E t \in SingleTables : todo = AddRow(t) \o rest
    \/ held = << >> /\ todo = <<Draw("blob"), Find("content_type"), InsertInto("blob")>> \o rest
    \/ \E t \in SingleTables : held = <<t>> /\ todo = <<InsertInto(t)>> \o rest
    \/ held = <<"blob">> /\ todo = <<Find("content_type"), InsertInto("blob")>> \o rest
    \/ held = <<"blob">> /\ todo = <<InsertInto("blob")>> \o rest
    \/ held = <<"blob">> /\ todo = AddRow("content_type") \o (<<InsertInto("blob")>> \o rest)
    \/ /\ held = <<"content_type", "blob">>
       /\ todo = <<InsertInto("content_type"), InsertInto("blob")>> \o rest

\* The same for a lookup in t.
LookupPlan(t, todo, held) ==
  \/ held = << >> /\ todo = AddRow(t)
  \/ held = <<t>> /\ todo = <<InsertInto(t)>>

\* What the first statement of a plan is, and the plan after it.
PlanGoesOn(todo, held) ==
  /\ todo \in Seq(Statement)
  /\ held \in {<< >>, <<"blob">>, <<"content_type", "blob">>} \cup {<<t>> : t \in SingleTables}
  /\ Head(todo).do = "draw" =>
       /\ Plan(Tail(todo), <<Head(todo).table>> \o held)
       /\ \/ held = << >> /\ Head(todo).table \in SingleTables \cup {"blob"}
          \/ held = <<"blob">> /\ Head(todo).table = "content_type"
       /\ Tail(todo) # << >>
       /\ Head(Tail(todo)) \in {InsertInto(Head(todo).table), Find("content_type")}
  /\ Head(todo).do = "insert" =>
       /\ \/ /\ held = <<Head(todo).table>> /\ Plan(Tail(todo), << >>)
             /\ Head(todo).table \in SingleTables \cup {"blob"}
          \/ /\ held = <<"content_type", "blob">> /\ Head(todo).table = "content_type"
             /\ Plan(Tail(todo), <<"blob">>)
       /\ Tail(todo) # << >> => Head(Tail(todo)).table # "content_type"
  /\ Head(todo).do = "find" =>
       /\ held = <<"blob">> /\ Head(todo).table = "content_type"
       /\ Plan(Tail(todo), held)
       /\ Plan(AddRow("content_type") \o Tail(todo), held)
       /\ Tail(todo) # << >> /\ Head(Tail(todo)) = InsertInto("blob")

\* The plans of both kinds.
PlanOf(scoped, todo, held) ==
  IF scoped THEN Plan(todo, held) ELSE \E t \in Lookups : LookupPlan(t, todo, held)

\* A draw of a table none is held of, and what it is for.
DrawGoesOn(scoped, todo, held) ==
  /\ PlanOf(scoped, Tail(todo), <<Head(todo).table>> \o held)
  /\ Tail(todo) # << >>
  /\ \A i \in 1 .. Len(held) : held[i] # Head(todo).table
  /\ \/ Head(Tail(todo)).table = Head(todo).table
     \/ Head(Tail(todo)).do = "find" /\ scoped

\* An insert uses the id drawn last.
InsertGoesOn(scoped, todo, held) ==
  /\ held # << >> /\ held[1] = Head(todo).table
  /\ \A i \in 2 .. Len(held) : held[i] # Head(todo).table
  /\ Tail(todo) # << >> =>
       /\ scoped /\ PlanOf(scoped, Tail(todo), Tail(held))
       /\ Head(Tail(todo)).table # "content_type"

\* The content type is looked for with the id of the blob drawn.
FindGoesOn(scoped, todo, held) ==
  /\ scoped /\ held = <<"blob">> /\ Head(todo).table = "content_type"
  /\ PlanOf(scoped, Tail(todo), held)
  /\ PlanOf(scoped, AddRow("content_type") \o Tail(todo), held)
  /\ Tail(todo) # << >> /\ Head(Tail(todo)).table = "blob"

\* A plan that has something left to do.
GoesOn(scoped, todo, held) ==
  /\ todo \in Seq(Statement) /\ Head(todo) \in Statement /\ Tail(todo) \in Seq(Statement)
  /\ held \in Seq(Tables) /\ Head(todo).table \in Tables
  /\ Head(todo).table \in {"prefix", "type"} <=> ~scoped
  /\ Head(todo).do = "draw" => DrawGoesOn(scoped, todo, held)
  /\ Head(todo).do = "insert" => InsertGoesOn(scoped, todo, held)
  /\ Head(todo).do = "find" => FindGoesOn(scoped, todo, held)

-----------------------------------------------------------------------------
(* The inductive invariant. *)

\* Held by one connection at a time.
Exclusive == {"reserved", "pending"}

\* The types of the variables, for any bounds.
ConnectionTypes ==
  /\ driver \in {"sqlite3", "mysql"} \cap Drivers
  /\ db \in Database
  /\ at \in [Process -> Places]
  /\ job \in [Process -> Job]
  /\ tx \in [Process -> Transaction]
  /\ left \in [Process -> 0 .. MaxTasks]
  /\ told \subseteq Row
  /\ refused \subseteq Process

\* A connection holds nothing, or what a refused commit has left.
Rests(p) == tx[p] = NoTransaction \/ (p \in refused /\ tx[p].lock = "pending")

\* What goes with an open transaction.
TransactionSound(p) ==
  /\ ~tx[p].open => tx[p] = NoTransaction
  /\ tx[p].lock \notin Exclusive => tx[p].wrote = Nothing
  /\ tx[p].read # {} => driver = "mysql" /\ \E d \in tx[p].read : tx[p].read = {d}
  /\ tx[p].lock \in {"shared", "pending"} => driver = "sqlite3"
  /\ \A r \in tx[p].wrote.rows : r.by = p

\* What goes with the place of a process.
PlaceSound(p) ==
  /\ at[p] \in {"closed", "idle"} => Rests(p)
  /\ at[p] \in {"work", "bump"} /\ ~job[p].scoped => Rests(p)
  /\ at[p] \in {"work", "bump"} /\ job[p].scoped => tx[p].open
  /\ at[p] \in {"commit", "unwind"} => job[p].scoped /\ tx[p].open
  /\ at[p] = "work" /\ tx[p].open /\ job[p].drawn # << >> => tx[p].lock \in Exclusive
  /\ at[p] = "bump" /\ tx[p].open /\ driver = "sqlite3" => tx[p].lock # "none"

\* At most one connection has a lock to write.
OneWriter ==
  \A p, q \in Process :
    tx[p].lock \in Exclusive /\ tx[q].lock \in Exclusive => p = q

\* The keys of ids are those from 0 on, one for each table.
Full(ids) ==
  \E n \in Nat : /\ \A c \in ids : c.id < n
                 /\ \A k \in 0 .. n - 1 : \E c \in ids : c.id = k

\* No counter of old is missing from ids, or ahead of it there.
Covers(ids, old) ==
  \A c \in old : \E d \in ids : d.id = c.id /\ d.table = c.table /\ c.next <= d.next

\* One counter for each table, its key unique, ahead of the ids in the table.
Counted(d) ==
  /\ \A b, c \in d.ids : b.id = c.id \/ b.table = c.table => b = c
  /\ Full(d.ids)
  /\ \A r \in d.rows : \E c \in d.ids : c.table = r.table /\ r.id < c.next

\* The counters as one connection sees them: a snapshot knows no counter that
\* is not there, and none ahead of it.
CountersOf(p) ==
  /\ Counted(Current(p))
  /\ Full(View(p).ids)
  /\ Covers(Current(p).ids, db.ids)
  /\ \A d \in tx[p].read : Covers(db.ids, d.ids)

CountersSound == Counted(db) /\ \A p \in Process : CountersOf(p)

\* The ids drawn and not yet used; in the midst of drawing one, those before it.
Owned(p) == IF at[p] = "bump" THEN Tail(job[p].drawn) ELSE job[p].drawn

\* The counter of t is ahead of n.
Behind(ids, t, n) == \E c \in ids : c.table = t /\ n < c.next

Reserved(p, t, n) == Behind(Current(p).ids, t, n)

Working(p) == at[p] \in {"work", "bump"}

\* The ids p holds of the tables held.
HeldSound(p, held) ==
  /\ Len(held) = Len(Owned(p))
  /\ \A i \in 1 .. Len(held) : Reserved(p, held[i], Owned(p)[i])
  /\ driver = "sqlite3" /\ job[p].scoped =>
       \A i \in 1 .. Len(held) : \A r \in Current(p).rows :
         r.table = held[i] => r.id # Owned(p)[i]

\* A process at work has a plan, and the ids for it.
PlanSound(p) ==
  Working(p) =>
    /\ job[p].todo # << >>
    /\ at[p] = "bump" => job[p].drawn # << >> /\ Head(job[p].todo).do = "draw"
    /\ \E held \in Seq(Tables) : PlanOf(job[p].scoped, job[p].todo, held) /\ HeldSound(p, held)

\* Between the statements of Connection::nextID.
Drawing(p) ==
  at[p] = "bump" =>
    /\ job[p].entry = None =>
         \E c \in View(p).ids : c.table = Table(p) /\ Head(job[p].drawn) <= c.next
    /\ job[p].entry # None =>
         /\ Head(job[p].drawn) = 0
         /\ \A k \in 0 .. job[p].entry - 1 :
              \E c \in View(p).ids : c.id = k /\ c.table # Table(p)
    /\ driver = "sqlite3" /\ job[p].scoped =>
         \A r \in Current(p).rows : r.table = Table(p) => r.id # Head(job[p].drawn)

\* Committed or not, rows are distinct where the properties say so.
Distinct(d) ==
  /\ driver = "sqlite3" =>
       \A r, s \in d.rows :
         /\ r.table \notin {"prefix", "type"} /\ r.table = s.table /\ r.id = s.id => r = s
         /\ r.table = "content_type" /\ s.table = "content_type" => r = s
  /\ \A r, s \in d.rows :
       /\ r.table \in {"prefix", "type"} /\ r.table = s.table
       /\ r.name = s.name /\ r.by = s.by
       => r = s

\* Nobody but p inserts the name p looks up for p.
NameAbsent(p) ==
  Working(p) /\ ~job[p].scoped =>
    \A r \in Current(p).rows :
      ~(r.table = Table(p) /\ r.name = job[p].name /\ r.by = p)

\* A SQLite transaction that has found no content type still is the only one.
TypeAbsent(p) ==
  /\ Working(p) /\ driver = "sqlite3"
  /\ Table(p) = "content_type" /\ Head(job[p].todo).do # "find"
  => \A r \in Current(p).rows : r.table # "content_type"

RowsOf(p) == Distinct(Current(p)) /\ NameAbsent(p) /\ TypeAbsent(p)

RowsSound == Distinct(db) /\ \A p \in Process : RowsOf(p)

\* The inductive invariant of ConnectionsSpec.
ConnectionInv ==
  /\ ConnectionTypes
  /\ \A p \in Process : TransactionSound(p) /\ PlaceSound(p) /\ PlanSound(p) /\ Drawing(p)
  /\ OneWriter /\ CountersSound /\ RowsSound /\ ReportedIsCommitted

-----------------------------------------------------------------------------
(* Plans. *)

\* Heads and tails of a concatenation.
LEMMA Conses ==
  ASSUME NEW S, NEW x \in S, NEW s \in Seq(S)
  PROVE  /\ <<x>> \o s \in Seq(S)
         /\ <<x>> \o s # << >>
         /\ Head(<<x>> \o s) = x
         /\ Tail(<<x>> \o s) = s
<1>1. <<x>> \o s \in Seq(S) /\ <<x>> \o s # << >> /\ Head(<<x>> \o s) = x
  OBVIOUS
<1>2. Tail(<<x>> \o s) = s
  OBVIOUS
<1> QED BY <1>1, <1>2

\* Two statements before others, one at a time.
LEMMA Cons2 ==
  ASSUME NEW S, NEW x \in S, NEW y \in S, NEW s \in Seq(S)
  PROVE  <<x, y>> \o s = <<x>> \o (<<y>> \o s)
<1> DEFINE a == <<x, y>> \o s
           b == <<x>> \o (<<y>> \o s)
<1>1. a \in Seq(S) /\ b \in Seq(S) /\ Len(a) = Len(b)
  OBVIOUS
<1>2. \A i \in 1 .. Len(a) : a[i] = b[i]
  OBVIOUS
<1> HIDE DEF a, b
<1>3. a = b
  BY <1>1, <1>2, SeqEqual
<1> QED
  BY <1>3 DEF a, b

\* Three statements before others, one at a time.
LEMMA Cons3 ==
  ASSUME NEW S, NEW x \in S, NEW y \in S, NEW z \in S, NEW s \in Seq(S)
  PROVE  <<x, y, z>> \o s = <<x>> \o (<<y>> \o (<<z>> \o s))
<1> DEFINE a == <<x, y, z>> \o s
           b == <<x>> \o (<<y, z>> \o s)
<1>1. a \in Seq(S) /\ b \in Seq(S) /\ Len(a) = Len(b)
  OBVIOUS
<1>2. \A i \in 1 .. Len(a) : a[i] = b[i]
  OBVIOUS
<1> HIDE DEF a, b
<1>3. a = b
  BY <1>1, <1>2, SeqEqual
<1>4. <<y, z>> \o s = <<y>> \o (<<z>> \o s)
  BY Cons2
<1> QED
  BY <1>3, <1>4 DEF a, b

\* The statements are of their type.
LEMMA StatementFacts ==
  \A t \in Tables : /\ Draw(t) \in Statement /\ Find(t) \in Statement
                    /\ InsertInto(t) \in Statement
                    /\ AddRow(t) \in Seq(Statement)
                    /\ Draw(t).do = "draw" /\ Draw(t).table = t
                    /\ Find(t).do = "find" /\ Find(t).table = t
                    /\ InsertInto(t).do = "insert" /\ InsertInto(t).table = t
BY DEF Draw, Find, InsertInto, AddRow, Statement

\* A statement before others.
Cons(x, s) == <<x>> \o s

\* Head and tail of a plan with a statement put before it.
LEMMA ConsFacts ==
  \A x \in Statement, s \in Seq(Statement) :
    /\ Cons(x, s) \in Seq(Statement) /\ Cons(x, s) # << >>
    /\ Head(Cons(x, s)) = x /\ Tail(Cons(x, s)) = s
<1>1. ASSUME NEW x \in Statement, NEW s \in Seq(Statement)
      PROVE  /\ <<x>> \o s \in Seq(Statement) /\ <<x>> \o s # << >>
             /\ Head(<<x>> \o s) = x /\ Tail(<<x>> \o s) = s
  BY Conses
<1> QED
  BY <1>1 DEF Cons

\* The concatenations of Statements, one statement at a time.
LEMMA ConsForms ==
  ASSUME NEW x \in Statement, NEW y \in Statement, NEW z \in Statement,
         NEW s \in Seq(Statement)
  PROVE  /\ <<z>> \o s = Cons(z, s)
         /\ <<y, z>> \o s = Cons(y, Cons(z, s))
         /\ <<x, y, z>> \o s = Cons(x, Cons(y, Cons(z, s)))
<1>1. <<y, z>> \o s = <<y>> \o (<<z>> \o s)
  BY Cons2
<1>2. <<x, y, z>> \o s = <<x>> \o (<<y>> \o (<<z>> \o s))
  BY Cons3
<1> QED
  BY <1>1, <1>2 DEF Cons

\* The two statements of AddRow, one at a time.
LEMMA AddRowThen ==
  ASSUME NEW t \in Tables, NEW s \in Seq(Statement)
  PROVE  AddRow(t) \o s = Cons(Draw(t), Cons(InsertInto(t), s))
<1>1. Draw(t) \in Statement /\ InsertInto(t) \in Statement
  BY StatementFacts
<1>2. <<Draw(t), InsertInto(t)>> \o s = Cons(Draw(t), Cons(InsertInto(t), s))
  BY <1>1, ConsForms
<1> QED
  BY <1>2 DEF AddRow

\* What operations end with are rows added one after the other.
LEMMA EndingFacts ==
  /\ Endings \subseteq Seq(Statement)
  /\ \A rest \in Endings : rest # << >> =>
       \E t \in SingleTables, more \in Endings : rest = AddRow(t) \o more
<1>1. "journal" \in Tables /\ "handle" \in Tables
  BY DEF Tables
<1>2. /\ AddRow("journal") \in Seq(Statement) /\ AddRow("handle") \in Seq(Statement)
      /\ AddRow("journal") \o AddRow("handle") \in Seq(Statement)
      /\ << >> \in Seq(Statement)
  <2>1. AddRow("journal") \in Seq(Statement) /\ AddRow("handle") \in Seq(Statement)
    BY <1>1, StatementFacts
  <2> QED
    BY <2>1, ConcatProperties
<1>3. /\ AddRow("journal") = AddRow("journal") \o << >>
      /\ AddRow("handle") = AddRow("handle") \o << >>
  BY <1>2, ConcatEmptySeq
<1> QED
  BY <1>2, <1>3 DEF Endings, SingleTables

\* Every operation of Statements is a plan, holding no ids.
LEMMA PlanStarts ==
  ASSUME NEW op \in Operations
  PROVE  Plan(Statements[op], << >>)
<1> DEFINE J == AddRow("journal")
           H == AddRow("handle")
<1>1. /\ J \in Seq(Statement) /\ H \in Seq(Statement)
      /\ AddRow("file") \in Seq(Statement)
      /\ <<Draw("blob"), Find("content_type"), InsertInto("blob")>> \in Seq(Statement)
  BY DEF Draw, Find, InsertInto, AddRow, Statement, Tables
<1>2. /\ (AddRow("file") \o J) \o H = AddRow("file") \o (J \o H)
      /\ (<<Draw("blob"), Find("content_type"), InsertInto("blob")>> \o J) \o H
           = <<Draw("blob"), Find("content_type"), InsertInto("blob")>> \o (J \o H)
  BY <1>1, ConcatAssociative
<1>3. \A t \in Tables : AddRow(t) \o << >> = AddRow(t)
  BY StatementFacts, ConcatEmptySeq
<1>4. << >> \in Endings /\ J \in Endings /\ H \in Endings /\ J \o H \in Endings
  BY DEF Endings
<1>5. /\ "session" \in Tables \cap SingleTables /\ "file" \in SingleTables
      /\ "metadata" \in SingleTables
  BY DEF Tables, SingleTables
<1>6. op \in {"startSession", "createFile", "getFile", "addBlob", "removeBlob", "addTriple"}
  BY ConnectionsAssumption
<1>7. CASE op = "startSession"
  BY <1>3, <1>4, <1>5, <1>7 DEF Plan, Statements
<1>8. CASE op = "createFile"
  BY <1>2, <1>4, <1>5, <1>8 DEF Plan, Statements
<1>9. CASE op = "getFile"
  BY <1>4, <1>9 DEF Plan, Statements
<1>10. CASE op = "addBlob"
  BY <1>2, <1>4, <1>10 DEF Plan, Statements
<1>11. CASE op = "removeBlob"
  BY <1>4, <1>11 DEF Plan, Statements
<1>12. CASE op = "addTriple"
  BY <1>4, <1>5, <1>12 DEF Plan, Statements, AddRow
<1> QED
  BY <1>6, <1>7, <1>8, <1>9, <1>10, <1>11, <1>12

\* A plan begins with a draw, a find or an insert of the id drawn last, and
\* what remains is a plan.
LEMMA PlanStep ==
  ASSUME NEW todo, NEW held, Plan(todo, held), todo # << >>
  PROVE  PlanGoesOn(todo, held)
<1>0. /\ SingleTables \subseteq Tables
      /\ {"blob", "content_type"} \subseteq Tables
  BY DEF SingleTables, Tables
<1>1. PICK rest \in Endings :
        \/ held = << >> /\ todo = rest
        \/ held = << >> /\ \E t \in SingleTables : todo = AddRow(t) \o rest
        \/ held = << >> /\ todo = <<Draw("blob"), Find("content_type"), InsertInto("blob")>> \o rest
        \/ \E t \in SingleTables : held = <<t>> /\ todo = <<InsertInto(t)>> \o rest
        \/ held = <<"blob">> /\ todo = <<Find("content_type"), InsertInto("blob")>> \o rest
        \/ held = <<"blob">> /\ todo = <<InsertInto("blob")>> \o rest
        \/ held = <<"blob">> /\ todo = AddRow("content_type") \o (<<InsertInto("blob")>> \o rest)
        \/ /\ held = <<"content_type", "blob">>
           /\ todo = <<InsertInto("content_type"), InsertInto("blob")>> \o rest
  BY DEF Plan
<1>2. rest \in Seq(Statement)
  BY EndingFacts
<1> DEFINE D == Draw("blob")
           F == Find("content_type")
           I == InsertInto("blob")
           DC == Draw("content_type")
           IC == InsertInto("content_type")
<1>3. /\ D \in Statement /\ D.do = "draw" /\ D.table = "blob"
      /\ F \in Statement /\ F.do = "find" /\ F.table = "content_type"
      /\ I \in Statement /\ I.do = "insert" /\ I.table = "blob"
      /\ DC \in Statement /\ DC.do = "draw" /\ DC.table = "content_type"
      /\ IC \in Statement /\ IC.do = "insert" /\ IC.table = "content_type"
  BY <1>0, StatementFacts
<1>4. /\ <<D, F, I>> \o rest = Cons(D, Cons(F, Cons(I, rest)))
      /\ <<F, I>> \o rest = Cons(F, Cons(I, rest))
      /\ <<I>> \o rest = Cons(I, rest)
      /\ AddRow("content_type") \o Cons(I, rest) = Cons(DC, Cons(IC, Cons(I, rest)))
      /\ <<IC, I>> \o rest = Cons(IC, Cons(I, rest))
  <2>1. Cons(I, rest) \in Seq(Statement)
    BY <1>2, <1>3, ConsFacts
  <2>2. AddRow("content_type") \o Cons(I, rest) = Cons(DC, Cons(IC, Cons(I, rest)))
    BY <1>0, <2>1, AddRowThen
  <2>3. ASSUME NEW x \in Statement, NEW y \in Statement, NEW z \in Statement
        PROVE  /\ <<z>> \o rest = Cons(z, rest)
               /\ <<y, z>> \o rest = Cons(y, Cons(z, rest))
               /\ <<x, y, z>> \o rest = Cons(x, Cons(y, Cons(z, rest)))
    BY <1>2, ConsForms
  <2>4. D \in Statement /\ F \in Statement /\ I \in Statement /\ IC \in Statement
    BY <1>3
  <2> HIDE DEF D, F, I, IC
  <2>5. /\ <<I>> \o rest = Cons(I, rest)
        /\ <<F, I>> \o rest = Cons(F, Cons(I, rest))
        /\ <<D, F, I>> \o rest = Cons(D, Cons(F, Cons(I, rest)))
        /\ <<IC, I>> \o rest = Cons(IC, Cons(I, rest))
    BY <2>3, <2>4
  <2> QED
    BY <2>2, <2>5
<1>5. /\ Cons(I, rest) \in Seq(Statement)
      /\ Cons(F, Cons(I, rest)) \in Seq(Statement)
      /\ Cons(IC, Cons(I, rest)) \in Seq(Statement)
  BY <1>2, <1>3, ConsFacts
<1>15. rest # << >> => Head(rest).table # "content_type"
  <2> SUFFICES ASSUME rest # << >> PROVE Head(rest).table # "content_type"
    OBVIOUS
  <2>1. PICK t \in SingleTables, more \in Endings : rest = AddRow(t) \o more
    BY EndingFacts
  <2>2. more \in Seq(Statement) /\ t \in Tables /\ t # "content_type"
    BY <1>0, EndingFacts DEF SingleTables
  <2>3. /\ Draw(t) \in Statement /\ InsertInto(t) \in Statement /\ Draw(t).table = t
    BY <2>2, StatementFacts
  <2>4. rest = Cons(Draw(t), Cons(InsertInto(t), more))
    BY <2>1, <2>2, AddRowThen
  <2>5. Head(rest) = Draw(t)
    BY <2>2, <2>3, <2>4, ConsFacts
  <2> QED
    BY <2>2, <2>3, <2>5
<1>6. ASSUME held = << >>, NEW t \in SingleTables, NEW more \in Endings,
             todo = AddRow(t) \o more
      PROVE  PlanGoesOn(todo, held)
  <2>1. more \in Seq(Statement) /\ t \in Tables
    BY <1>0, EndingFacts
  <2>2. /\ Draw(t) \in Statement /\ InsertInto(t) \in Statement
        /\ Draw(t).do = "draw" /\ Draw(t).table = t
    BY <2>1, StatementFacts
  <2>3. Cons(InsertInto(t), more) = <<InsertInto(t)>> \o more
    BY DEF Cons
  <2>4. todo = Cons(Draw(t), Cons(InsertInto(t), more))
    BY <1>6, <2>1, AddRowThen
  <2>5. /\ todo \in Seq(Statement) /\ Head(todo) = Draw(t) /\ Tail(todo) = Cons(InsertInto(t), more)
        /\ Tail(todo) # << >> /\ Head(Tail(todo)) = InsertInto(t)
    BY <2>1, <2>2, <2>4, ConsFacts
  <2>6. Plan(Tail(todo), <<t>>)
    BY <2>3, <2>5 DEF Plan
  <2>7. <<t>> \o held = <<t>>
    BY <1>6
  <2> QED
    BY <1>6, <2>2, <2>5, <2>6, <2>7 DEF PlanGoesOn
<1>7. CASE held = << >> /\ todo = rest
  BY <1>6, <1>7, EndingFacts
<1>8. CASE held = << >> /\ \E t \in SingleTables : todo = AddRow(t) \o rest
  BY <1>6, <1>8
<1>9. CASE held = << >> /\ todo = <<D, F, I>> \o rest
  <2>0. todo = Cons(D, Cons(F, Cons(I, rest)))
    BY <1>4, <1>9
  <2>1. /\ todo \in Seq(Statement) /\ Head(todo) = D /\ Tail(todo) = Cons(F, Cons(I, rest))
        /\ Tail(todo) # << >> /\ Head(Tail(todo)) = F
    BY <1>3, <1>5, <2>0, ConsFacts
  <2>2. Plan(Tail(todo), <<"blob">>)
    BY <1>4, <2>1 DEF Plan
  <2>3. <<"blob">> \o held = <<"blob">>
    BY <1>9
  <2> QED
    BY <1>3, <1>9, <2>1, <2>2, <2>3 DEF PlanGoesOn
<1>10. CASE \E t \in SingleTables : held = <<t>> /\ todo = <<InsertInto(t)>> \o rest
  <2>1. PICK t \in SingleTables : held = <<t>> /\ todo = <<InsertInto(t)>> \o rest
    BY <1>10
  <2>2. /\ InsertInto(t) \in Statement
        /\ InsertInto(t).do = "insert" /\ InsertInto(t).table = t
    BY <1>0, StatementFacts
  <2>3. todo = Cons(InsertInto(t), rest)
    BY <2>1 DEF Cons
  <2>4. todo \in Seq(Statement) /\ Head(todo) = InsertInto(t) /\ Tail(todo) = rest
    BY <1>2, <2>2, <2>3, ConsFacts
  <2>5. Plan(Tail(todo), << >>)
    BY <2>4 DEF Plan
  <2> QED
    BY <1>15, <2>1, <2>2, <2>4, <2>5 DEF PlanGoesOn
<1>11. CASE held = <<"blob">> /\ todo = <<F, I>> \o rest
  <2>0. todo = Cons(F, Cons(I, rest))
    BY <1>4, <1>11
  <2>1. /\ todo \in Seq(Statement) /\ Head(todo) = F /\ Tail(todo) = Cons(I, rest)
        /\ Tail(todo) # << >> /\ Head(Tail(todo)) = I
    BY <1>2, <1>3, <1>5, <2>0, ConsFacts
  <2>2. Plan(Tail(todo), <<"blob">>) /\ Plan(AddRow("content_type") \o Tail(todo), <<"blob">>)
    BY <1>4, <2>1 DEF Plan
  <2> QED
    BY <1>3, <1>11, <2>1, <2>2 DEF PlanGoesOn
<1>12. CASE held = <<"blob">> /\ todo = <<I>> \o rest
  <2>1. todo \in Seq(Statement) /\ Head(todo) = I /\ Tail(todo) = rest
    BY <1>2, <1>3, <1>4, <1>12, ConsFacts
  <2>2. Plan(Tail(todo), << >>)
    BY <2>1 DEF Plan
  <2> QED
    BY <1>3, <1>12, <1>15, <2>1, <2>2 DEF PlanGoesOn
<1>13. CASE held = <<"blob">> /\ todo = AddRow("content_type") \o (<<I>> \o rest)
  <2>0. todo = Cons(DC, Cons(IC, Cons(I, rest)))
    BY <1>4, <1>13
  <2>1. /\ todo \in Seq(Statement) /\ Head(todo) = DC /\ Tail(todo) = <<IC, I>> \o rest
        /\ Tail(todo) # << >> /\ Head(Tail(todo)) = IC
    BY <1>3, <1>4, <1>5, <2>0, ConsFacts
  <2>2. Plan(Tail(todo), <<"content_type", "blob">>)
    BY <2>1 DEF Plan
  <2>3. <<"content_type">> \o held = <<"content_type", "blob">>
    <3> DEFINE a == <<"content_type">> \o <<"blob">>
               b == <<"content_type", "blob">>
    <3>1. a \in Seq(Tables) /\ b \in Seq(Tables) /\ Len(a) = Len(b) /\ Len(b) = 2
      BY <1>0
    <3>2. a[1] = b[1] /\ a[2] = b[2]
      OBVIOUS
    <3> HIDE DEF a, b
    <3>3. a = b
      BY <3>1, <3>2, SeqEqual
    <3> QED
      BY <1>13, <3>3 DEF a, b
  <2> QED
    BY <1>3, <1>13, <2>1, <2>2, <2>3 DEF PlanGoesOn
<1>14. CASE held = <<"content_type", "blob">> /\ todo = <<IC, I>> \o rest
  <2>0. todo = Cons(IC, Cons(I, rest))
    BY <1>4, <1>14
  <2>1. /\ todo \in Seq(Statement) /\ Head(todo) = IC /\ Tail(todo) = Cons(I, rest)
        /\ Head(Tail(todo)) = I
    BY <1>2, <1>3, <1>5, <2>0, ConsFacts
  <2>2. Plan(Tail(todo), <<"blob">>)
    BY <1>4, <2>1 DEF Plan
  <2> QED
    BY <1>3, <1>14, <2>1, <2>2 DEF PlanGoesOn
<1> QED
  BY <1>1, <1>7, <1>8, <1>9, <1>10, <1>11, <1>12, <1>13, <1>14

\* Every operation has a first statement, and not one for content types.
LEMMA PlanStartsDrawing ==
  ASSUME NEW op \in Operations
  PROVE  /\ Statements[op] \in Seq(Statement) /\ Statements[op] # << >>
         /\ Head(Statements[op]).table # "content_type"
<1>1. Statements[op] # << >>
  <2>1. op \in {"startSession", "createFile", "getFile", "addBlob", "removeBlob", "addTriple"}
    BY ConnectionsAssumption
  <2>2. /\ \A t \in Tables : AddRow(t) \in Seq(Statement) /\ AddRow(t) # << >>
        /\ {"session", "file", "journal", "handle"} \subseteq Tables
        /\ <<Draw("blob"), Find("content_type"), InsertInto("blob")>> \in Seq(Statement)
        /\ <<Draw("metadata"), InsertInto("metadata")>> \in Seq(Statement)
    BY DEF Draw, Find, InsertInto, AddRow, Statement, Tables
  <2>3. \A s, t \in Seq(Statement) : /\ s \o t \in Seq(Statement)
                                    /\ t # << >> => s \o t # << >>
    BY ConcatProperties, ConcatEqualIffEmpty
  <2> QED
    BY <2>1, <2>2, <2>3 DEF Statements
<1>2. PlanGoesOn(Statements[op], << >>)
  BY <1>1, PlanStarts, PlanStep
<1>3. Head(Statements[op]) \in Statement
  BY <1>1, <1>2 DEF PlanGoesOn
<1> QED
  BY <1>1, <1>2, <1>3 DEF PlanGoesOn, Statement, SingleTables

\* A lookup draws an id and inserts a row under it.
LEMMA LookupStep ==
  ASSUME NEW t \in Tables, NEW todo, NEW held, LookupPlan(t, todo, held)
  PROVE  /\ todo \in Seq(Statement) /\ todo # << >> /\ Head(todo).table = t
         /\ \/ /\ held = << >> /\ Head(todo).do = "draw"
               /\ LookupPlan(t, Tail(todo), <<t>>)
            \/ held = <<t>> /\ Head(todo).do = "insert" /\ Tail(todo) = << >>
<1>1. /\ Draw(t) \in Statement /\ Draw(t).do = "draw" /\ Draw(t).table = t
      /\ InsertInto(t) \in Statement /\ InsertInto(t).do = "insert" /\ InsertInto(t).table = t
  BY StatementFacts
<1>2. CASE held = << >> /\ todo = <<Draw(t), InsertInto(t)>>
  <2>1. /\ todo \in Seq(Statement) /\ todo # << >> /\ Head(todo) = Draw(t)
        /\ Tail(todo) = <<InsertInto(t)>>
    BY <1>1, <1>2
  <2> QED
    BY <1>1, <1>2, <2>1 DEF LookupPlan
<1>3. CASE held = <<t>> /\ todo = <<InsertInto(t)>>
  <2>1. /\ todo \in Seq(Statement) /\ todo # << >> /\ Head(todo) = InsertInto(t)
        /\ Tail(todo) = << >>
    BY <1>1, <1>3
  <2> QED
    BY <1>1, <1>3, <2>1
<1> QED
  BY <1>2, <1>3 DEF LookupPlan, AddRow

\* The same for the plans of both kinds.
LEMMA PlanOfStep ==
  ASSUME NEW scoped \in BOOLEAN, NEW todo, NEW held, PlanOf(scoped, todo, held), todo # << >>
  PROVE  GoesOn(scoped, todo, held)
<1> DEFINE t == Head(todo).table
           Goal ==
             /\ todo \in Seq(Statement) /\ Head(todo) \in Statement
             /\ Tail(todo) \in Seq(Statement)
             /\ held \in Seq(Tables) /\ t \in Tables
             /\ t \in {"prefix", "type"} <=> ~scoped
             /\ Head(todo).do = "draw" => DrawGoesOn(scoped, todo, held)
             /\ Head(todo).do = "insert" => InsertGoesOn(scoped, todo, held)
             /\ Head(todo).do = "find" => FindGoesOn(scoped, todo, held)
<1> SUFFICES Goal
  BY DEF GoesOn
<1> HIDE DEF t
<1>t. t = Head(todo).table
  BY DEF t
<1>0. Lookups \subseteq {"prefix", "type"} /\ {"prefix", "type", "blob"} \subseteq Tables
  BY ConnectionsAssumption DEF Tables
<1>1. CASE ~scoped
  <2>1. PICK u \in Lookups : LookupPlan(u, todo, held)
    BY <1>1 DEF PlanOf
  <2>2. /\ todo \in Seq(Statement) /\ todo # << >> /\ Head(todo).table = u
        /\ \/ /\ held = << >> /\ Head(todo).do = "draw" /\ LookupPlan(u, Tail(todo), <<u>>)
           \/ held = <<u>> /\ Head(todo).do = "insert" /\ Tail(todo) = << >>
    BY <1>0, <2>1, LookupStep
  <2>3. Head(todo) \in Statement /\ Tail(todo) \in Seq(Statement) /\ t = u /\ u \in Tables
    BY <1>t, <1>0, <2>2
  <2>4. CASE held = << >> /\ Head(todo).do = "draw" /\ LookupPlan(u, Tail(todo), <<u>>)
    <3>1. Tail(todo) # << >> /\ Head(Tail(todo)).table = u
      BY <1>0, <2>4, LookupStep
    <3>2. <<u>> \o held = <<u>>
      BY <2>4
    <3>3. PlanOf(scoped, Tail(todo), <<u>> \o held)
      BY <1>1, <2>4, <3>2 DEF PlanOf
    <3> QED
      BY <1>t, <1>0, <1>1, <2>2, <2>3, <2>4, <3>1, <3>3 DEF DrawGoesOn
  <2>5. CASE held = <<u>> /\ Head(todo).do = "insert" /\ Tail(todo) = << >>
    BY <1>t, <1>0, <1>1, <2>2, <2>3, <2>5 DEF InsertGoesOn
  <2> QED
    BY <2>2, <2>4, <2>5
<1>2. CASE scoped
  <2>1. PlanGoesOn(todo, held)
    BY <1>2, PlanStep DEF PlanOf
  <2>2. todo \in Seq(Statement) /\ Head(todo) \in Statement /\ Tail(todo) \in Seq(Statement)
    BY <2>1 DEF PlanGoesOn
  <2>3. /\ Head(todo).do \in {"draw", "find", "insert"} /\ t \in Tables
        /\ \A u \in SingleTables : u \in Tables \ {"prefix", "type", "blob", "content_type"}
        /\ {"blob", "content_type"} \subseteq Tables
    BY <1>t, <2>2 DEF Statement, SingleTables, Tables
  <2>4. held \in Seq(Tables)
    <3>1. /\ \A u \in Tables : <<u>> \in Seq(Tables)
          /\ << >> \in Seq(Tables) /\ <<"content_type", "blob">> \in Seq(Tables)
      BY <2>3
    <3>2. held \in {<< >>, <<"blob">>, <<"content_type", "blob">>} \cup {<<u>> : u \in SingleTables}
      BY <2>1 DEF PlanGoesOn
    <3> QED
      BY <2>3, <3>1, <3>2
  <2>5. CASE Head(todo).do = "draw"
    <3>1. /\ Plan(Tail(todo), <<t>> \o held)
          /\ \/ held = << >> /\ t \in SingleTables \cup {"blob"}
             \/ held = <<"blob">> /\ t = "content_type"
          /\ Tail(todo) # << >>
          /\ Head(Tail(todo)) \in {InsertInto(t), Find("content_type")}
      BY <1>t, <2>1, <2>5 DEF PlanGoesOn
    <3>2. \A i \in 1 .. Len(held) : held[i] # t
      BY <3>1
    <3>3. Head(Tail(todo)).table = t \/ Head(Tail(todo)).do = "find"
      BY <2>3, <3>1, StatementFacts
    <3>4. t \notin {"prefix", "type"}
      BY <2>3, <3>1
    <3> QED
      BY <1>2, <2>2, <2>3, <2>4, <2>5, <3>1, <3>2, <3>3, <3>4, <1>t
         DEF PlanOf, DrawGoesOn, InsertGoesOn
  <2>6. CASE Head(todo).do = "insert"
    <3>1. /\ \/ held = <<t>> /\ Plan(Tail(todo), << >>) /\ t \in SingleTables \cup {"blob"}
             \/ /\ held = <<"content_type", "blob">> /\ t = "content_type"
                /\ Plan(Tail(todo), <<"blob">>)
          /\ Tail(todo) # << >> => Head(Tail(todo)).table # "content_type"
      BY <1>t, <2>1, <2>6 DEF PlanGoesOn
    <3>2. Plan(Tail(todo), Tail(held))
      <4>1. Tail(<<t>>) = << >> /\ Tail(<<"content_type", "blob">>) = <<"blob">>
        OBVIOUS
      <4> QED
        BY <3>1, <4>1
    <3>3. held # << >> /\ held[1] = t /\ \A i \in 2 .. Len(held) : held[i] # t
      BY <3>1
    <3>4. t \notin {"prefix", "type"}
      BY <2>3, <3>1
    <3> QED
      BY <1>2, <2>2, <2>3, <2>4, <2>6, <3>1, <3>2, <3>3, <3>4, <1>t
         DEF PlanOf, DrawGoesOn, InsertGoesOn
  <2>7. CASE Head(todo).do = "find"
    <3>1. /\ held = <<"blob">> /\ t = "content_type"
          /\ Plan(Tail(todo), held)
          /\ Plan(AddRow("content_type") \o Tail(todo), held)
          /\ Tail(todo) # << >> /\ Head(Tail(todo)) = InsertInto("blob")
      BY <1>t, <2>1, <2>7 DEF PlanGoesOn
    <3>2. Head(Tail(todo)).table = "blob"
      BY <1>0, <3>1, StatementFacts
    <3> QED
      BY <1>t, <1>2, <2>2, <2>3, <2>4, <2>7, <3>1, <3>2 DEF PlanOf, FindGoesOn
  <2> QED
    BY <2>3, <2>5, <2>6, <2>7
<1> QED
  BY <1>1, <1>2

-----------------------------------------------------------------------------
(* What connections see. *)

\* Writes on a database make a database.
LEMMA OverlayTyped ==
  ASSUME NEW d \in Database, NEW w \in Database
  PROVE  /\ Overlay(d, w) \in Database
         /\ Overlay(d, Nothing) = d
BY DEF Overlay, Database, Nothing

\* Writes one after the other are one write.
LEMMA OverlayTwice ==
  ASSUME NEW d \in Database, NEW v \in Database, NEW w \in Database
  PROVE  Overlay(Overlay(d, v), w) = Overlay(d, Overlay(v, w))
<1> DEFINE a == Overlay(Overlay(d, v), w)
           b == Overlay(d, Overlay(v, w))
<1>1. a.ids = b.ids
  BY DEF Overlay, Database
<1>2. a.rows = b.rows
  BY DEF Overlay, Database
<1>3. a = [ids |-> a.ids, rows |-> a.rows] /\ b = [ids |-> b.ids, rows |-> b.rows]
  BY DEF Overlay
<1> HIDE DEF a, b
<1>4. a = b
  BY <1>1, <1>2, <1>3
<1> QED
  BY <1>4 DEF a, b

\* What a connection sees and works on are databases; a transaction without
\* snapshot sees what it works on.
LEMMA Views ==
  ASSUME ConnectionTypes, NEW p \in Process, TransactionSound(p)
  PROVE  /\ tx[p] \in Transaction /\ tx[p].wrote \in Database
         /\ Current(p) \in Database /\ View(p) \in Database
         /\ tx[p].wrote = Nothing => Current(p) = db
         /\ tx[p].read = {} => View(p) = Current(p)
         /\ \A d : tx[p].read = {d} => d \in Database /\ View(p) = Overlay(d, tx[p].wrote)
<1>1. tx[p] \in Transaction /\ tx[p].wrote \in Database /\ db \in Database
      /\ tx[p].read \in SUBSET Database
  BY DEF ConnectionTypes, Transaction
<1>2. Current(p) \in Database /\ (tx[p].wrote = Nothing => Current(p) = db)
  BY <1>1, OverlayTyped DEF Current
<1>3. tx[p].read = {} => View(p) = Current(p)
  BY DEF View, Current
<1>4. \A d : tx[p].read = {d} => d \in Database /\ View(p) = Overlay(d, tx[p].wrote)
  BY <1>1 DEF View
<1>5. View(p) \in Database
  BY <1>1, <1>2, <1>3, <1>4, OverlayTyped DEF TransactionSound
<1> QED
  BY <1>1, <1>2, <1>3, <1>4, <1>5

\* max(id) + 1 is the first key that is not in use.
LEMMA NewEntryIs ==
  ASSUME NEW d \in Database, Full(d.ids)
  PROVE  /\ NewEntry(d) \in Nat
         /\ \A c \in d.ids : c.id < NewEntry(d)
         /\ \A k \in 0 .. NewEntry(d) - 1 : \E c \in d.ids : c.id = k
<1>1. PICK n \in Nat : /\ \A c \in d.ids : c.id < n
                       /\ \A k \in 0 .. n - 1 : \E c \in d.ids : c.id = k
  BY DEF Full
<1>2. \A c \in d.ids : c.id \in Nat
  BY DEF Database, IdsRow
<1>3. NewEntry(d) = n
  <2>1. CASE d.ids = {}
    <3>1. n = 0
      BY <1>1, <2>1
    <3> QED
      BY <2>1, <3>1 DEF NewEntry
  <2>2. CASE d.ids # {}
    <3>1. n > 0
      BY <1>1, <1>2, <2>2
    <3>2. PICK c \in d.ids : c.id = n - 1
      BY <1>1, <3>1
    <3> DEFINE Ids == { r.id : r \in d.ids }
               Last(m) == \A r \in d.ids : r.id <= m
               top == CHOOSE m \in Ids : Last(m)
    <3>3. \A m \in Ids : Last(m) <=> m = n - 1
      BY <1>1, <1>2, <3>2
    <3>4. n - 1 \in Ids
      BY <3>2
    <3>5. NewEntry(d) = 1 + top
      BY <2>2 DEF NewEntry
    <3> HIDE DEF Ids, Last
    <3>6. top = n - 1
      BY <3>3, <3>4
    <3> HIDE DEF top
    <3> QED
      BY <1>1, <3>5, <3>6
  <2> QED
    BY <2>1, <2>2
<1> QED
  BY <1>1, <1>3

-----------------------------------------------------------------------------
(* Types. *)

\* A step of a process.
Acts(p) ==
  \/ Connect(p)
  \/ Close(p)
  \/ \E op \in Operations : Begin(p, op)
  \/ \E t \in Lookups, n \in Name : LookupMisses(p, t, n)
  \/ Step(p)
  \/ WaitTimesOut(p)

\* The next statement of a process at work, and the ids it has.
LEMMA JobFacts ==
  ASSUME ConnectionTypes, NEW p \in Process, PlanSound(p), Working(p)
  PROVE  /\ job[p] \in Job
         /\ job[p].todo \in Seq(Statement) /\ job[p].todo # << >>
         /\ Head(job[p].todo) \in Statement /\ Tail(job[p].todo) \in Seq(Statement)
         /\ Table(p) \in Tables
         /\ Table(p) \in {"prefix", "type"} <=> ~job[p].scoped
         /\ job[p].drawn \in Seq(Nat)
         /\ at[p] = "bump" => Head(job[p].todo).do = "draw" /\ job[p].drawn # << >>
         /\ at[p] = "work" /\ Head(job[p].todo).do = "insert" => job[p].drawn # << >>
         /\ job[p].drawn # << >> =>
              Head(job[p].drawn) \in Nat /\ Tail(job[p].drawn) \in Seq(Nat)
         /\ Owned(p) \in Seq(Nat)
<1>1. job[p] \in Job
  BY DEF ConnectionTypes
<1>2. /\ job[p].scoped \in BOOLEAN /\ job[p].drawn \in Seq(Nat)
      /\ job[p].todo # << >>
      /\ at[p] = "bump" => Head(job[p].todo).do = "draw" /\ job[p].drawn # << >>
  BY <1>1 DEF Job, PlanSound
<1>3. PICK held \in Seq(Tables) : /\ PlanOf(job[p].scoped, job[p].todo, held)
                                 /\ Len(held) = Len(Owned(p))
  BY DEF PlanSound, HeldSound
<1>4. /\ job[p].todo \in Seq(Statement) /\ Head(job[p].todo) \in Statement
      /\ Tail(job[p].todo) \in Seq(Statement) /\ Table(p) \in Tables
      /\ Table(p) \in {"prefix", "type"} <=> ~job[p].scoped
      /\ Head(job[p].todo).do = "insert" => held # << >>
  BY <1>2, <1>3, PlanOfStep DEF Table, GoesOn, InsertGoesOn
<1>5. at[p] = "work" /\ Head(job[p].todo).do = "insert" => job[p].drawn # << >>
  BY <1>2, <1>3, <1>4 DEF Owned
<1>6. job[p].drawn # << >> =>
        Head(job[p].drawn) \in Nat /\ Tail(job[p].drawn) \in Seq(Nat)
  BY <1>2
<1>7. Owned(p) \in Seq(Nat)
  BY <1>2, <1>6 DEF Owned
<1> QED
  BY <1>1, <1>2, <1>4, <1>5, <1>6, <1>7

\* A statement that writes keeps the types.
LEMMA ExecuteTyped ==
  ASSUME ConnectionTypes, NEW p \in Process, NEW w \in Database, Execute(p, w)
  PROVE  db' \in Database /\ tx' \in [Process -> Transaction]
<1>1. /\ tx \in [Process -> Transaction] /\ tx[p] \in Transaction /\ db \in Database
      /\ tx[p].wrote \in Database
  BY DEF ConnectionTypes, Transaction
<1>2. Overlay(tx[p].wrote, w) \in Database /\ Overlay(db, w) \in Database
  BY <1>1, OverlayTyped
<1> QED
  BY <1>1, <1>2 DEF Execute, Transaction

\* A statement that reads keeps the types.
LEMMA ReadingTyped ==
  ASSUME ConnectionTypes, NEW p \in Process
  PROVE  Reading(p) \in [Process -> Transaction]
<1>1. tx \in [Process -> Transaction] /\ tx[p] \in Transaction /\ db \in Database
  BY DEF ConnectionTypes
<1>2. {db} \in SUBSET Database
  BY <1>1
<1> QED
  BY <1>1, <1>2 DEF Reading, Transaction

\* A counter counted up is a row of ids.
LEMMA CountedUpTyped ==
  ASSUME ConnectionTypes, NEW p \in Process, TransactionSound(p)
  PROVE  CountedUp(p) \in SUBSET IdsRow
<1>1. Current(p).ids \subseteq IdsRow
  BY Views DEF Database
<1> QED
  BY <1>1 DEF CountedUp, IdsRow

\* What an insert of nextID writes.
Bumped(p) ==
  IF job[p].entry = None THEN CountedUp(p)
  ELSE {[id |-> job[p].entry, table |-> Table(p), next |-> FirstNext]}

\* nextID writes rows of ids.
LEMMA BumpedTyped ==
  ASSUME ConnectionTypes, NEW p \in Process, TransactionSound(p), PlanSound(p), Working(p)
  PROVE  [ids |-> Bumped(p), rows |-> {}] \in Database
<1>1. Table(p) \in Tables /\ job[p] \in Job
  BY JobFacts
<1>2. job[p].entry # None => job[p].entry \in Nat
  BY <1>1 DEF Job
<1>3. Bumped(p) \subseteq IdsRow
  BY <1>1, <1>2, CountedUpTyped DEF Bumped, IdsRow, FirstNext
<1> QED
  BY <1>3 DEF Database

\* An insert writes a row of its table.
LEMMA NewRowTyped ==
  ASSUME ConnectionTypes, NEW p \in Process, PlanSound(p), Doing(p, "insert")
  PROVE  /\ NewRow(p) \in Row
         /\ [ids |-> {}, rows |-> {NewRow(p)}] \in Database
<1>1. Working(p) /\ at[p] = "work" /\ Head(job[p].todo).do = "insert"
  BY DEF Doing, Working
<1>2. /\ Table(p) \in Tables /\ job[p] \in Job /\ Head(job[p].drawn) \in Nat
      /\ left[p] \in Nat
  BY <1>1, JobFacts, ConnectionsAssumption DEF ConnectionTypes
<1>3. NewRow(p) \in Row
  BY <1>2 DEF NewRow, Row, Job
<1> QED
  BY <1>3 DEF Database

\* Counting down from a positive count.
LEMMA CountDown ==
  \A p \in Process, f \in [Process -> 0 .. MaxTasks] :
    f[p] > 0 => [f EXCEPT ![p] = @ - 1] \in [Process -> 0 .. MaxTasks]
<1> SUFFICES ASSUME NEW p \in Process, NEW f \in [Process -> 0 .. MaxTasks], f[p] > 0
             PROVE  [f EXCEPT ![p] = @ - 1] \in [Process -> 0 .. MaxTasks]
  OBVIOUS
<1>1. MaxTasks \in Nat
  BY ConnectionsAssumption
<1>2. f[p] - 1 \in 0 .. MaxTasks
  BY <1>1
<1> QED
  BY <1>2

\* Every step keeps the types.
LEMMA TypesNext ==
  ASSUME ConnectionInv, NEW p \in Process, Acts(p)
  PROVE  ConnectionTypes'
<1>0. /\ ConnectionTypes /\ TransactionSound(p) /\ PlanSound(p) /\ Full(View(p).ids)
      /\ Lookups \subseteq Tables /\ MaxTasks \in Nat
  BY ConnectionsAssumption DEF ConnectionInv, CountersSound, CountersOf, Tables
<1>1. /\ db \in Database /\ at \in [Process -> Places] /\ job \in [Process -> Job]
      /\ tx \in [Process -> Transaction] /\ left \in [Process -> 0 .. MaxTasks]
      /\ told \subseteq Row /\ refused \subseteq Process
      /\ driver \in {"sqlite3", "mysql"} \cap Drivers
  BY <1>0 DEF ConnectionTypes
<1>2. NoJob \in Job /\ NoTransaction \in Transaction
  BY DEF NoJob, NoTransaction, Nothing, Job, Transaction, Database
<1>3. CASE Connect(p) \/ Close(p)
  BY <1>1, <1>2, <1>3 DEF Connect, Close, Goto, ConnectionTypes, Places
<1>4. ASSUME NEW op \in Operations, Begin(p, op) PROVE ConnectionTypes'
  <2>1. Statements[op] \in Seq(Statement)
    BY PlanStartsDrawing
  <2>2. [NoJob EXCEPT !.todo = Statements[op], !.name = None, !.scoped = TRUE] \in Job
    BY <1>2, <2>1 DEF Job
  <2>3. left' \in [Process -> 0 .. MaxTasks]
    BY <1>0, <1>1, <1>4, CountDown DEF Begin, StartJob
  <2>4. tx' \in [Process -> Transaction]
    BY <1>1, <1>4 DEF Begin, Transaction
  <2>5. job' \in [Process -> Job]
    BY <1>1, <1>4, <2>2 DEF Begin, StartJob
  <2> QED
    BY <1>1, <1>4, <2>3, <2>4, <2>5 DEF Begin, StartJob, Goto, ConnectionTypes, Places
<1>5. ASSUME NEW t \in Lookups, NEW n \in Name, LookupMisses(p, t, n) PROVE ConnectionTypes'
  <2>1. AddRow(t) \in Seq(Statement)
    BY <1>0, StatementFacts
  <2>2. [NoJob EXCEPT !.todo = AddRow(t), !.name = n, !.scoped = FALSE] \in Job
    BY <1>2, <2>1 DEF Job
  <2>3. left' \in [Process -> 0 .. MaxTasks]
    BY <1>0, <1>1, <1>5, CountDown DEF LookupMisses, StartJob
  <2>4. tx' \in [Process -> Transaction]
    BY <1>0, <1>5, ReadingTyped DEF LookupMisses
  <2>5. job' \in [Process -> Job]
    BY <1>1, <1>5, <2>2 DEF LookupMisses, StartJob
  <2> QED
    BY <1>1, <1>5, <2>3, <2>4, <2>5 DEF LookupMisses, StartJob, Goto, ConnectionTypes, Places
<1>6. CASE FindContentType(p)
  <2>1. Working(p)
    BY <1>6 DEF FindContentType, Doing, Working
  <2>2. job[p] \in Job /\ Tail(job[p].todo) \in Seq(Statement) /\ Table(p) \in Tables
    BY <1>0, <2>1, JobFacts
  <2>3. (IF ContentTypeFound(p) THEN << >> ELSE AddRow(Table(p))) \o Tail(job[p].todo)
          \in Seq(Statement)
    BY <2>2, StatementFacts, ConcatProperties
  <2> QED
    BY <1>0, <1>1, <1>6, <2>2, <2>3, ReadingTyped DEF FindContentType, ConnectionTypes, Job
<1>7. CASE SelectNextId(p)
  <2>1. Working(p)
    BY <1>7 DEF SelectNextId, Doing, Working
  <2>2. job[p] \in Job /\ job[p].drawn \in Seq(Nat)
    BY <1>0, <2>1, JobFacts
  <2>3. View(p) \in Database
    BY <1>0, Views
  <2>4. /\ \A r \in View(p).ids : <<r.next>> \o job[p].drawn \in Seq(Nat)
        /\ <<0>> \o job[p].drawn \in Seq(Nat)
    BY <2>2, <2>3, ConcatProperties DEF Database, IdsRow
  <2>5. NewEntry(View(p)) \in Nat
    BY <1>0, <2>3, NewEntryIs
  <2>6. job' \in [Process -> Job]
    <3>1. \A n \in Nat, e \in Nat \cup {None} :
            <<n>> \o job[p].drawn \in Seq(Nat) =>
              [job[p] EXCEPT !.drawn = <<n>> \o @, !.entry = e] \in Job
      BY <2>2 DEF Job
    <3>2. \A r \in View(p).ids : r.next \in Nat
      BY <2>3 DEF Database, IdsRow
    <3>4. PICK n \in Nat, e \in Nat \cup {None} :
            /\ <<n>> \o job[p].drawn \in Seq(Nat)
            /\ job' = [job EXCEPT ![p].drawn = <<n>> \o @, ![p].entry = e]
      BY <1>7, <2>4, <2>5, <3>2 DEF SelectNextId
    <3>5. job' = [job EXCEPT ![p] = [job[p] EXCEPT !.drawn = <<n>> \o @, !.entry = e]]
      BY <3>4
    <3>6. [job[p] EXCEPT !.drawn = <<n>> \o @, !.entry = e] \in Job
      BY <3>1, <3>4
    <3> QED
      BY <1>1, <3>5, <3>6
  <2> QED
    BY <1>0, <1>1, <1>7, <2>6, ReadingTyped
       DEF SelectNextId, Goto, ConnectionTypes, Places
<1>8. CASE Bump(p)
  <2>1. Working(p)
    BY <1>8 DEF Bump, Working
  <2>2. job[p] \in Job /\ Tail(job[p].todo) \in Seq(Statement)
    BY <1>0, <2>1, JobFacts
  <2>3. Execute(p, [ids |-> Bumped(p), rows |-> {}])
    BY <1>8 DEF Bump, Bumped
  <2>4. db' \in Database /\ tx' \in [Process -> Transaction]
    BY <1>0, <2>1, <2>3, BumpedTyped, ExecuteTyped
  <2>5. job' \in [Process -> Job]
    BY <1>1, <1>8, <2>2 DEF Bump, Job
  <2> QED
    BY <1>0, <1>1, <1>8, <2>4, <2>5 DEF Bump, Goto, Onward, ConnectionTypes, Places
<1>9. CASE Insert(p)
  <2>1. Working(p) /\ Doing(p, "insert")
    BY <1>9 DEF Insert, Doing, Working
  <2>2. /\ job[p] \in Job /\ Tail(job[p].todo) \in Seq(Statement)
        /\ Tail(job[p].drawn) \in Seq(Nat)
    BY <1>0, <2>1, JobFacts DEF Doing
  <2>3. Execute(p, [ids |-> {}, rows |-> {NewRow(p)}])
    BY <1>9 DEF Insert
  <2>4. db' \in Database /\ tx' \in [Process -> Transaction] /\ NewRow(p) \in Row
    BY <1>0, <2>1, <2>3, NewRowTyped, ExecuteTyped
  <2>5. job' \in [Process -> Job]
    BY <1>1, <1>9, <2>2 DEF Insert, Job
  <2> QED
    BY <1>0, <1>1, <1>9, <2>4, <2>5 DEF Insert, Goto, Onward, ConnectionTypes, Places
<1>10. CASE StatementFails(p) \/ WaitTimesOut(p)
  BY <1>1, <1>10 DEF StatementFails, WaitTimesOut, Throw, Goto, ConnectionTypes, Places
<1>11. CASE RollbackTransaction(p)
  BY <1>1, <1>2, <1>11 DEF RollbackTransaction, Goto, ConnectionTypes, Places
<1>12. CASE CommitTransaction(p)
  <2>1. /\ tx[p].wrote \in Database /\ Overlay(db, tx[p].wrote) \in Database
        /\ tx[p].wrote.rows \subseteq Row
    BY <1>0, Views DEF Current, Database
  <2> QED
    BY <1>1, <1>2, <1>12, <2>1 DEF CommitTransaction, Goto, ConnectionTypes, Places
<1>13. CASE CommitRefused(p)
  BY <1>1, <1>13 DEF CommitRefused, Goto, ConnectionTypes, Places, Transaction
<1> QED
  BY <1>3, <1>4, <1>5, <1>6, <1>7, <1>8, <1>9, <1>10, <1>11, <1>12, <1>13 DEF Acts, Step

-----------------------------------------------------------------------------
(* Transactions and their locks. *)

\* A step of p touches no other connection.
LEMMA Others ==
  ASSUME ConnectionTypes, NEW p \in Process, Acts(p), NEW q \in Process, q # p
  PROVE  /\ tx'[q] = tx[q] /\ at'[q] = at[q] /\ job'[q] = job[q]
         /\ driver' = driver /\ refused \subseteq refused'
<1>1. tx \in [Process -> Transaction] /\ at \in [Process -> Places] /\ job \in [Process -> Job]
  BY DEF ConnectionTypes
<1>2. CASE Connect(p) \/ Close(p)
  BY <1>1, <1>2 DEF Connect, Close, Goto
<1>3. CASE \E op \in Operations : Begin(p, op)
  BY <1>1, <1>3 DEF Begin, StartJob, Goto
<1>4. Reading(p)[q] = tx[q]
  BY <1>1 DEF Reading
<1>5. CASE \E t \in Lookups, n \in Name : LookupMisses(p, t, n)
  BY <1>1, <1>4, <1>5 DEF LookupMisses, StartJob, Goto
<1>6. CASE FindContentType(p)
  BY <1>1, <1>4, <1>6 DEF FindContentType
<1>7. CASE SelectNextId(p)
  BY <1>1, <1>4, <1>7 DEF SelectNextId, Goto
<1>8. CASE Bump(p)
  BY <1>1, <1>8 DEF Bump, Execute, Goto
<1>9. CASE Insert(p)
  BY <1>1, <1>9 DEF Insert, Execute, Goto
<1>10. CASE StatementFails(p) \/ WaitTimesOut(p)
  BY <1>1, <1>10 DEF StatementFails, WaitTimesOut, Throw, Goto
<1>11. CASE RollbackTransaction(p) \/ CommitTransaction(p) \/ CommitRefused(p)
  BY <1>1, <1>11 DEF RollbackTransaction, CommitTransaction, CommitRefused, Goto
<1> QED
  BY <1>2, <1>3, <1>5, <1>6, <1>7, <1>8, <1>9, <1>10, <1>11 DEF Acts, Step

\* What a read does to the transaction of p.
Read(p) ==
  /\ db' = db
  /\ tx'[p].open = tx[p].open /\ tx'[p].wrote = tx[p].wrote
  /\ \/ tx'[p].lock = tx[p].lock
     \/ tx[p].open /\ driver = "sqlite3" /\ tx[p].lock = "none" /\ tx'[p].lock = "shared"
  /\ tx[p].open /\ driver = "sqlite3" => tx'[p].lock # "none"
  /\ \/ tx'[p].read = tx[p].read
     \/ tx[p].open /\ driver = "mysql" /\ tx[p].read = {} /\ tx'[p].read = {db}
  /\ ~tx[p].open => tx'[p] = tx[p]
  /\ tx[p].lock = "pending" /\ driver = "sqlite3" => tx'[p] = tx[p]

\* Reading locks or takes the snapshot.
LEMMA ReadingIs ==
  ASSUME ConnectionTypes, NEW p \in Process, tx' = Reading(p), UNCHANGED <<db, driver>>
  PROVE  Read(p)
<1>1. tx \in [Process -> Transaction] /\ tx[p] \in Transaction /\ driver \in {"sqlite3", "mysql"}
  BY DEF ConnectionTypes
<1>2. CASE ~tx[p].open
  BY <1>1, <1>2 DEF Reading, Read, Transaction
<1>3. CASE tx[p].open /\ driver = "sqlite3" /\ tx[p].lock = "none"
  BY <1>1, <1>3 DEF Reading, Read, Transaction
<1>4. CASE tx[p].open /\ driver = "mysql" /\ tx[p].read = {}
  BY <1>1, <1>4 DEF Reading, Read, Transaction
<1>5. CASE /\ tx[p].open /\ ~(driver = "sqlite3" /\ tx[p].lock = "none")
           /\ ~(driver = "mysql" /\ tx[p].read = {})
  BY <1>1, <1>5 DEF Reading, Read, Transaction
<1> QED
  BY <1>2, <1>3, <1>4, <1>5

\* What a write does to the transaction of p.
Written(p, w) ==
  \/ /\ tx[p].open /\ db' = db
     /\ tx'[p].open = TRUE /\ tx'[p].read = tx[p].read
     /\ tx'[p].wrote = Overlay(tx[p].wrote, w)
     /\ tx'[p].lock \in Exclusive
     /\ tx'[p].lock = "pending" <=> tx[p].lock = "pending"
  \/ ~tx[p].open /\ db' = Overlay(db, w) /\ tx' = tx

\* A statement that writes.
LEMMA ExecuteIs ==
  ASSUME ConnectionTypes, NEW p \in Process, NEW w, Execute(p, w)
  PROVE  Written(p, w)
<1>1. tx \in [Process -> Transaction] /\ tx[p] \in Transaction
  BY DEF ConnectionTypes
<1>2. CASE tx[p].open
  BY <1>1, <1>2 DEF Execute, Written, Transaction, Exclusive
<1>3. CASE ~tx[p].open
  BY <1>1, <1>3 DEF Execute, Written
<1> QED
  BY <1>2, <1>3

\* The statement executed by Bump and by Insert, with the writer alone.
WritesAlone(p, w) ==
  /\ Written(p, w) /\ w \in Database
  /\ \A r \in w.rows : r.by = p
  /\ Working(p) /\ at'[p] \in Places
  /\ job'[p].scoped = job[p].scoped
  /\ at'[p] = "idle" => ~job[p].scoped
  /\ at'[p] \in {"commit", "work", "idle"}
  /\ at'[p] = "commit" => job[p].scoped
  /\ tx[p].open => LocksOfOthers(p) \cap Exclusive = {}

\* The second statement of nextID is executed by the only writer of ids.
LEMMA BumpWrites ==
  ASSUME ConnectionInv, NEW p \in Process, Bump(p)
  PROVE  WritesAlone(p, [ids |-> Bumped(p), rows |-> {}])
<1>1. /\ ConnectionTypes /\ TransactionSound(p) /\ PlanSound(p) /\ Working(p)
  BY DEF ConnectionInv, Bump, Working
<1>2. job[p] \in Job /\ job \in [Process -> Job] /\ at \in [Process -> Places]
  BY <1>1, JobFacts DEF ConnectionTypes
<1>3. Written(p, [ids |-> Bumped(p), rows |-> {}])
  BY <1>1, ExecuteIs DEF Bump, Bumped
<1>4. [ids |-> Bumped(p), rows |-> {}] \in Database
  BY <1>1, BumpedTyped
<1>5. LocksOfOthers(p) \cap Exclusive = {}
  BY DEF Bump, CanWrite, Exclusive
<1>6. job'[p].scoped = job[p].scoped
  BY <1>2 DEF Bump, Job
<1>7. at'[p] = Onward(p)
  BY <1>2 DEF Bump, Goto
<1> QED
  BY <1>1, <1>3, <1>4, <1>5, <1>6, <1>7 DEF WritesAlone, Onward, Places

\* So is an insert of a transaction, which has drawn its id before.
LEMMA InsertWrites ==
  ASSUME ConnectionInv, NEW p \in Process, Insert(p)
  PROVE  WritesAlone(p, [ids |-> {}, rows |-> {NewRow(p)}])
<1>1. /\ ConnectionTypes /\ TransactionSound(p) /\ PlanSound(p) /\ PlaceSound(p)
      /\ OneWriter /\ Working(p) /\ Doing(p, "insert")
  BY DEF ConnectionInv, Insert, Doing, Working
<1>2. /\ job[p] \in Job /\ job \in [Process -> Job] /\ at \in [Process -> Places]
      /\ driver \in {"sqlite3", "mysql"}
  BY <1>1, JobFacts DEF ConnectionTypes
<1>3. Written(p, [ids |-> {}, rows |-> {NewRow(p)}])
  BY <1>1, ExecuteIs DEF Insert
<1>4. [ids |-> {}, rows |-> {NewRow(p)}] \in Database
  BY <1>1, NewRowTyped
<1>5. tx[p].open => LocksOfOthers(p) \cap Exclusive = {}
  <2> SUFFICES ASSUME tx[p].open PROVE LocksOfOthers(p) \cap Exclusive = {}
    OBVIOUS
  <2>1. at[p] = "work" /\ job[p].drawn # << >>
    BY <1>1, JobFacts DEF Doing
  <2>2. tx[p].lock \in Exclusive
    BY <1>1, <2>1 DEF PlaceSound
  <2> QED
    BY <1>1, <2>2 DEF OneWriter, LocksOfOthers
<1>6. job'[p].scoped = job[p].scoped
  BY <1>2 DEF Insert, Job
<1>7. at'[p] = Onward(p)
  BY <1>2 DEF Insert, Goto
<1>8. NewRow(p).by = p
  BY DEF NewRow
<1> QED
  BY <1>1, <1>3, <1>4, <1>5, <1>6, <1>7, <1>8 DEF WritesAlone, Onward, Places

\* The first statement of nextID, in the two cases of the code.
LEMMA DrawnIs ==
  ASSUME ConnectionTypes, NEW p \in Process, SelectNextId(p)
  PROVE  /\ job'[p].todo = job[p].todo /\ job'[p].scoped = job[p].scoped
         /\ job'[p].name = job[p].name
         /\ \/ \E r \in View(p).ids : /\ r.table = Table(p)
                                      /\ job'[p].drawn = <<r.next>> \o job[p].drawn
                                      /\ job'[p].entry = None
            \/ /\ \A r \in View(p).ids : r.table # Table(p)
               /\ job'[p].drawn = <<0>> \o job[p].drawn
               /\ job'[p].entry = NewEntry(View(p))
<1>1. job \in [Process -> Job] /\ job[p] \in Job
  BY DEF ConnectionTypes
<1>2. ASSUME NEW s, NEW e, job' = [job EXCEPT ![p].drawn = s, ![p].entry = e]
      PROVE  /\ job'[p].todo = job[p].todo /\ job'[p].scoped = job[p].scoped
             /\ job'[p].name = job[p].name
             /\ job'[p].drawn = s /\ job'[p].entry = e
  BY <1>1, <1>2 DEF Job
<1>3. CASE \E r \in View(p).ids :
             /\ r.table = Table(p)
             /\ job' = [job EXCEPT ![p].drawn = <<r.next>> \o @, ![p].entry = None]
  <2>1. PICK r \in View(p).ids :
             /\ r.table = Table(p)
             /\ job' = [job EXCEPT ![p].drawn = <<r.next>> \o @, ![p].entry = None]
    BY <1>3
  <2>2. job' = [job EXCEPT ![p].drawn = <<r.next>> \o job[p].drawn, ![p].entry = None]
    BY <1>1, <2>1
  <2> QED
    BY <1>2, <2>1, <2>2
<1>4. CASE /\ \A r \in View(p).ids : r.table # Table(p)
           /\ job' = [job EXCEPT ![p].drawn = <<0>> \o @, ![p].entry = NewEntry(View(p))]
  <2>1. job' = [job EXCEPT ![p].drawn = <<0>> \o job[p].drawn, ![p].entry = NewEntry(View(p))]
    BY <1>1, <1>4
  <2> QED
    BY <1>2, <1>4, <2>1
<1> QED
  BY <1>3, <1>4 DEF SelectNextId

\* After a step of p its transaction goes with its place, and it has become the
\* writer only where there was none.
LEMMA OwnTransactionNext ==
  ASSUME ConnectionInv, NEW p \in Process, Acts(p)
  PROVE  /\ TransactionSound(p)' /\ PlaceSound(p)'
         /\ tx'[p].lock \in Exclusive =>
              tx[p].lock \in Exclusive \/ LocksOfOthers(p) \cap Exclusive = {}
<1> DEFINE LockKept == tx'[p].lock \in Exclusive =>
                         tx[p].lock \in Exclusive \/ LocksOfOthers(p) \cap Exclusive = {}
           Goal == TransactionSound(p)' /\ PlaceSound(p)' /\ LockKept
<1> SUFFICES Goal
  OBVIOUS
<1>1. ConnectionTypes /\ TransactionSound(p) /\ PlaceSound(p) /\ PlanSound(p)
  BY DEF ConnectionInv
<1>2. /\ tx \in [Process -> Transaction] /\ tx[p] \in Transaction
      /\ job \in [Process -> Job] /\ job[p] \in Job
      /\ at \in [Process -> Places] /\ at[p] \in Places
      /\ driver \in {"sqlite3", "mysql"} /\ refused \subseteq Process
  BY <1>1 DEF ConnectionTypes
<1>3. /\ ~NoTransaction.open /\ NoTransaction.lock = "none" /\ NoTransaction.lock \notin Exclusive
      /\ NoTransaction.wrote = Nothing /\ NoTransaction.read = {} /\ Nothing.rows = {}
  BY DEF NoTransaction, Nothing, Exclusive
<1>4. CASE Connect(p)
  <2>1. UNCHANGED <<driver, job, tx, refused>> /\ at'[p] = "idle" /\ at[p] = "closed"
    BY <1>2, <1>4 DEF Connect, Goto
  <2> QED
    BY <1>1, <2>1 DEF TransactionSound, PlaceSound, Rests
<1>5. ASSUME tx'[p] = NoTransaction, at'[p] \in {"closed", "idle"} PROVE Goal
  BY <1>3, <1>5 DEF TransactionSound, PlaceSound, Rests
<1>6. CASE Close(p) \/ RollbackTransaction(p) \/ CommitTransaction(p)
  <2>1. tx'[p] = NoTransaction /\ at'[p] \in {"closed", "idle"}
    BY <1>2, <1>6 DEF Close, RollbackTransaction, CommitTransaction, Goto
  <2> QED
    BY <1>5, <2>1
<1>7. ASSUME NEW op \in Operations, Begin(p, op) PROVE Goal
  <2>1. tx[p] = NoTransaction
    BY <1>1, <1>7 DEF Begin, TransactionSound
  <2>2. /\ tx'[p].open /\ tx'[p].lock = "none" /\ tx'[p].wrote = Nothing /\ tx'[p].read = {}
        /\ at'[p] = "work"
    BY <1>2, <1>3, <1>7, <2>1 DEF Begin, StartJob, Goto, NoTransaction
  <2>3. job'[p].scoped /\ job'[p].drawn = << >>
    BY <1>2, <1>7 DEF Begin, StartJob, NoJob
  <2>4. "none" \notin Exclusive
    BY DEF Exclusive
  <2> QED
    BY <1>3, <2>2, <2>3, <2>4 DEF TransactionSound, PlaceSound
<1>8. ASSUME Read(p), driver' = driver, UNCHANGED refused
      PROVE  TransactionSound(p)' /\ LockKept /\ (Rests(p) => Rests(p)')
  <2>1. "shared" \notin Exclusive /\ "none" \notin Exclusive
    BY DEF Exclusive
  <2>2. TransactionSound(p)'
    BY <1>1, <1>2, <1>8, <2>1 DEF TransactionSound, Read
  <2>3. LockKept
    BY <1>8, <2>1 DEF Read
  <2>4. Rests(p) => Rests(p)'
    BY <1>1, <1>2, <1>3, <1>8 DEF Rests, Read, TransactionSound
  <2> QED
    BY <2>2, <2>3, <2>4
<1>9. ASSUME NEW t \in Lookups, NEW n \in Name, LookupMisses(p, t, n) PROVE Goal
  <2>1. Read(p) /\ driver' = driver /\ UNCHANGED refused
    BY <1>1, <1>9, ReadingIs DEF LookupMisses
  <2>2. at'[p] = "work" /\ at[p] = "idle"
    BY <1>2, <1>9 DEF LookupMisses, StartJob, Goto
  <2>3. ~job'[p].scoped /\ job'[p].drawn = << >>
    BY <1>2, <1>9 DEF LookupMisses, StartJob, NoJob
  <2>4. Rests(p)'
    BY <1>1, <1>8, <2>1, <2>2 DEF PlaceSound
  <2> QED
    BY <1>8, <2>1, <2>2, <2>3, <2>4 DEF PlaceSound
<1>10. CASE FindContentType(p)
  <2>1. Read(p) /\ driver' = driver /\ UNCHANGED refused
    BY <1>1, <1>10, ReadingIs DEF FindContentType
  <2>2. at[p] = "work" /\ at'[p] = "work"
    BY <1>10 DEF FindContentType, Doing
  <2>3. job'[p].scoped = job[p].scoped /\ job'[p].drawn = job[p].drawn
    BY <1>2, <1>10 DEF FindContentType, Job
  <2>4. PlaceSound(p)'
    BY <1>1, <1>8, <2>1, <2>2, <2>3 DEF PlaceSound, Read, Exclusive
  <2> QED
    BY <1>8, <2>1, <2>4
<1>11. CASE SelectNextId(p)
  <2>1. Read(p) /\ driver' = driver /\ UNCHANGED refused
    BY <1>1, <1>11, ReadingIs DEF SelectNextId
  <2>2. at[p] = "work" /\ at'[p] = "bump"
    BY <1>2, <1>11 DEF SelectNextId, Doing, Goto
  <2>3. job'[p].scoped = job[p].scoped
    BY <1>1, <1>11, DrawnIs
  <2>4. PlaceSound(p)'
    BY <1>1, <1>8, <2>1, <2>2, <2>3 DEF PlaceSound, Read
  <2> QED
    BY <1>8, <2>1, <2>4
<1>12. ASSUME NEW w, WritesAlone(p, w), driver' = driver, UNCHANGED refused PROVE Goal
  <2>1. CASE tx[p].open
    <3>1. /\ tx'[p].open /\ tx'[p].lock \in Exclusive /\ tx'[p].read = tx[p].read
          /\ tx'[p].wrote = Overlay(tx[p].wrote, w)
          /\ tx'[p].lock = "pending" <=> tx[p].lock = "pending"
      BY <1>12, <2>1 DEF WritesAlone, Written
    <3>2. \A r \in tx'[p].wrote.rows : r.by = p
      BY <1>1, <1>12, <3>1 DEF TransactionSound, WritesAlone, Overlay
    <3>3. TransactionSound(p)'
      BY <1>1, <1>12, <3>1, <3>2 DEF TransactionSound, Exclusive
    <3>4. Rests(p) => Rests(p)'
      BY <1>3, <1>12, <2>1, <3>1 DEF Rests
    <3>5. PlaceSound(p)'
      BY <1>1, <1>12, <3>1, <3>4 DEF PlaceSound, WritesAlone, Working
    <3> QED
      BY <1>12, <2>1, <3>3, <3>5 DEF WritesAlone
  <2>2. CASE ~tx[p].open
    <3>1. tx' = tx
      BY <1>12, <2>2 DEF WritesAlone, Written
    <3>2. ~job[p].scoped
      BY <1>1, <1>12, <2>2 DEF PlaceSound, WritesAlone, Working
    <3>3. TransactionSound(p)' /\ LockKept
      BY <1>1, <1>12, <3>1 DEF TransactionSound
    <3>4. PlaceSound(p)'
      BY <1>1, <1>12, <2>2, <3>1, <3>2 DEF PlaceSound, WritesAlone, Working, Rests
    <3> QED
      BY <3>3, <3>4
  <2> QED
    BY <2>1, <2>2
<1>13. CASE Bump(p)
  BY <1>12, <1>13, BumpWrites DEF Bump
<1>14. CASE Insert(p)
  BY <1>12, <1>14, InsertWrites DEF Insert
<1>15. CASE StatementFails(p) \/ WaitTimesOut(p)
  <2>1. Throw(p) /\ Working(p)
    BY <1>15 DEF StatementFails, WaitTimesOut, Waits, Doing, Working
  <2>2. /\ UNCHANGED <<driver, job, tx, refused>>
        /\ at'[p] = IF job[p].scoped THEN "unwind" ELSE "idle"
    BY <1>2, <2>1 DEF Throw, Goto
  <2> QED
    BY <1>1, <2>1, <2>2 DEF TransactionSound, PlaceSound, Rests, Working
<1>16. CASE CommitRefused(p)
  <2>1. /\ tx[p].lock \in Exclusive /\ driver = "sqlite3" /\ driver' = driver
        /\ tx'[p].lock = "pending" /\ tx'[p].open = tx[p].open /\ tx'[p].wrote = tx[p].wrote
        /\ tx'[p].read = tx[p].read /\ at'[p] = "idle" /\ p \in refused' /\ tx[p].open
    <3>1. /\ tx'[p].lock = "pending" /\ tx'[p].open = tx[p].open /\ tx'[p].wrote = tx[p].wrote
          /\ tx'[p].read = tx[p].read
      BY <1>2, <1>16 DEF CommitRefused, Transaction
    <3>2. tx[p].lock \in Exclusive /\ driver = "sqlite3"
      BY <1>1, <1>2, <1>16 DEF CommitRefused, CanCommit, Transaction, Exclusive
    <3>3. at'[p] = "idle" /\ p \in refused' /\ driver' = driver /\ tx[p].open
      BY <1>1, <1>2, <1>16 DEF CommitRefused, Goto, PlaceSound
    <3> QED
      BY <3>1, <3>2, <3>3
  <2> QED
    BY <1>1, <2>1 DEF TransactionSound, PlaceSound, Rests, Exclusive
<1> QED
  BY <1>4, <1>6, <1>7, <1>9, <1>10, <1>11, <1>13, <1>14, <1>15, <1>16 DEF Acts, Step

\* Every transaction goes with the place of its process, and one of them writes.
LEMMA TransactionsNext ==
  ASSUME ConnectionInv, NEW p \in Process, Acts(p)
  PROVE  (\A q \in Process : TransactionSound(q) /\ PlaceSound(q))' /\ OneWriter'
<1>1. ConnectionTypes /\ OneWriter
  BY DEF ConnectionInv
<1>2. ASSUME NEW q \in Process PROVE TransactionSound(q)' /\ PlaceSound(q)'
  <2>1. CASE q = p
    BY <2>1, OwnTransactionNext
  <2>2. CASE q # p
    <3>1. TransactionSound(q) /\ PlaceSound(q)
      BY DEF ConnectionInv
    <3>2. /\ tx'[q] = tx[q] /\ at'[q] = at[q] /\ job'[q] = job[q]
          /\ driver' = driver /\ refused \subseteq refused'
      BY <1>1, <2>2, Others
    <3> QED
      BY <3>1, <3>2 DEF TransactionSound, PlaceSound, Rests
  <2> QED
    BY <2>1, <2>2
<1>3. OneWriter'
  <2>1. \A q \in Process \ {p} : tx'[q] = tx[q]
    BY <1>1, Others
  <2>2. tx'[p].lock \in Exclusive =>
          tx[p].lock \in Exclusive \/ LocksOfOthers(p) \cap Exclusive = {}
    BY OwnTransactionNext
  <2> QED
    BY <1>1, <2>1, <2>2 DEF OneWriter, LocksOfOthers
<1> QED
  BY <1>2, <1>3

-----------------------------------------------------------------------------
(* What a step changes of the views. *)

\* p writes nothing and ends nothing; it may take its snapshot.
Quiet(p) ==
  /\ db' = db /\ Current(p)' = Current(p) /\ View(p)' = View(p)
  /\ tx'[p].read \subseteq tx[p].read \cup {db}

\* Steps that write nothing.
QuietSteps(p) ==
  \/ Connect(p) \/ (\E op \in Operations : Begin(p, op))
  \/ (\E t \in Lookups, n \in Name : LookupMisses(p, t, n))
  \/ FindContentType(p) \/ SelectNextId(p)
  \/ StatementFails(p) \/ WaitTimesOut(p) \/ CommitRefused(p)

\* These steps leave what p sees as it is, also the one that takes the snapshot.
LEMMA QuietIs ==
  ASSUME ConnectionInv, NEW p \in Process, QuietSteps(p)
  PROVE  Quiet(p)
<1>1. ConnectionTypes /\ TransactionSound(p)
  BY DEF ConnectionInv
<1>2. tx \in [Process -> Transaction] /\ tx[p] \in Transaction
  BY <1>1 DEF ConnectionTypes
<1>3. ASSUME db' = db, tx'[p].wrote = tx[p].wrote, tx'[p].read = tx[p].read
      PROVE  Quiet(p)
  BY <1>3 DEF Quiet, Current, View
<1>4. ASSUME Read(p) PROVE Quiet(p)
  <2>1. db' = db /\ tx'[p].wrote = tx[p].wrote
    BY <1>4 DEF Read
  <2>2. CASE tx'[p].read = tx[p].read
    BY <1>3, <2>1, <2>2
  <2>3. CASE tx[p].read = {} /\ tx'[p].read = {db}
    <3>1. View(p)' = Overlay(db, tx[p].wrote)
      BY <2>1, <2>3 DEF View
    <3> QED
      BY <2>1, <2>3, <3>1 DEF Quiet, Current, View
  <2> QED
    BY <1>4, <2>2, <2>3 DEF Read
<1>5. CASE Connect(p) \/ StatementFails(p) \/ WaitTimesOut(p)
  BY <1>3, <1>5 DEF Connect, StatementFails, WaitTimesOut, Throw
<1>6. CASE \E op \in Operations : Begin(p, op)
  BY <1>2, <1>3, <1>6 DEF Begin, Transaction
<1>7. CASE \/ \E t \in Lookups, n \in Name : LookupMisses(p, t, n)
           \/ FindContentType(p) \/ SelectNextId(p)
  BY <1>1, <1>4, <1>7, ReadingIs DEF LookupMisses, FindContentType, SelectNextId
<1>8. CASE CommitRefused(p)
  BY <1>2, <1>3, <1>8 DEF CommitRefused, Transaction
<1> QED
  BY <1>5, <1>6, <1>7, <1>8 DEF QuietSteps

\* p sees what is committed.
Fresh(p) == tx'[p] = NoTransaction /\ Current(p)' = db' /\ View(p)' = db'

\* A transaction that ends leaves nothing behind.
LEMMA EndIs ==
  ASSUME ConnectionInv, NEW p \in Process, ConnectionTypes', tx' = [tx EXCEPT ![p] = NoTransaction]
  PROVE  Fresh(p)
<1>1. tx'[p] = NoTransaction
  BY DEF ConnectionInv, ConnectionTypes
<1>2. db' \in Database
  BY DEF ConnectionTypes
<1>3. Overlay(db', Nothing) = db'
  BY <1>2, OverlayTyped
<1> QED
  BY <1>1, <1>3 DEF Fresh, Current, View, NoTransaction

\* p has executed a statement that writes w.
Wrote(p, w) ==
  /\ Current(p)' = Overlay(Current(p), w)
  /\ View(p)' = Overlay(View(p), w)
  /\ tx'[p].read = tx[p].read
  /\ \/ tx[p].open /\ db' = db
     \/ ~tx[p].open /\ tx'[p] = NoTransaction /\ db' = Current(p)' /\ Current(p) = db

\* A statement adds what it writes to both views.
LEMMA WriteIs ==
  ASSUME ConnectionInv, NEW p \in Process, NEW w, WritesAlone(p, w)
  PROVE  Wrote(p, w)
<1>1. ConnectionTypes /\ TransactionSound(p) /\ db \in Database /\ w \in Database
  BY DEF ConnectionInv, ConnectionTypes, WritesAlone
<1>2. /\ tx[p].wrote \in Database
      /\ tx[p].read = {} => View(p) = Current(p)
      /\ \A d : tx[p].read = {d} => d \in Database /\ View(p) = Overlay(d, tx[p].wrote)
      /\ tx[p].wrote = Nothing => Current(p) = db
      /\ tx[p].read = {} \/ \E d : tx[p].read = {d}
  BY <1>1, Views DEF TransactionSound
<1>3. CASE tx[p].open
  <2>1. /\ db' = db /\ tx'[p].read = tx[p].read /\ tx'[p].wrote = Overlay(tx[p].wrote, w)
    BY <1>3 DEF WritesAlone, Written
  <2>2. Current(p)' = Overlay(Current(p), w)
    BY <1>1, <1>2, <2>1, OverlayTwice DEF Current
  <2>3. CASE tx[p].read = {}
    <3>1. View(p)' = Current(p)' /\ View(p) = Current(p)
      BY <2>1, <2>3 DEF View, Current
    <3> QED
      BY <1>3, <2>1, <2>2, <3>1 DEF Wrote
  <2>4. ASSUME NEW d, tx[p].read = {d} PROVE View(p)' = Overlay(View(p), w)
    <3>1. d \in Database /\ View(p) = Overlay(d, tx[p].wrote)
      BY <1>2, <2>4
    <3>2. View(p)' = Overlay(d, Overlay(tx[p].wrote, w))
      BY <2>1, <2>4 DEF View
    <3> QED
      BY <1>1, <1>2, <3>1, <3>2, OverlayTwice
  <2> QED
    BY <1>2, <1>3, <2>1, <2>2, <2>3, <2>4 DEF Wrote
<1>4. CASE ~tx[p].open
  <2>1. tx[p] = NoTransaction /\ db' = Overlay(db, w) /\ tx' = tx
    BY <1>1, <1>4 DEF WritesAlone, Written, TransactionSound
  <2>2. tx[p].read = {} /\ tx[p].wrote = Nothing
    BY <2>1 DEF NoTransaction
  <2>3. View(p) = db /\ Current(p) = db
    BY <1>2, <2>2
  <2>4. Overlay(db', Nothing) = db'
    BY <1>1, <2>1, OverlayTyped
  <2>5. View(p)' = db' /\ Current(p)' = db'
    BY <2>1, <2>2, <2>4 DEF View, Current
  <2> QED
    BY <1>4, <2>1, <2>3, <2>5 DEF Wrote
<1> QED
  BY <1>3, <1>4

\* Every step of p is one of these.
LEMMA StepKinds ==
  ASSUME NEW p \in Process, Acts(p)
  PROVE  \/ QuietSteps(p) \/ Close(p) \/ RollbackTransaction(p)
         \/ CommitTransaction(p) \/ Bump(p) \/ Insert(p)
BY DEF Acts, Step, QuietSteps

\* What is committed changes when p commits, or by a statement outside a transaction.
LEMMA CommittedChanges ==
  ASSUME ConnectionInv, NEW p \in Process, Acts(p), db' # db
  PROVE  \/ CommitTransaction(p) /\ db' = Current(p) /\ tx[p].lock \in Exclusive
         \/ Bump(p) /\ ~tx[p].open /\ db' = Current(p)' /\ Current(p) = db
         \/ Insert(p) /\ ~tx[p].open /\ db' = Current(p)' /\ Current(p) = db
<1>1. ~QuietSteps(p) /\ ~Close(p) /\ ~RollbackTransaction(p)
  BY QuietIs DEF Quiet, Close, RollbackTransaction
<1>2. CASE CommitTransaction(p)
  <2>1. db' = Current(p)
    BY <1>2 DEF CommitTransaction, Current
  <2>2. ConnectionTypes /\ TransactionSound(p)
    BY DEF ConnectionInv
  <2>3. tx[p].wrote # Nothing
    BY <2>1, <2>2, Views
  <2> QED
    BY <1>2, <2>1, <2>2, <2>3 DEF TransactionSound
<1>3. CASE Bump(p)
  BY <1>3, BumpWrites, WriteIs DEF Wrote
<1>4. CASE Insert(p)
  BY <1>4, InsertWrites, WriteIs DEF Wrote
<1> QED
  BY <1>1, <1>2, <1>3, <1>4, StepKinds

\* What q sees does not change.
Unmoved(q) == db' = db /\ Current(q)' = Current(q) /\ View(q)' = View(q)

\* q has written nothing, and in SQLite holds no lock; it may see the change.
Moved(q) ==
  /\ Current(q) = db /\ Current(q)' = db'
  /\ View(q)' = View(q) \/ (View(q) = db /\ View(q)' = db')
  /\ driver = "sqlite3" => tx[q].lock = "none"

\* A lookup of p has inserted its row, and q may have written.
Joined(p, q) ==
  /\ driver = "mysql" /\ Insert(p) /\ ~job[p].scoped
  /\ Current(q)'.ids = Current(q).ids
  /\ Current(q)'.rows = Current(q).rows \cup {NewRow(p)}
  /\ View(q)'.ids = View(q).ids

\* What the step of p is for another connection.
LEMMA OtherViews ==
  ASSUME ConnectionInv, NEW p \in Process, Acts(p), ConnectionTypes', NEW q \in Process, q # p
  PROVE  Unmoved(q) \/ Moved(q) \/ Joined(p, q)
<1>1. /\ ConnectionTypes /\ TransactionSound(q) /\ TransactionSound(p) /\ PlaceSound(p)
      /\ PlaceSound(q) /\ OneWriter
  BY DEF ConnectionInv
<1>2. /\ tx'[q] = tx[q] /\ driver' = driver
  BY <1>1, Others
<1>3. /\ tx[q] \in Transaction /\ driver \in {"sqlite3", "mysql"}
      /\ db \in Database /\ db' \in Database /\ tx[q].wrote \in Database
  BY <1>1 DEF ConnectionTypes, Transaction
<1>4. CASE db' = db
  BY <1>2, <1>4 DEF Unmoved, Current, View
<1>5. ASSUME tx[q].wrote = Nothing, driver = "sqlite3" => tx[q].lock = "none"
      PROVE  Moved(q)
  <2>1. Current(q) = db /\ Current(q)' = db'
    BY <1>2, <1>3, <1>5, OverlayTyped DEF Current
  <2>2. CASE tx[q].read = {}
    BY <1>2, <1>5, <2>1, <2>2 DEF View, Current, Moved
  <2>3. CASE tx[q].read # {}
    BY <1>2, <1>5, <2>1, <2>3 DEF View, Moved
  <2> QED
    BY <2>2, <2>3
<1>6. ASSUME tx[q].lock \notin Exclusive PROVE tx[q].wrote = Nothing
  BY <1>1, <1>6 DEF TransactionSound
<1>7. tx[q].lock \in LocksOfOthers(p)
  BY DEF LocksOfOthers
<1>8. "none" \notin Exclusive
  BY DEF Exclusive
<1>9. CASE CommitTransaction(p) /\ tx[p].lock \in Exclusive
  <2>1. tx[q].lock \notin Exclusive
    BY <1>1, <1>9 DEF OneWriter
  <2>2. driver = "sqlite3" => tx[q].lock = "none"
    BY <1>7, <1>9 DEF CommitTransaction, CanCommit, Exclusive
  <2> QED
    BY <1>5, <1>6, <2>1, <2>2
<1>10. CASE (Bump(p) \/ Insert(p)) /\ ~tx[p].open /\ driver = "sqlite3"
  <2>1. tx[q].lock = "none"
    BY <1>7, <1>10 DEF Bump, Insert, CanWrite
  <2> QED
    BY <1>5, <1>6, <1>8, <2>1
<1>11. CASE Bump(p) /\ ~tx[p].open /\ driver = "mysql"
  <2>1. tx[q].lock \notin Exclusive
    BY <1>7, <1>11 DEF Bump, CanWrite, Exclusive
  <2> QED
    BY <1>5, <1>6, <1>11, <2>1
<1>12. CASE Insert(p) /\ ~tx[p].open /\ driver = "mysql"
  <2>1. WritesAlone(p, [ids |-> {}, rows |-> {NewRow(p)}])
    BY <1>12, InsertWrites
  <2>2. db' = Overlay(db, [ids |-> {}, rows |-> {NewRow(p)}])
    BY <1>12, <2>1 DEF WritesAlone, Written
  <2>3. ~job[p].scoped
    BY <1>1, <1>12, <2>1 DEF PlaceSound, WritesAlone, Working
  <2>4. \A w \in Database : /\ Overlay(db', w).ids = Overlay(db, w).ids
                            /\ Overlay(db', w).rows = Overlay(db, w).rows \cup {NewRow(p)}
    BY <1>3, <2>2 DEF Overlay, Database
  <2>5. /\ Current(q)'.ids = Current(q).ids
        /\ Current(q)'.rows = Current(q).rows \cup {NewRow(p)}
    BY <1>2, <1>3, <2>4 DEF Current
  <2>6. View(q)'.ids = View(q).ids
    <3>1. CASE tx[q].read = {}
      BY <1>2, <2>5, <3>1 DEF View, Current
    <3>2. CASE tx[q].read # {}
      BY <1>2, <3>2 DEF View
    <3> QED
      BY <3>1, <3>2
  <2> QED
    BY <1>12, <2>3, <2>5, <2>6 DEF Joined
<1> QED
  BY <1>3, <1>4, <1>9, <1>10, <1>11, <1>12, CommittedChanges

-----------------------------------------------------------------------------
(* Counters. *)

\* Covering is a preorder.
LEMMA CoversOrder ==
  /\ \A a \in SUBSET IdsRow : Covers(a, a)
  /\ \A a, b, c \in SUBSET IdsRow : Covers(a, b) /\ Covers(b, c) => Covers(a, c)
<1>1. \A r \in IdsRow : r.next \in Nat
  BY DEF IdsRow
<1>2. \A a \in SUBSET IdsRow : Covers(a, a)
  BY <1>1 DEF Covers
<1>3. ASSUME NEW a \in SUBSET IdsRow, NEW b \in SUBSET IdsRow, NEW c \in SUBSET IdsRow,
             Covers(a, b), Covers(b, c), NEW x \in c
      PROVE  \E z \in a : z.id = x.id /\ z.table = x.table /\ x.next <= z.next
  <2>1. PICK y \in b : y.id = x.id /\ y.table = x.table /\ x.next <= y.next
    BY <1>3 DEF Covers
  <2>2. PICK z \in a : z.id = y.id /\ z.table = y.table /\ y.next <= z.next
    BY <1>3 DEF Covers
  <2>3. x.next \in Nat /\ y.next \in Nat /\ z.next \in Nat
    BY <1>1
  <2>4. x.next <= z.next
    BY <2>1, <2>2, <2>3
  <2> QED
    BY <2>1, <2>2, <2>4
<1>4. ASSUME NEW a \in SUBSET IdsRow, NEW b \in SUBSET IdsRow, NEW c \in SUBSET IdsRow,
             Covers(a, b), Covers(b, c)
      PROVE  Covers(a, c)
  BY <1>3, <1>4 DEF Covers
<1> QED
  BY <1>2, <1>4

\* A counter in use is replaced by the next version of it.
LEMMA CountUp ==
  ASSUME NEW d \in Database, NEW v \in Database, NEW x \in d.ids, NEW y \in IdsRow,
         Counted(d), Full(v.ids), \E c \in v.ids : c.id = x.id,
         y.id = x.id, y.table = x.table, y.next = x.next + 1,
         NEW w, w.ids = {y}, w.rows = {}
  PROVE  /\ Counted(Overlay(d, w)) /\ Covers(Overlay(d, w).ids, d.ids)
         /\ Full(Overlay(v, w).ids)
         /\ y \in Overlay(d, w).ids /\ Overlay(d, w).rows = d.rows
<1> DEFINE n == Overlay(d, w)
<1>1. /\ \A r \in d.ids : r \in IdsRow /\ r.id \in Nat /\ r.next \in Nat
      /\ \A r \in v.ids : r \in IdsRow /\ r.id \in Nat
      /\ \A r \in d.rows : r.id \in Nat
  BY DEF Database, IdsRow, Row
<1>2. n.ids = { r \in d.ids : r.id # x.id } \cup {y} /\ n.rows = d.rows
  BY DEF Overlay
<1>3. Overlay(v, w).ids = { r \in v.ids : r.id # x.id } \cup {y}
  BY DEF Overlay
<1>4. \A b, c \in n.ids : b.id = c.id \/ b.table = c.table => b = c
  BY <1>2 DEF Counted
<1>5. Full(n.ids)
  <2>1. PICK m \in Nat : /\ \A c \in d.ids : c.id < m
                         /\ \A k \in 0 .. m - 1 : \E c \in d.ids : c.id = k
    BY DEF Counted, Full
  <2>2. \A c \in n.ids : c.id < m
    BY <1>2, <2>1
  <2>3. \A k \in 0 .. m - 1 : \E c \in n.ids : c.id = k
    BY <1>2, <2>1
  <2> HIDE DEF n
  <2> QED
    BY <2>2, <2>3 DEF Full
<1>6. \A r \in n.rows : \E c \in n.ids : c.table = r.table /\ r.id < c.next
  <2> SUFFICES ASSUME NEW r \in d.rows PROVE \E c \in n.ids : c.table = r.table /\ r.id < c.next
    BY <1>2
  <2>1. PICK c \in d.ids : c.table = r.table /\ r.id < c.next
    BY DEF Counted
  <2>2. CASE c.id = x.id
    <3>1. c = x
      BY <2>2 DEF Counted
    <3>2. r.id < y.next
      BY <1>1, <2>1, <3>1
    <3> QED
      BY <1>2, <2>1, <3>1, <3>2
  <2>3. CASE c.id # x.id
    BY <1>2, <2>1, <2>3
  <2> QED
    BY <2>2, <2>3
<1>7. Covers(n.ids, d.ids)
  <2> SUFFICES ASSUME NEW c \in d.ids
               PROVE  \E z \in n.ids : z.id = c.id /\ z.table = c.table /\ c.next <= z.next
    BY DEF Covers
  <2>1. CASE c.id = x.id
    <3>1. c = x
      BY <2>1 DEF Counted
    <3>2. c.next <= y.next
      BY <1>1, <3>1
    <3> QED
      BY <1>2, <3>1, <3>2
  <2>2. CASE c.id # x.id
    BY <1>1, <1>2, <2>2
  <2> QED
    BY <2>1, <2>2
<1>8. Full(Overlay(v, w).ids)
  <2>1. PICK m \in Nat : /\ \A c \in v.ids : c.id < m
                         /\ \A k \in 0 .. m - 1 : \E c \in v.ids : c.id = k
    BY DEF Full
  <2>2. \A c \in Overlay(v, w).ids : c.id < m
    BY <1>3, <2>1
  <2>3. \A k \in 0 .. m - 1 : \E c \in Overlay(v, w).ids : c.id = k
    BY <1>3, <2>1
  <2> QED
    BY <2>2, <2>3 DEF Full
<1> QED
  BY <1>2, <1>4, <1>5, <1>6, <1>7, <1>8 DEF Counted

\* The first counter of a table takes the next key, which the one who drew the
\* id had computed.
LEMMA CountNew ==
  ASSUME NEW d \in Database, NEW v \in Database, NEW t \in Tables, NEW e \in Nat,
         Counted(d), Full(v.ids), Covers(d.ids, v.ids),
         \A c \in d.ids : c.id # e,
         \A k \in 0 .. e - 1 : \E c \in v.ids : c.id = k /\ c.table # t,
         NEW w, w.ids = {[id |-> e, table |-> t, next |-> FirstNext]}, w.rows = {}
  PROVE  /\ Counted(Overlay(d, w)) /\ Covers(Overlay(d, w).ids, d.ids)
         /\ Full(Overlay(v, w).ids)
         /\ \E c \in Overlay(d, w).ids : c.table = t /\ 0 < c.next
         /\ Overlay(d, w).rows = d.rows
<1> DEFINE n == Overlay(d, w)
           y == [id |-> e, table |-> t, next |-> FirstNext]
<1>1. /\ \A r \in d.ids : r \in IdsRow /\ r.id \in Nat /\ r.next \in Nat
      /\ \A r \in v.ids : r \in IdsRow /\ r.id \in Nat
      /\ y \in IdsRow /\ y.id = e /\ y.table = t /\ y.next = 1
  BY DEF Database, IdsRow, FirstNext
<1>2. \A k \in 0 .. e - 1 : \E c \in d.ids : c.id = k /\ c.table # t
  BY DEF Covers
<1>3. \A c \in d.ids : c.id < e
  <2>1. PICK m \in Nat : /\ \A c \in d.ids : c.id < m
                         /\ \A k \in 0 .. m - 1 : \E c \in d.ids : c.id = k
    BY DEF Counted, Full
  <2>2. m <= e
    <3>1. e < m => e \in 0 .. m - 1
      BY <2>1
    <3> QED
      BY <2>1, <3>1
  <2> QED
    BY <1>1, <2>1, <2>2
<1>4. \A c \in d.ids : c.table # t
  <2> SUFFICES ASSUME NEW c \in d.ids PROVE c.table # t
    OBVIOUS
  <2>1. c.id \in 0 .. e - 1
    BY <1>1, <1>3
  <2>2. PICK b \in d.ids : b.id = c.id /\ b.table # t
    BY <1>2, <2>1
  <2> QED
    BY <2>2 DEF Counted
<1>5. n.ids = d.ids \cup {y} /\ n.rows = d.rows
  BY DEF Overlay
<1>6. \A c \in v.ids : c.id < e
  BY <1>3 DEF Covers
<1>7. Overlay(v, w).ids = v.ids \cup {y}
  BY <1>1, <1>6 DEF Overlay
<1>8. ASSUME NEW ids, ids = d.ids \/ ids = v.ids PROVE Full(ids \cup {y})
  <2>1. \A c \in ids : c.id < e /\ c.id \in Nat
    BY <1>1, <1>3, <1>6, <1>8
  <2>2. \A k \in 0 .. e - 1 : \E c \in ids : c.id = k
    BY <1>2, <1>8
  <2>3. \A c \in ids \cup {y} : c.id < e + 1
    <3>1. y.id < e + 1
      BY <1>1
    <3>2. \A c \in ids : c.id < e + 1
      BY <2>1
    <3> HIDE DEF y
    <3> QED
      BY <3>1, <3>2
  <2>4. \A k \in 0 .. (e + 1) - 1 : k \in 0 .. e - 1 \/ k = e
    OBVIOUS
  <2>5. \A k \in 0 .. (e + 1) - 1 : \E c \in ids \cup {y} : c.id = k
    BY <1>1, <2>2, <2>4
  <2>6. e + 1 \in Nat
    OBVIOUS
  <2> HIDE DEF y
  <2> QED
    BY <2>3, <2>5, <2>6 DEF Full
<1>9. \A b, c \in n.ids : b.id = c.id \/ b.table = c.table => b = c
  BY <1>1, <1>4, <1>5 DEF Counted
<1>10. \A r \in n.rows : \E c \in n.ids : c.table = r.table /\ r.id < c.next
  BY <1>5 DEF Counted
<1>11. Covers(n.ids, d.ids)
  BY <1>1, <1>5 DEF Covers
<1>12. Full(n.ids) /\ Full(Overlay(v, w).ids)
  <2> HIDE DEF y, n
  <2>1. Full(d.ids \cup {y}) /\ Full(v.ids \cup {y})
    BY <1>8
  <2> QED
    BY <1>5, <1>7, <2>1
<1>13. \E c \in n.ids : c.table = t /\ 0 < c.next
  BY <1>1, <1>5
<1>14. Counted(n)
  BY <1>9, <1>10, <1>12 DEF Counted
<1> HIDE DEF n
<1>15. n = Overlay(d, w)
  BY DEF n
<1> QED
  BY <1>5, <1>11, <1>12, <1>13, <1>14, <1>15

\* A snapshot knows no counter that is not there, and none ahead of it.
LEMMA ViewCovered ==
  ASSUME ConnectionInv, NEW p \in Process
  PROVE  Covers(Current(p).ids, View(p).ids)
<1>1. ConnectionTypes /\ TransactionSound(p) /\ \A d \in tx[p].read : Covers(db.ids, d.ids)
  BY DEF ConnectionInv, CountersSound, CountersOf
<1>2. /\ tx[p].wrote \in Database /\ db \in Database
      /\ Current(p) \in Database /\ View(p) \in Database
      /\ tx[p].read = {} => View(p) = Current(p)
      /\ \A d : tx[p].read = {d} => d \in Database /\ View(p) = Overlay(d, tx[p].wrote)
      /\ tx[p].read = {} \/ \E d : tx[p].read = {d}
  BY <1>1, Views DEF TransactionSound, ConnectionTypes
<1>3. Current(p).ids \in SUBSET IdsRow
  BY <1>2 DEF Database
<1>4. CASE tx[p].read = {}
  BY <1>2, <1>3, <1>4, CoversOrder
<1>5. ASSUME NEW d, tx[p].read = {d} PROVE Covers(Current(p).ids, View(p).ids)
  <2>1. d \in Database /\ View(p) = Overlay(d, tx[p].wrote) /\ Covers(db.ids, d.ids)
    BY <1>1, <1>2, <1>5
  <2> SUFFICES ASSUME NEW c \in View(p).ids
               PROVE  \E e \in Current(p).ids : e.id = c.id /\ e.table = c.table /\ c.next <= e.next
    BY DEF Covers
  <2>2. CASE c \in tx[p].wrote.ids
    <3>1. c.next \in Nat
      BY <1>2, <2>2 DEF Database, IdsRow
    <3> QED
      BY <2>2, <3>1 DEF Current, Overlay
  <2>3. CASE c \in d.ids /\ \A b \in tx[p].wrote.ids : b.id # c.id
    <3>1. PICK e \in db.ids : e.id = c.id /\ e.table = c.table /\ c.next <= e.next
      BY <2>1, <2>3 DEF Covers
    <3>2. e \in Current(p).ids
      BY <2>3, <3>1 DEF Current, Overlay
    <3> QED
      BY <3>1, <3>2
  <2> QED
    BY <2>1, <2>2, <2>3 DEF Overlay
<1> QED
  BY <1>2, <1>4, <1>5

\* The id p has drawn is behind the counter p writes, and no counter goes back.
BumpSound(p) ==
  /\ Counted(Current(p)') /\ Covers(Current(p)'.ids, Current(p).ids)
  /\ Full(View(p)'.ids)
  /\ Current(p)'.rows = Current(p).rows
  /\ \E c \in Current(p)'.ids : c.table = Table(p) /\ Head(job[p].drawn) < c.next

\* The two statements of Connection::nextID agree, although others may have
\* committed between them and p may look at a snapshot.
LEMMA BumpCounts ==
  ASSUME ConnectionInv, NEW p \in Process, Bump(p)
  PROVE  BumpSound(p)
<1>1. /\ ConnectionTypes /\ TransactionSound(p) /\ PlanSound(p) /\ Drawing(p)
      /\ Counted(Current(p)) /\ Full(View(p).ids) /\ Working(p) /\ at[p] = "bump"
  BY DEF ConnectionInv, CountersSound, CountersOf, Bump, Working
<1>2. /\ Current(p) \in Database /\ View(p) \in Database
  BY <1>1, Views
<1>3. job[p] \in Job /\ Table(p) \in Tables /\ Head(job[p].drawn) \in Nat
  BY <1>1, JobFacts
<1>4. Covers(Current(p).ids, View(p).ids)
  BY ViewCovered
<1> DEFINE w == [ids |-> Bumped(p), rows |-> {}]
<1>5. /\ Current(p)' = Overlay(Current(p), w) /\ View(p)' = Overlay(View(p), w)
  BY BumpWrites, WriteIs DEF Wrote
<1>6. w.ids = Bumped(p) /\ w.rows = {}
  OBVIOUS
<1> HIDE DEF w
<1>7. CASE job[p].entry = None
  <2>1. PICK c \in View(p).ids : c.table = Table(p) /\ Head(job[p].drawn) <= c.next
    BY <1>1, <1>7 DEF Drawing
  <2>2. PICK x \in Current(p).ids : x.id = c.id /\ x.table = c.table /\ c.next <= x.next
    BY <1>4 DEF Covers
  <2>3. \A r \in Current(p).ids : r.table = Table(p) => r = x
    BY <1>1, <2>1, <2>2 DEF Counted
  <2> DEFINE y == [x EXCEPT !.next = @ + 1]
  <2>4. x \in IdsRow /\ c \in IdsRow
    BY <1>2 DEF Database
  <2>5. y \in IdsRow /\ y.id = x.id /\ y.table = x.table /\ y.next = x.next + 1
    BY <2>4 DEF IdsRow
  <2>6. Bumped(p) = {y}
    <3>1. { r \in Current(p).ids : r.table = Table(p) } = {x}
      BY <2>1, <2>2, <2>3
    <3> QED
      BY <1>7, <3>1 DEF Bumped, CountedUp
  <2>7. Head(job[p].drawn) < y.next
    <3>1. c.next \in Nat /\ x.next \in Nat
      BY <2>4 DEF IdsRow
    <3> QED
      BY <1>3, <2>1, <2>2, <2>5, <3>1
  <2> HIDE DEF y
  <2>8. \E b \in View(p).ids : b.id = x.id
    BY <2>2
  <2>9. /\ Counted(Overlay(Current(p), w)) /\ Covers(Overlay(Current(p), w).ids, Current(p).ids)
        /\ Full(Overlay(View(p), w).ids)
        /\ y \in Overlay(Current(p), w).ids /\ Overlay(Current(p), w).rows = Current(p).rows
    BY <1>1, <1>2, <1>6, <2>5, <2>6, <2>8, CountUp
  <2> QED
    BY <1>5, <2>1, <2>2, <2>5, <2>7, <2>9 DEF BumpSound
<1>8. CASE job[p].entry # None
  <2> DEFINE e == job[p].entry
  <2>1. e \in Nat
    BY <1>3, <1>8 DEF Job
  <2>2. /\ Head(job[p].drawn) = 0
        /\ \A k \in 0 .. e - 1 : \E c \in View(p).ids : c.id = k /\ c.table # Table(p)
    BY <1>1, <1>8 DEF Drawing
  <2>3. \A c \in Current(p).ids : c.id # e
    BY DEF Bump, EntryTaken
  <2>4. w.ids = {[id |-> e, table |-> Table(p), next |-> FirstNext]}
    BY <1>6, <1>8 DEF Bumped
  <2> HIDE DEF e
  <2>5. /\ Counted(Overlay(Current(p), w)) /\ Covers(Overlay(Current(p), w).ids, Current(p).ids)
        /\ Full(Overlay(View(p), w).ids)
        /\ \E c \in Overlay(Current(p), w).ids : c.table = Table(p) /\ 0 < c.next
        /\ Overlay(Current(p), w).rows = Current(p).rows
    BY <1>1, <1>2, <1>3, <1>4, <1>6, <2>1, <2>2, <2>3, <2>4, CountNew
  <2> QED
    BY <1>5, <2>2, <2>5 DEF BumpSound
<1> QED
  BY <1>7, <1>8

\* The id inserted is reserved, and in a SQLite transaction no row has it.
LEMMA InsertPlan ==
  ASSUME ConnectionInv, NEW p \in Process, Doing(p, "insert")
  PROVE  /\ Reserved(p, Table(p), Head(job[p].drawn))
         /\ driver = "sqlite3" /\ job[p].scoped =>
              \A r \in Current(p).rows : r.table = Table(p) => r.id # Head(job[p].drawn)
<1>1. /\ ConnectionTypes /\ PlanSound(p) /\ Working(p) /\ at[p] = "work"
      /\ Head(job[p].todo).do = "insert"
  BY DEF ConnectionInv, Doing, Working
<1>2. /\ job[p].drawn # << >> /\ job[p].drawn \in Seq(Nat) /\ job[p].todo # << >>
      /\ job[p].scoped \in BOOLEAN
  BY <1>1, JobFacts DEF Job
<1>3. Owned(p) = job[p].drawn
  BY <1>1 DEF Owned
<1>4. PICK held \in Seq(Tables) :
        /\ PlanOf(job[p].scoped, job[p].todo, held)
        /\ Len(held) = Len(Owned(p))
        /\ \A i \in 1 .. Len(held) : Reserved(p, held[i], Owned(p)[i])
        /\ driver = "sqlite3" /\ job[p].scoped =>
             \A i \in 1 .. Len(held) : \A r \in Current(p).rows :
               r.table = held[i] => r.id # Owned(p)[i]
  BY <1>1 DEF PlanSound, HeldSound
<1>5. held # << >> /\ held[1] = Table(p)
  BY <1>1, <1>2, <1>4, PlanOfStep DEF GoesOn, InsertGoesOn, Table
<1>6. 1 \in 1 .. Len(held) /\ Owned(p)[1] = Head(job[p].drawn)
  BY <1>2, <1>3, <1>4, <1>5
<1> QED
  BY <1>4, <1>5, <1>6

\* What an insert does to the views.
InsertSound(p) ==
  /\ Counted(Current(p)') /\ Current(p)'.ids = Current(p).ids /\ View(p)'.ids = View(p).ids
  /\ Current(p)'.rows = Current(p).rows \cup {NewRow(p)}

\* An insert leaves the counters alone and is behind the one of its table.
LEMMA InsertCounts ==
  ASSUME ConnectionInv, NEW p \in Process, Insert(p)
  PROVE  InsertSound(p)
<1>1. /\ ConnectionTypes /\ TransactionSound(p) /\ Counted(Current(p)) /\ Doing(p, "insert")
  BY DEF ConnectionInv, CountersSound, CountersOf, Insert
<1>2. Current(p) \in Database /\ View(p) \in Database
  BY <1>1, Views
<1>3. /\ Current(p)' = Overlay(Current(p), [ids |-> {}, rows |-> {NewRow(p)}])
      /\ View(p)' = Overlay(View(p), [ids |-> {}, rows |-> {NewRow(p)}])
  BY InsertWrites, WriteIs DEF Wrote
<1>4. /\ Current(p)'.ids = Current(p).ids /\ View(p)'.ids = View(p).ids
      /\ Current(p)'.rows = Current(p).rows \cup {NewRow(p)}
  BY <1>2, <1>3 DEF Overlay, Database
<1>5. \E c \in Current(p).ids : c.table = NewRow(p).table /\ NewRow(p).id < c.next
  BY <1>1, InsertPlan DEF Reserved, Behind, NewRow
<1>6. Counted(Current(p)')
  BY <1>1, <1>4, <1>5 DEF Counted
<1> QED
  BY <1>4, <1>6 DEF InsertSound

\* What is committed next: sound, nothing lost, and only rows of p added.
CommittedSound(p) ==
  /\ Counted(db') /\ Covers(db'.ids, db.ids)
  /\ db.rows \subseteq db'.rows
  /\ \A r \in db'.rows : r \in db.rows \/ r.by = p

\* Whatever commits, the counters go forward and rows stay.
LEMMA CommittedNext ==
  ASSUME ConnectionInv, NEW p \in Process, Acts(p)
  PROVE  CommittedSound(p)
<1>1. /\ ConnectionTypes /\ TransactionSound(p) /\ Counted(db) /\ Counted(Current(p))
      /\ Covers(Current(p).ids, db.ids)
  BY DEF ConnectionInv, CountersSound, CountersOf
<1>2. db \in Database /\ db.ids \in SUBSET IdsRow
  BY <1>1 DEF ConnectionTypes, Database
<1>3. CASE db' = db
  BY <1>1, <1>2, <1>3, CoversOrder DEF CommittedSound
<1>4. CASE CommitTransaction(p) /\ db' = Current(p)
  <2>1. \A r \in Current(p).rows : r \in db.rows \/ r.by = p
    BY <1>1 DEF Current, Overlay, TransactionSound
  <2>2. db.rows \subseteq Current(p).rows
    BY DEF Current, Overlay
  <2> QED
    BY <1>1, <1>4, <2>1, <2>2 DEF CommittedSound
<1>5. CASE Bump(p) /\ db' = Current(p)' /\ Current(p) = db
  BY <1>5, BumpCounts DEF BumpSound, CommittedSound
<1>6. CASE Insert(p) /\ db' = Current(p)' /\ Current(p) = db
  <2>1. Covers(db.ids, db.ids)
    BY <1>2, CoversOrder
  <2> QED
    BY <1>6, <2>1, InsertCounts DEF InsertSound, CommittedSound, NewRow
<1> QED
  BY <1>3, <1>4, <1>5, <1>6, CommittedChanges

\* The counters stay sound for the connection that acts.
LEMMA OwnCountersNext ==
  ASSUME ConnectionInv, NEW p \in Process, Acts(p), ConnectionTypes', TransactionSound(p)'
  PROVE  CountersOf(p)'
<1>1. ConnectionTypes /\ TransactionSound(p) /\ Counted(db) /\ CountersOf(p)
  BY DEF ConnectionInv, CountersSound, CountersOf
<1>2. /\ db.ids \in SUBSET IdsRow /\ db'.ids \in SUBSET IdsRow
      /\ Current(p).ids \in SUBSET IdsRow /\ Current(p)'.ids \in SUBSET IdsRow
      /\ \A d \in tx[p].read : d.ids \in SUBSET IdsRow
  <2>1. db \in Database /\ db' \in Database /\ tx[p] \in Transaction
    BY <1>1 DEF ConnectionTypes
  <2>2. Current(p) \in Database
    BY <1>1, Views
  <2>3. /\ tx'[p] \in Transaction
    BY DEF ConnectionTypes
  <2>4. Current(p)' \in Database
    BY <2>1, <2>3, OverlayTyped DEF Current, Transaction
  <2> QED
    BY <2>1, <2>2, <2>4 DEF Database, Transaction
<1>3. CommittedSound(p)
  BY CommittedNext
<1>4. CASE QuietSteps(p)
  <2>1. Quiet(p) /\ Covers(db.ids, db.ids)
    BY <1>2, <1>4, QuietIs, CoversOrder
  <2> QED
    BY <1>1, <2>1 DEF Quiet, CountersOf
<1>5. CASE Close(p) \/ RollbackTransaction(p) \/ CommitTransaction(p)
  <2>1. Fresh(p)
    BY <1>5, EndIs DEF Close, RollbackTransaction, CommitTransaction
  <2>2. Covers(db'.ids, db'.ids)
    BY <1>2, CoversOrder
  <2> QED
    BY <1>3, <2>1, <2>2 DEF Fresh, CommittedSound, CountersOf, Counted, NoTransaction
<1>6. ASSUME NEW w, Wrote(p, w), Counted(Current(p)'), Full(View(p)'.ids),
             Covers(Current(p)'.ids, Current(p).ids)
      PROVE  CountersOf(p)'
  <2>1. Covers(Current(p)'.ids, db.ids)
    BY <1>1, <1>2, <1>6, CoversOrder DEF CountersOf
  <2>2. Covers(Current(p)'.ids, db'.ids)
    BY <1>2, <1>6, <2>1, CoversOrder DEF Wrote
  <2>3. \A d \in tx[p].read : Covers(db'.ids, d.ids)
    BY <1>1, <1>2, <1>3, CoversOrder DEF CountersOf, CommittedSound
  <2> QED
    BY <1>6, <2>2, <2>3 DEF CountersOf, Wrote
<1>7. CASE Bump(p)
  BY <1>6, <1>7, BumpWrites, WriteIs, BumpCounts DEF BumpSound
<1>8. CASE Insert(p)
  <2>1. Covers(Current(p)'.ids, Current(p).ids) /\ Full(View(p)'.ids)
    BY <1>1, <1>2, <1>8, InsertCounts, CoversOrder DEF InsertSound, CountersOf
  <2> QED
    BY <1>6, <1>8, <2>1, InsertWrites, WriteIs, InsertCounts DEF InsertSound
<1> QED
  BY <1>4, <1>5, <1>7, <1>8, StepKinds

\* No connection ever sees two counters of a table, a gap in their keys, a row
\* ahead of its counter or a counter that goes back.
LEMMA CountersNext ==
  ASSUME ConnectionInv, NEW p \in Process, Acts(p), ConnectionTypes',
         (\A q \in Process : TransactionSound(q))'
  PROVE  CountersSound'
<1>1. ConnectionTypes /\ CommittedSound(p)
  BY CommittedNext DEF ConnectionInv
<1>2. ASSUME NEW q \in Process, q # p PROVE CountersOf(q)'
  <2>1. TransactionSound(q) /\ CountersOf(q)
    BY DEF ConnectionInv, CountersSound, CountersOf
  <2>2. tx'[q] = tx[q] /\ tx[q] \in Transaction
    BY <1>1, <1>2, Others DEF ConnectionTypes
  <2>3. /\ db.ids \in SUBSET IdsRow /\ db'.ids \in SUBSET IdsRow
        /\ \A d \in tx[q].read : d.ids \in SUBSET IdsRow
    BY <1>1, <2>2 DEF ConnectionTypes, Database, Transaction
  <2>4. \A d \in tx'[q].read : Covers(db'.ids, d.ids)
    BY <1>1, <2>1, <2>2, <2>3, CoversOrder DEF CountersOf, CommittedSound
  <2>5. CASE Unmoved(q)
    BY <2>1, <2>4, <2>5 DEF CountersOf, Unmoved
  <2>6. CASE Moved(q)
    <3>1. Covers(db'.ids, db'.ids)
      BY <2>3, CoversOrder
    <3> QED
      BY <1>1, <2>1, <2>4, <2>6, <3>1 DEF CountersOf, Moved, CommittedSound, Counted
  <2>7. CASE Joined(p, q)
    <3>1. db'.ids = db.ids
      <4>0. Insert(p)
        BY <2>7 DEF Joined
      <4>1. InsertSound(p) /\ (db' = db \/ (Current(p) = db /\ db' = Current(p)'))
        <5>1. Wrote(p, [ids |-> {}, rows |-> {NewRow(p)}])
          BY <4>0, InsertWrites, WriteIs
        <5>2. db' = db \/ (Current(p) = db /\ db' = Current(p)')
          BY <5>1 DEF Wrote
        <5> QED
          BY <4>0, <5>2, InsertCounts
      <4> QED
        BY <4>1 DEF InsertSound
    <3>2. \E c \in Current(q).ids : c.table = NewRow(p).table /\ NewRow(p).id < c.next
      <4>1. \E c \in Current(p).ids : c.table = NewRow(p).table /\ NewRow(p).id < c.next
        BY <2>7, InsertPlan DEF Joined, Insert, Reserved, Behind, NewRow
      <4>2. Current(p).ids = db.ids
        <5>1. PlaceSound(p) /\ TransactionSound(p) /\ Working(p)
          BY <2>7 DEF ConnectionInv, Joined, Insert, Doing, Working
        <5>2. Rests(p) /\ driver = "mysql"
          BY <2>7, <5>1 DEF PlaceSound, Working, Joined
        <5>3. tx[p].wrote = Nothing
          BY <5>1, <5>2 DEF Rests, TransactionSound, NoTransaction
        <5> QED
          BY <1>1, <5>1, <5>3, Views
      <4>3. PICK c \in db.ids : c.table = NewRow(p).table /\ NewRow(p).id < c.next
        BY <4>1, <4>2
      <4>4. PICK e \in Current(q).ids : e.table = c.table /\ c.next <= e.next
        BY <2>1 DEF CountersOf, Covers
      <4>5. /\ NewRow(p).id \in Nat /\ c.next \in Nat /\ e.next \in Nat
        <5>1. NewRow(p) \in Row
          BY <1>1, <2>7, NewRowTyped DEF Joined, Insert, ConnectionInv
        <5>2. Current(q) \in Database
          BY <1>1, <2>1, Views
        <5> QED
          BY <2>3, <5>1, <5>2 DEF Row, Database, IdsRow
      <4>6. NewRow(p).id < e.next
        BY <4>3, <4>4, <4>5
      <4> QED
        BY <4>3, <4>4, <4>6
    <3>3. Counted(Current(q)')
      BY <2>1, <2>7, <3>2 DEF Counted, Joined, CountersOf
    <3> QED
      BY <2>1, <2>4, <2>7, <3>1, <3>3 DEF CountersOf, Joined
  <2> QED
    BY <1>2, <2>5, <2>6, <2>7, OtherViews
<1>3. \A q \in Process : CountersOf(q)'
  BY <1>2, OwnCountersNext
<1> QED
  BY <1>1, <1>3 DEF CountersSound, CountersOf, CommittedSound

-----------------------------------------------------------------------------
(* The ids drawn. *)

\* An id once reserved remains so.
LEMMA ReservedKept ==
  ASSUME NEW a \in SUBSET IdsRow, NEW b \in SUBSET IdsRow, Covers(a, b), NEW t, NEW n \in Nat,
         Behind(b, t, n)
  PROVE  Behind(a, t, n)
<1>1. PICK c \in b : c.table = t /\ n < c.next
  BY DEF Behind
<1>2. PICK e \in a : e.table = c.table /\ c.next <= e.next
  BY DEF Covers
<1>3. c.next \in Nat /\ e.next \in Nat
  BY DEF IdsRow
<1>4. n < e.next
  BY <1>1, <1>2, <1>3
<1> QED
  BY <1>1, <1>2, <1>4 DEF Behind

\* The ids held stay reserved while nothing is drawn or inserted.
LEMMA HeldKept ==
  ASSUME ConnectionTypes, ConnectionTypes', NEW q \in Process, NEW held \in Seq(Tables),
         TransactionSound(q), TransactionSound(q)',
         HeldSound(q, held), Owned(q) \in Seq(Nat), Owned(q)' = Owned(q),
         job'[q].scoped = job[q].scoped, driver' = driver,
         Covers(Current(q)'.ids, Current(q).ids),
         driver = "sqlite3" /\ job[q].scoped /\ held # << >> =>
           Current(q)'.rows = Current(q).rows
  PROVE  HeldSound(q, held)'
<1>1. Current(q).ids \in SUBSET IdsRow /\ Current(q)'.ids \in SUBSET IdsRow
  <2>1. Current(q) \in Database
    BY Views
  <2>2. db' \in Database /\ tx'[q] \in Transaction
    BY DEF ConnectionTypes
  <2>3. Current(q)' \in Database
    BY <2>2, OverlayTyped DEF Current, Transaction
  <2> QED
    BY <2>1, <2>3 DEF Database
<1>2. Len(held)' = Len(Owned(q)')
  BY DEF HeldSound
<1>3. ASSUME NEW i \in 1 .. Len(held) PROVE Reserved(q, held[i], Owned(q)[i])'
  <2>1. Owned(q)[i] \in Nat
    BY DEF HeldSound
  <2>2. Reserved(q, held[i], Owned(q)[i])
    BY DEF HeldSound
  <2>3. Behind(Current(q)'.ids, held[i], Owned(q)[i])
    BY <1>1, <2>1, <2>2, ReservedKept DEF Reserved
  <2> QED
    BY <2>3 DEF Reserved
<1>4. ASSUME driver = "sqlite3", job[q].scoped, NEW i \in 1 .. Len(held)
      PROVE  \A r \in Current(q)'.rows : r.table = held[i] => r.id # Owned(q)[i]
  <2>1. held # << >>
    OBVIOUS
  <2>2. Current(q)'.rows = Current(q).rows
    BY <1>4, <2>1
  <2> QED
    BY <1>4, <2>2 DEF HeldSound
<1> QED
  BY <1>2, <1>3, <1>4 DEF HeldSound

\* The step of p leaves the ids of the others to them.
LEMMA OtherPlanNext ==
  ASSUME ConnectionInv, NEW p \in Process, Acts(p), ConnectionTypes',
         NEW q \in Process, q # p, TransactionSound(q)'
  PROVE  PlanSound(q)'
<1>1. /\ ConnectionTypes /\ TransactionSound(q) /\ PlaceSound(q) /\ PlanSound(q)
      /\ CommittedSound(p) /\ db.ids \in SUBSET IdsRow
  BY CommittedNext DEF ConnectionInv, ConnectionTypes, Database
<1>2. tx'[q] = tx[q] /\ at'[q] = at[q] /\ job'[q] = job[q] /\ driver' = driver
  BY <1>1, Others
<1>3. Owned(q)' = Owned(q) /\ (Working(q)' <=> Working(q))
  BY <1>2 DEF Owned, Working
<1> SUFFICES ASSUME Working(q) PROVE PlanSound(q)'
  BY <1>3 DEF PlanSound
<1>4. /\ job[q].todo # << >> /\ Owned(q) \in Seq(Nat) /\ job[q].drawn \in Seq(Nat)
      /\ at[q] = "bump" => job[q].drawn # << >> /\ Head(job[q].todo).do = "draw"
      /\ job[q].scoped \in BOOLEAN
  BY <1>1, JobFacts DEF Job
<1>5. PICK held \in Seq(Tables) : PlanOf(job[q].scoped, job[q].todo, held) /\ HeldSound(q, held)
  BY <1>1 DEF PlanSound
<1>6. Current(q) \in Database
  BY <1>1, Views
<1>7. Covers(Current(q)'.ids, Current(q).ids)
  <2>1. Covers(Current(q).ids, Current(q).ids)
    BY <1>6, CoversOrder DEF Database
  <2> QED
    BY <1>1, <2>1, OtherViews DEF Unmoved, Moved, Joined, CommittedSound
<1>8. ASSUME driver = "sqlite3", job[q].scoped, held # << >>
      PROVE  Current(q)'.rows = Current(q).rows
  <2>1. Len(Owned(q)) = Len(held) /\ Len(held) # 0
    BY <1>5, <1>8 DEF HeldSound
  <2>2. tx[q].open
    BY <1>1, <1>8 DEF PlaceSound, Working
  <2>3. tx[q].lock # "none"
    <3>1. CASE at[q] = "bump"
      BY <1>1, <1>8, <2>2, <3>1 DEF PlaceSound
    <3>2. CASE at[q] = "work"
      <4>1. job[q].drawn # << >>
        BY <2>1, <3>2 DEF Owned
      <4> QED
        BY <1>1, <2>2, <3>2, <4>1 DEF PlaceSound, Exclusive
    <3> QED
      BY <3>1, <3>2 DEF Working
  <2>4. ~Moved(q) /\ ~Joined(p, q)
    BY <1>8, <2>3 DEF Moved, Joined
  <2> QED
    BY <2>4, OtherViews DEF Unmoved
<1>9. HeldSound(q, held)'
  BY <1>1, <1>2, <1>3, <1>4, <1>5, <1>7, <1>8, HeldKept
<1> QED
  BY <1>2, <1>4, <1>5, <1>9 DEF PlanSound

\* The operation after each of its statements.
LEMMA JobNext ==
  ASSUME ConnectionTypes, NEW p \in Process
  PROVE  /\ Bump(p) \/ Insert(p) =>
              /\ job'[p].todo = Tail(job[p].todo) /\ job'[p].scoped = job[p].scoped
              /\ job'[p].name = job[p].name
              /\ at'[p] = Onward(p)
         /\ Bump(p) => job'[p].drawn = job[p].drawn
         /\ Insert(p) => job'[p].drawn = Tail(job[p].drawn)
         /\ FindContentType(p) =>
              /\ job'[p].todo =
                   (IF ContentTypeFound(p) THEN << >> ELSE AddRow(Table(p))) \o Tail(job[p].todo)
              /\ job'[p].scoped = job[p].scoped /\ job'[p].name = job[p].name
              /\ job'[p].drawn = job[p].drawn /\ at'[p] = at[p]
<1>1. job \in [Process -> Job] /\ job[p] \in Job /\ at \in [Process -> Places]
  BY DEF ConnectionTypes
<1>2. ASSUME Bump(p) PROVE /\ job'[p].todo = Tail(job[p].todo) /\ job'[p].scoped = job[p].scoped
                           /\ job'[p].name = job[p].name /\ job'[p].drawn = job[p].drawn
                           /\ at'[p] = Onward(p)
  <2>1. job' = [job EXCEPT ![p].todo = Tail(@), ![p].entry = None]
    BY <1>2 DEF Bump
  <2>2. at'[p] = Onward(p)
    BY <1>1, <1>2 DEF Bump, Goto
  <2> QED
    BY <1>1, <2>1, <2>2 DEF Job
<1>3. ASSUME Insert(p) PROVE /\ job'[p].todo = Tail(job[p].todo) /\ job'[p].scoped = job[p].scoped
                             /\ job'[p].name = job[p].name /\ job'[p].drawn = Tail(job[p].drawn)
                             /\ at'[p] = Onward(p)
  <2>1. job' = [job EXCEPT ![p].todo = Tail(@), ![p].drawn = Tail(@)]
    BY <1>3 DEF Insert
  <2>2. at'[p] = Onward(p)
    BY <1>1, <1>3 DEF Insert, Goto
  <2> QED
    BY <1>1, <2>1, <2>2 DEF Job
<1>4. ASSUME FindContentType(p)
      PROVE  /\ job'[p].todo =
                  (IF ContentTypeFound(p) THEN << >> ELSE AddRow(Table(p))) \o Tail(job[p].todo)
             /\ job'[p].scoped = job[p].scoped /\ job'[p].name = job[p].name
             /\ job'[p].drawn = job[p].drawn /\ at'[p] = at[p]
  <2>1. /\ job' = [job EXCEPT ![p].todo =
                    (IF ContentTypeFound(p) THEN << >> ELSE AddRow(Table(p))) \o Tail(@)]
        /\ at' = at
    BY <1>4 DEF FindContentType
  <2> DEFINE x == IF ContentTypeFound(p) THEN << >> ELSE AddRow(Table(p))
  <2>2. job' = [job EXCEPT ![p].todo = x \o Tail(job[p].todo)]
    BY <1>1, <2>1
  <2> HIDE DEF x
  <2>3. /\ job'[p].todo = x \o Tail(job[p].todo)
        /\ job'[p].scoped = job[p].scoped /\ job'[p].name = job[p].name
        /\ job'[p].drawn = job[p].drawn
    BY <1>1, <2>2 DEF Job
  <2> QED
    BY <2>1, <2>3 DEF x
<1> QED
  BY <1>2, <1>3, <1>4

\* After a step p is where its plan has it, with the ids it holds reserved.
LEMMA OwnPlanNext ==
  ASSUME ConnectionInv, NEW p \in Process, Acts(p), ConnectionTypes', TransactionSound(p)'
  PROVE  PlanSound(p)'
<1>1. /\ ConnectionTypes /\ TransactionSound(p) /\ PlaceSound(p) /\ PlanSound(p) /\ Drawing(p)
  BY DEF ConnectionInv
<1>2. /\ job \in [Process -> Job] /\ job[p] \in Job /\ at \in [Process -> Places]
      /\ driver' = driver /\ job'[p] \in Job
  BY <1>1 DEF ConnectionTypes, Acts, Connect, Close, Begin, LookupMisses, Step, FindContentType,
              SelectNextId, Bump, Insert, StatementFails, WaitTimesOut, Throw,
              RollbackTransaction, CommitTransaction, CommitRefused
<1>3. CASE \/ Connect(p) \/ Close(p) \/ StatementFails(p) \/ WaitTimesOut(p)
           \/ RollbackTransaction(p) \/ CommitTransaction(p) \/ CommitRefused(p)
  <2>1. at'[p] \in {"idle", "closed", "unwind"}
    BY <1>2, <1>3 DEF Connect, Close, StatementFails, WaitTimesOut, Throw, RollbackTransaction,
                      CommitTransaction, CommitRefused, Goto
  <2> QED
    BY <2>1 DEF PlanSound, Working
<1>4. ASSUME at'[p] = "work", job'[p].drawn = << >>, job'[p].todo # << >>,
             PlanOf(job'[p].scoped, job'[p].todo, << >>)
      PROVE  PlanSound(p)'
  <2>1. HeldSound(p, << >>)'
    BY <1>4 DEF HeldSound, Owned
  <2>2. << >> \in Seq(Tables)
    OBVIOUS
  <2> QED
    BY <1>4, <2>1, <2>2 DEF PlanSound
<1>5. ASSUME NEW op \in Operations, Begin(p, op) PROVE PlanSound(p)'
  <2>1. at'[p] = "work" /\ job'[p].drawn = << >>
    BY <1>2, <1>5 DEF Begin, StartJob, Goto, NoJob
  <2>2. job'[p].scoped = TRUE /\ job'[p].todo = Statements[op]
    BY <1>2, <1>5 DEF Begin, StartJob, NoJob
  <2> QED
    BY <1>4, <2>1, <2>2, PlanStarts, PlanStartsDrawing DEF PlanOf
<1>6. ASSUME NEW t \in Lookups, NEW n \in Name, LookupMisses(p, t, n) PROVE PlanSound(p)'
  <2>1. at'[p] = "work" /\ job'[p].drawn = << >>
    BY <1>2, <1>6 DEF LookupMisses, StartJob, Goto, NoJob
  <2>2. job'[p].scoped = FALSE /\ job'[p].todo = AddRow(t)
    BY <1>2, <1>6 DEF LookupMisses, StartJob, NoJob
  <2>3. AddRow(t) # << >>
    BY DEF AddRow
  <2>4. PlanOf(FALSE, AddRow(t), << >>)
    BY DEF PlanOf, LookupPlan
  <2> QED
    BY <1>4, <2>1, <2>2, <2>3, <2>4
<1> SUFFICES ASSUME FindContentType(p) \/ SelectNextId(p) \/ Bump(p) \/ Insert(p)
             PROVE  PlanSound(p)'
  BY <1>3, <1>5, <1>6 DEF Acts, Step
<1>7. Working(p)
  BY DEF FindContentType, SelectNextId, Bump, Insert, Doing, Working
<1>8. /\ job[p].todo # << >> /\ job[p].todo \in Seq(Statement) /\ Tail(job[p].todo) \in Seq(Statement)
      /\ Head(job[p].todo) \in Statement /\ Table(p) \in Tables
      /\ Owned(p) \in Seq(Nat) /\ job[p].drawn \in Seq(Nat)
      /\ at[p] = "bump" => job[p].drawn # << >> /\ Head(job[p].todo).do = "draw"
      /\ at[p] = "work" /\ Head(job[p].todo).do = "insert" => job[p].drawn # << >>
      /\ job[p].scoped \in BOOLEAN
  BY <1>1, <1>7, JobFacts DEF Job
<1>9. PICK held \in Seq(Tables) : PlanOf(job[p].scoped, job[p].todo, held) /\ HeldSound(p, held)
  BY <1>1, <1>7 DEF PlanSound
<1>10. GoesOn(job[p].scoped, job[p].todo, held)
  BY <1>8, <1>9, PlanOfStep
<1>11. Current(p) \in Database /\ Current(p).ids \in SUBSET IdsRow
  BY <1>1, Views DEF Database
<1>12. CASE FindContentType(p)
  <2>1. /\ FindGoesOn(job[p].scoped, job[p].todo, held)
    BY <1>10, <1>12 DEF FindContentType, Doing, GoesOn
  <2>2. Quiet(p)
    BY <1>12, QuietIs DEF QuietSteps
  <2>3. /\ job'[p].todo =
             (IF ContentTypeFound(p) THEN << >> ELSE AddRow(Table(p))) \o Tail(job[p].todo)
        /\ job'[p].scoped = job[p].scoped /\ job'[p].drawn = job[p].drawn /\ at'[p] = at[p]
        /\ at[p] = "work"
    BY <1>1, <1>12, JobNext DEF FindContentType, Doing
  <2>4. PlanOf(job[p].scoped, job'[p].todo, held) /\ job'[p].todo # << >>
    <3>1. CASE ContentTypeFound(p)
      <4>1. job'[p].todo = Tail(job[p].todo)
        BY <1>8, <2>3, <3>1, ConcatEmptySeq
      <4> QED
        BY <2>1, <4>1 DEF FindGoesOn
    <3>2. CASE ~ContentTypeFound(p)
      <4>1. job'[p].todo = AddRow(Table(p)) \o Tail(job[p].todo)
        BY <2>3, <3>2
      <4>2. Table(p) = "content_type"
        BY <2>1 DEF FindGoesOn, Table
      <4>3. AddRow(Table(p)) \o Tail(job[p].todo) # << >>
        <5>1. AddRow(Table(p)) \in Seq(Statement) /\ AddRow(Table(p)) # << >>
          BY <1>8, StatementFacts DEF AddRow
        <5> QED
          BY <1>8, <5>1, ConcatEqualIffEmpty, ConcatProperties
      <4> QED
        BY <2>1, <4>1, <4>2, <4>3 DEF FindGoesOn
    <3> QED
      BY <3>1, <3>2
  <2>5. HeldSound(p, held)'
    <3>1. Owned(p)' = Owned(p)
      BY <2>3 DEF Owned
    <3>2. Covers(Current(p)'.ids, Current(p).ids)
      BY <1>11, <2>2, CoversOrder DEF Quiet
    <3> QED
      BY <1>1, <1>2, <1>8, <1>9, <2>2, <2>3, <3>1, <3>2, HeldKept DEF Quiet
  <2> QED
    BY <2>3, <2>4, <2>5 DEF PlanSound
<1>13. CASE SelectNextId(p)
  <2>1. Quiet(p) /\ at[p] = "work" /\ at'[p] = "bump" /\ Head(job[p].todo).do = "draw"
    BY <1>2, <1>13, QuietIs DEF QuietSteps, SelectNextId, Goto, Doing
  <2>2. /\ job'[p].todo = job[p].todo /\ job'[p].scoped = job[p].scoped
        /\ \E n : job'[p].drawn = <<n>> \o job[p].drawn
    BY <1>1, <1>13, DrawnIs
  <2>3. job'[p].drawn # << >> /\ Tail(job'[p].drawn) = job[p].drawn
    <3>1. PICK n : job'[p].drawn = <<n>> \o job[p].drawn
      BY <2>2
    <3>2. n \in Nat
      <4>1. job'[p].drawn \in Seq(Nat) /\ job'[p].drawn[1] = n /\ Len(job'[p].drawn) >= 1
        BY <1>2, <1>8, <3>1 DEF Job
      <4> QED
        BY <4>1
    <3>3. <<n>> \o job[p].drawn # << >> /\ Tail(<<n>> \o job[p].drawn) = job[p].drawn
      BY <1>8, <3>2, Conses
    <3> QED
      BY <3>1, <3>3
  <2>4. HeldSound(p, held)'
    <3>1. Owned(p)' = Owned(p)
      BY <2>1, <2>3 DEF Owned
    <3>2. Covers(Current(p)'.ids, Current(p).ids)
      BY <1>11, <2>1, CoversOrder DEF Quiet
    <3> QED
      BY <1>1, <1>2, <1>8, <1>9, <2>1, <2>2, <3>1, <3>2, HeldKept DEF Quiet
  <2> QED
    BY <1>8, <1>9, <2>1, <2>2, <2>3, <2>4 DEF PlanSound
<1>14. CASE Bump(p)
  <2>1. /\ at[p] = "bump" /\ BumpSound(p) /\ job[p].drawn # << >>
        /\ Head(job[p].todo).do = "draw"
    BY <1>8, <1>14, BumpCounts DEF Bump
  <2>2. /\ job'[p].todo = Tail(job[p].todo) /\ job'[p].scoped = job[p].scoped
        /\ job'[p].drawn = job[p].drawn /\ at'[p] = Onward(p)
    BY <1>1, <1>14, JobNext
  <2>0. PICK held2 : held2 = <<Table(p)>> \o held
    OBVIOUS
  <2>3. PlanOf(job[p].scoped, Tail(job[p].todo), held2) /\ Tail(job[p].todo) # << >>
    BY <1>10, <2>0, <2>1 DEF GoesOn, DrawGoesOn, Table
  <2>4. at'[p] = "work"
    BY <2>2, <2>3 DEF Onward
  <2>5. Owned(p) = Tail(job[p].drawn) /\ Owned(p)' = job[p].drawn
    BY <2>1, <2>2, <2>4 DEF Owned
  <2>6. /\ held2 \in Seq(Tables) /\ Len(held2) = Len(held) + 1 /\ held2[1] = Table(p)
        /\ \A i \in 2 .. Len(held2) : i - 1 \in 1 .. Len(held) /\ held2[i] = held[i - 1]
    BY <1>8, <1>9, <2>0
  <2>7. /\ Len(job[p].drawn) = Len(Owned(p)) + 1 /\ job[p].drawn[1] = Head(job[p].drawn)
        /\ \A i \in 2 .. Len(job[p].drawn) : job[p].drawn[i] = Owned(p)[i - 1]
    BY <1>8, <2>1, <2>5
  <2>8. Current(p)'.ids \in SUBSET IdsRow
    <3>1. db' \in Database /\ tx'[p] \in Transaction
      BY DEF ConnectionTypes
    <3>2. Current(p)' \in Database
      BY <3>1, OverlayTyped DEF Current, Transaction
    <3> QED
      BY <3>2 DEF Database
  <2>9. Len(held2) = Len(job[p].drawn)
    BY <1>9, <2>6, <2>7 DEF HeldSound
  <2>10. ASSUME NEW i \in 1 .. Len(held2)
         PROVE  Behind(Current(p)'.ids, held2[i], job[p].drawn[i])
    <3>1. CASE i = 1
      BY <2>1, <2>6, <2>7, <3>1 DEF BumpSound, Behind
    <3>2. CASE i # 1
      <4>1. i \in 2 .. Len(held2) /\ i \in 2 .. Len(job[p].drawn)
        BY <2>6, <2>9, <3>2
      <4>2. /\ i - 1 \in 1 .. Len(held) /\ held2[i] = held[i - 1]
            /\ job[p].drawn[i] = Owned(p)[i - 1]
        BY <2>6, <2>7, <4>1
      <4>3. Behind(Current(p).ids, held2[i], job[p].drawn[i])
        BY <1>9, <4>2 DEF HeldSound, Reserved
      <4>4. job[p].drawn[i] \in Nat
        BY <1>8, <4>1
      <4> QED
        BY <1>11, <2>1, <2>8, <4>3, <4>4, ReservedKept DEF BumpSound
    <3> QED
      BY <3>1, <3>2
  <2>11. ASSUME driver = "sqlite3", job[p].scoped, NEW i \in 1 .. Len(held2)
         PROVE  \A r \in Current(p).rows : r.table = held2[i] => r.id # job[p].drawn[i]
    <3>1. CASE i = 1
      BY <1>1, <2>1, <2>6, <2>7, <2>11, <3>1 DEF Drawing
    <3>2. CASE i # 1
      <4>1. i \in 2 .. Len(held2) /\ i \in 2 .. Len(job[p].drawn)
        BY <2>6, <2>9, <3>2
      <4>2. /\ i - 1 \in 1 .. Len(held) /\ held2[i] = held[i - 1]
            /\ job[p].drawn[i] = Owned(p)[i - 1]
        BY <2>6, <2>7, <4>1
      <4> QED
        BY <1>9, <2>11, <4>2 DEF HeldSound
    <3> QED
      BY <3>1, <3>2
  <2>12. HeldSound(p, held2)'
    <3>1. Current(p)'.rows = Current(p).rows
      BY <2>1 DEF BumpSound
    <3> QED
      BY <1>2, <2>2, <2>5, <2>9, <2>10, <2>11, <3>1 DEF HeldSound, Reserved
  <2> QED
    BY <2>2, <2>3, <2>4, <2>6, <2>12 DEF PlanSound
<1>15. CASE Insert(p)
  <2>1. /\ at[p] = "work" /\ InsertSound(p) /\ job[p].drawn # << >>
        /\ Head(job[p].todo).do = "insert" /\ Doing(p, "insert")
    BY <1>8, <1>15, InsertCounts DEF Insert, Doing
  <2>2. /\ job'[p].todo = Tail(job[p].todo) /\ job'[p].scoped = job[p].scoped
        /\ job'[p].drawn = Tail(job[p].drawn) /\ at'[p] = Onward(p)
    BY <1>1, <1>15, JobNext
  <2>3. CASE Tail(job[p].todo) = << >>
    <3>1. at'[p] \in {"commit", "idle"}
      BY <2>2, <2>3 DEF Onward
    <3> QED
      BY <3>1 DEF PlanSound, Working
  <2>4. CASE Tail(job[p].todo) # << >>
    <3>1. InsertGoesOn(job[p].scoped, job[p].todo, held)
      BY <1>10, <2>1 DEF GoesOn
    <3> DEFINE held2 == Tail(held)
    <3>2. /\ PlanOf(job[p].scoped, Tail(job[p].todo), held2) /\ held # << >>
          /\ \A i \in 2 .. Len(held) : held[i] # Table(p)
      BY <2>4, <3>1 DEF InsertGoesOn, Table
    <3>3. at'[p] = "work"
      BY <2>2, <2>4 DEF Onward
    <3>4. Owned(p) = job[p].drawn /\ Owned(p)' = Tail(job[p].drawn)
      BY <2>1, <2>2, <3>3 DEF Owned
    <3>5. /\ held2 \in Seq(Tables) /\ Len(held2) = Len(held) - 1
          /\ \A i \in 1 .. Len(held2) : i + 1 \in 2 .. Len(held) /\ held2[i] = held[i + 1]
      BY <1>9, <3>2
    <3>6. /\ Len(Tail(job[p].drawn)) = Len(job[p].drawn) - 1
          /\ \A i \in 1 .. Len(Tail(job[p].drawn)) : Tail(job[p].drawn)[i] = job[p].drawn[i + 1]
      BY <1>8, <2>1
    <3> HIDE DEF held2
    <3>7. Len(held2) = Len(Tail(job[p].drawn))
      BY <1>9, <3>4, <3>5, <3>6 DEF HeldSound
    <3>8. ASSUME NEW i \in 1 .. Len(held2)
          PROVE  /\ Behind(Current(p).ids, held2[i], Tail(job[p].drawn)[i])
                 /\ driver = "sqlite3" /\ job[p].scoped =>
                      \A r \in Current(p).rows :
                        r.table = held2[i] => r.id # Tail(job[p].drawn)[i]
                 /\ held2[i] # Table(p)
      <4>1. /\ i + 1 \in 2 .. Len(held) /\ i + 1 \in 1 .. Len(held) /\ held2[i] = held[i + 1]
            /\ Tail(job[p].drawn)[i] = Owned(p)[i + 1]
        BY <3>4, <3>5, <3>6, <3>7
      <4>2. held2[i] # Table(p)
        BY <3>2, <4>1
      <4>3. Behind(Current(p).ids, held2[i], Tail(job[p].drawn)[i])
        BY <1>9, <4>1 DEF HeldSound, Reserved
      <4>4. driver = "sqlite3" /\ job[p].scoped =>
              \A r \in Current(p).rows : r.table = held2[i] => r.id # Tail(job[p].drawn)[i]
        BY <1>9, <4>1 DEF HeldSound
      <4> QED
        BY <4>2, <4>3, <4>4
    <3>9. HeldSound(p, held2)'
      <4>1. /\ Current(p)'.ids = Current(p).ids
            /\ Current(p)'.rows = Current(p).rows \cup {NewRow(p)} /\ NewRow(p).table = Table(p)
        BY <2>1 DEF InsertSound, NewRow
      <4> QED
        BY <1>2, <2>2, <3>4, <3>7, <3>8, <4>1 DEF HeldSound, Reserved
    <3> QED
      BY <2>2, <2>4, <3>2, <3>3, <3>5, <3>9 DEF PlanSound
  <2> QED
    BY <2>3, <2>4
<1> QED
  BY <1>12, <1>13, <1>14, <1>15

\* Views are of databases after the step as well.
LEMMA ViewsNext ==
  ASSUME ConnectionTypes', NEW q \in Process, TransactionSound(q)'
  PROVE  Current(q)' \in Database /\ View(q)' \in Database
<1>1. db' \in Database /\ tx'[q] \in Transaction
  BY DEF ConnectionTypes
<1>2. tx'[q].wrote \in Database /\ tx'[q].read \in SUBSET Database
  BY <1>1 DEF Transaction
<1>3. Current(q)' \in Database
  BY <1>1, <1>2, OverlayTyped DEF Current
<1>4. CASE tx'[q].read = {}
  BY <1>3, <1>4 DEF View, Current
<1>5. CASE tx'[q].read # {}
  <2>1. PICK d \in tx'[q].read : tx'[q].read = {d}
    BY <1>5 DEF TransactionSound
  <2>2. View(q)' = Overlay(d, tx'[q].wrote)
    BY <2>1 DEF View
  <2> QED
    BY <1>2, <1>3, <2>1, <2>2, OverlayTyped
<1> QED
  BY <1>3, <1>4, <1>5

\* What was selected before the update still is what was there.
LEMMA DrawingNext ==
  ASSUME ConnectionInv, NEW p \in Process, Acts(p), ConnectionTypes',
         NEW q \in Process, TransactionSound(q)'
  PROVE  Drawing(q)'
<1>1. /\ ConnectionTypes /\ TransactionSound(q) /\ PlaceSound(q) /\ PlanSound(q) /\ Drawing(q)
      /\ CommittedSound(p) /\ db.ids \in SUBSET IdsRow /\ Counted(Current(q)) /\ Full(View(q).ids)
  BY CommittedNext DEF ConnectionInv, ConnectionTypes, Database, CountersSound, CountersOf
<1>2. View(q) \in Database /\ Current(q) \in Database
  BY <1>1, Views
<1>3. CASE q # p
  <2>1. tx'[q] = tx[q] /\ at'[q] = at[q] /\ job'[q] = job[q] /\ driver' = driver
    BY <1>1, <1>3, Others
  <2> SUFFICES ASSUME at[q] = "bump" PROVE Drawing(q)'
    BY <2>1 DEF Drawing
  <2>2. Table(q)' = Table(q)
    BY <2>1 DEF Table
  <2>3. Covers(View(q)'.ids, View(q).ids)
    <3>1. Covers(View(q).ids, View(q).ids)
      BY <1>2, CoversOrder DEF Database
    <3> QED
      BY <1>1, <1>3, <3>1, OtherViews DEF Unmoved, Moved, Joined, CommittedSound
  <2>4. ASSUME driver = "sqlite3", job[q].scoped PROVE Current(q)' = Current(q)
    <3>1. tx[q].lock # "none"
      BY <1>1, <2>4 DEF PlaceSound
    <3> QED
      BY <1>3, <2>4, <3>1, OtherViews DEF Unmoved, Moved, Joined
  <2>5. ASSUME job[q].entry = None
        PROVE  \E c \in View(q)'.ids : c.table = Table(q) /\ Head(job[q].drawn) <= c.next
    <3>1. PICK c \in View(q).ids : c.table = Table(q) /\ Head(job[q].drawn) <= c.next
      BY <1>1, <2>5 DEF Drawing
    <3>2. PICK e \in View(q)'.ids : e.table = c.table /\ c.next <= e.next
      BY <2>3 DEF Covers
    <3>3. c.next \in Nat /\ e.next \in Nat /\ Head(job[q].drawn) \in Nat
      <4>1. Head(job[q].drawn) \in Nat
        BY <1>1, JobFacts DEF Working
      <4> QED
        BY <1>2, <4>1, ViewsNext DEF Database, IdsRow
    <3>4. Head(job[q].drawn) <= e.next
      BY <3>1, <3>2, <3>3
    <3> QED
      BY <3>1, <3>2, <3>4
  <2>6. ASSUME job[q].entry # None
        PROVE  /\ Head(job[q].drawn) = 0
               /\ \A k \in 0 .. job[q].entry - 1 :
                    \E c \in View(q)'.ids : c.id = k /\ c.table # Table(q)
    BY <1>1, <2>3, <2>6 DEF Drawing, Covers
  <2> QED
    BY <1>1, <2>1, <2>2, <2>4, <2>5, <2>6 DEF Drawing
<1>4. CASE q = p /\ ~SelectNextId(p)
  <2>1. at'[p] # "bump"
    <3>1. at \in [Process -> Places]
      BY <1>1 DEF ConnectionTypes
    <3>2. CASE \/ Connect(p) \/ Close(p) \/ StatementFails(p) \/ WaitTimesOut(p)
               \/ RollbackTransaction(p) \/ CommitTransaction(p) \/ CommitRefused(p)
      BY <3>1, <3>2 DEF Connect, Close, StatementFails, WaitTimesOut, Throw, RollbackTransaction,
                        CommitTransaction, CommitRefused, Goto
    <3>3. CASE \/ \E op \in Operations : Begin(p, op)
               \/ \E t \in Lookups, n \in Name : LookupMisses(p, t, n)
      BY <3>1, <3>3 DEF Begin, LookupMisses, StartJob, Goto
    <3>4. CASE FindContentType(p)
      BY <3>4 DEF FindContentType, Doing
    <3>5. CASE Bump(p) \/ Insert(p)
      BY <3>1, <3>5 DEF Bump, Insert, Goto, Onward
    <3> QED
      BY <1>4, <3>2, <3>3, <3>4, <3>5 DEF Acts, Step
  <2> QED
    BY <1>4, <2>1 DEF Drawing
<1>5. CASE q = p /\ SelectNextId(p)
  <2>1. Quiet(p) /\ driver' = driver /\ Working(p)
    BY <1>5, QuietIs DEF QuietSteps, SelectNextId, Doing, Working
  <2>2. /\ job'[p].todo = job[p].todo /\ job'[p].scoped = job[p].scoped
        /\ \/ \E r \in View(p).ids : /\ r.table = Table(p)
                                     /\ job'[p].drawn = <<r.next>> \o job[p].drawn
                                     /\ job'[p].entry = None
           \/ /\ \A r \in View(p).ids : r.table # Table(p)
              /\ job'[p].drawn = <<0>> \o job[p].drawn
              /\ job'[p].entry = NewEntry(View(p))
    BY <1>1, <1>5, DrawnIs
  <2>3. job[p].drawn \in Seq(Nat) /\ None \notin Nat /\ Table(p)' = Table(p)
    BY <1>1, <1>5, <2>1, <2>2, JobFacts, ConnectionsAssumption DEF Table
  <2>4. \A n \in Nat : Head(<<n>> \o job[p].drawn) = n
    BY <2>3, Conses
  <2>5. driver = "sqlite3" => View(p) = Current(p)
    BY <1>1, <1>5, Views DEF TransactionSound
  <2>6. ASSUME NEW r \in View(p).ids, r.table = Table(p),
               job'[p].drawn = <<r.next>> \o job[p].drawn, job'[p].entry = None
        PROVE  Drawing(p)'
    <3>1. r \in IdsRow /\ r.next \in Nat
      BY <1>2, <1>5 DEF Database, IdsRow
    <3>2. Head(job'[p].drawn) = r.next
      BY <2>4, <2>6, <3>1
    <3>3. r \in View(p)'.ids /\ Head(job'[p].drawn) <= r.next
      BY <2>1, <3>1, <3>2 DEF Quiet
    <3>4. ASSUME driver = "sqlite3", NEW b \in Current(p).rows, b.table = Table(p)
          PROVE  b.id # r.next
      <4>1. PICK c \in Current(p).ids : c.table = b.table /\ b.id < c.next
        BY <1>1, <1>5 DEF Counted
      <4>2. r \in Current(p).ids
        BY <2>5, <3>4
      <4>3. c = r
        BY <1>1, <1>5, <2>6, <3>4, <4>1, <4>2 DEF Counted
      <4>4. b.id \in Nat
        BY <1>2, <1>5 DEF Database, Row
      <4> QED
        BY <3>1, <4>1, <4>3, <4>4
    <3>5. Current(p)' = Current(p) /\ job'[p].entry = None
      BY <2>1, <2>6 DEF Quiet
    <3> QED
      BY <2>1, <2>3, <2>6, <3>2, <3>3, <3>4, <3>5 DEF Drawing
  <2>7. ASSUME job'[p].drawn = << 0 >> \o job[p].drawn, job'[p].entry = NewEntry(View(p)),
               \A r \in View(p).ids : r.table # Table(p)
        PROVE  Drawing(p)'
    <3>1. /\ NewEntry(View(p)) \in Nat
          /\ \A k \in 0 .. NewEntry(View(p)) - 1 : \E c \in View(p).ids : c.id = k
      BY <1>1, <1>2, <1>5, NewEntryIs
    <3>2. Head(job'[p].drawn) = 0
      BY <2>4, <2>7
    <3>3. job'[p].entry # None
      BY <2>3, <2>7, <3>1
    <3>4. ASSUME driver = "sqlite3" PROVE \A b \in Current(p).rows : b.table # Table(p)
      BY <1>1, <1>5, <2>5, <2>7, <3>4 DEF Counted
    <3>5. \A k \in 0 .. job'[p].entry - 1 : \E c \in View(p)'.ids : c.id = k /\ c.table # Table(p)
      BY <2>1, <2>7, <3>1 DEF Quiet
    <3>6. Current(p)' = Current(p)
      BY <2>1 DEF Quiet
    <3> QED
      BY <2>1, <2>3, <3>2, <3>3, <3>4, <3>5, <3>6 DEF Drawing
  <2> QED
    BY <1>5, <2>2, <2>6, <2>7
<1> QED
  BY <1>3, <1>4, <1>5

-----------------------------------------------------------------------------
(* The rows. *)

\* An insert adds no second row where there may be one only.
LEMMA InsertDistinct ==
  ASSUME ConnectionInv, NEW p \in Process, Insert(p)
  PROVE  Distinct(Current(p))'
<1>1. /\ ConnectionTypes /\ PlanSound(p) /\ Working(p) /\ Doing(p, "insert")
      /\ Distinct(Current(p)) /\ NameAbsent(p) /\ TypeAbsent(p) /\ driver' = driver
  BY DEF ConnectionInv, RowsSound, RowsOf, Insert, Doing, Working
<1>2. Current(p)'.rows = Current(p).rows \cup {NewRow(p)}
  BY InsertCounts DEF InsertSound
<1>3. /\ NewRow(p).table = Table(p) /\ NewRow(p).id = Head(job[p].drawn)
      /\ NewRow(p).name = job[p].name /\ NewRow(p).by = p
  BY DEF NewRow
<1>4. Table(p) \in {"prefix", "type"} <=> ~job[p].scoped
  BY <1>1, JobFacts
<1> DEFINE n == NewRow(p)
           rows == Current(p).rows
<1>5. driver = "sqlite3" /\ n.table \notin {"prefix", "type"} =>
        \A r \in rows : r.table = n.table => r.id # n.id
  BY <1>1, <1>3, <1>4, InsertPlan
<1>6. driver = "sqlite3" /\ n.table = "content_type" =>
        \A r \in rows : r.table # "content_type"
  BY <1>1, <1>3 DEF TypeAbsent, Doing
<1>7. n.table \in {"prefix", "type"} =>
        \A r \in rows : ~(r.table = n.table /\ r.name = n.name /\ r.by = n.by)
  BY <1>1, <1>3, <1>4 DEF NameAbsent
<1>8. Distinct(Current(p)) <=>
        /\ driver = "sqlite3" =>
             \A r, s \in rows :
               /\ r.table \notin {"prefix", "type"} /\ r.table = s.table /\ r.id = s.id => r = s
               /\ r.table = "content_type" /\ s.table = "content_type" => r = s
        /\ \A r, s \in rows :
             /\ r.table \in {"prefix", "type"} /\ r.table = s.table
             /\ r.name = s.name /\ r.by = s.by
             => r = s
  BY DEF Distinct
<1>9. ASSUME driver = "sqlite3"
      PROVE  \A r, s \in rows \cup {n} :
               /\ r.table \notin {"prefix", "type"} /\ r.table = s.table /\ r.id = s.id => r = s
               /\ r.table = "content_type" /\ s.table = "content_type" => r = s
  <2> HIDE DEF n, rows
  <2> QED
    BY <1>1, <1>5, <1>6, <1>8, <1>9
<1>10. \A r, s \in rows \cup {n} :
         /\ r.table \in {"prefix", "type"} /\ r.table = s.table
         /\ r.name = s.name /\ r.by = s.by
         => r = s
  <2> HIDE DEF n, rows
  <2> QED
    BY <1>1, <1>7, <1>8
<1> QED
  BY <1>1, <1>2, <1>9, <1>10 DEF Distinct

\* No commit adds a second row where there may be one only.
LEMMA CommittedDistinct ==
  ASSUME ConnectionInv, NEW p \in Process, Acts(p)
  PROVE  Distinct(db)'
<1>1. ConnectionTypes /\ Distinct(db) /\ Distinct(Current(p))
  BY DEF ConnectionInv, RowsSound, RowsOf
<1>2. driver' = driver
  BY DEF Acts, Connect, Close, Begin, LookupMisses, Step, FindContentType,
         SelectNextId, Bump, Insert, StatementFails, WaitTimesOut, Throw,
         RollbackTransaction, CommitTransaction, CommitRefused
<1>3. CASE db' = db
  BY <1>1, <1>2, <1>3 DEF Distinct
<1>4. CASE db' = Current(p)
  BY <1>1, <1>2, <1>4 DEF Distinct
<1>5. CASE Bump(p) /\ db' = Current(p)' /\ Current(p) = db
  BY <1>1, <1>2, <1>5, BumpCounts DEF BumpSound, Distinct
<1>6. CASE Insert(p) /\ db' = Current(p)'
  BY <1>6, InsertDistinct DEF Distinct
<1> QED
  BY <1>3, <1>4, <1>5, <1>6, CommittedChanges

\* A connection outside a transaction sees what its writes will work on.
LEMMA RestingView ==
  ASSUME ConnectionInv, NEW p \in Process, Rests(p) \/ driver = "sqlite3"
  PROVE  View(p) = Current(p)
<1>1. ConnectionTypes /\ TransactionSound(p)
  BY DEF ConnectionInv
<1>2. tx[p].read = {}
  BY <1>1 DEF TransactionSound, Rests, NoTransaction
<1> QED
  BY <1>1, <1>2, Views

\* What is absent for one connection is not inserted by another.
LEMMA OtherRowsNext ==
  ASSUME ConnectionInv, NEW p \in Process, Acts(p), ConnectionTypes', NEW q \in Process, q # p
  PROVE  RowsOf(q)'
<1>1. /\ ConnectionTypes /\ TransactionSound(q) /\ PlaceSound(q) /\ PlanSound(q) /\ RowsOf(q)
      /\ RowsOf(p) /\ CommittedSound(p) /\ Distinct(db)' /\ db \in Database
  BY CommittedNext, CommittedDistinct DEF ConnectionInv, RowsSound, ConnectionTypes
<1>2. /\ tx'[q] = tx[q] /\ at'[q] = at[q] /\ job'[q] = job[q] /\ driver' = driver
  BY <1>1, Others
<1>3. (Working(q)' <=> Working(q)) /\ Table(q)' = Table(q)
  BY <1>2 DEF Working, Table
<1>4. CASE Unmoved(q)
  BY <1>1, <1>2, <1>3, <1>4 DEF RowsOf, Distinct, NameAbsent, TypeAbsent, Unmoved
<1>5. CASE Moved(q)
  <2>1. Distinct(Current(q))'
    BY <1>1, <1>5 DEF Moved, Distinct
  <2>2. NameAbsent(q)'
    BY <1>1, <1>2, <1>3, <1>5 DEF RowsOf, NameAbsent, Moved, CommittedSound
  <2>3. ASSUME Working(q), driver = "sqlite3", Table(q) = "content_type",
               Head(job[q].todo).do # "find"
        PROVE  FALSE
    <3>1. job[q].scoped /\ tx[q].open /\ tx[q].lock = "none"
      BY <1>1, <1>5, <2>3, JobFacts DEF PlaceSound, Working, Moved, Job
    <3>2. at[q] = "work" /\ job[q].drawn = << >>
      BY <1>1, <2>3, <3>1 DEF PlaceSound, Working, Exclusive
    <3>3. PICK held \in Seq(Tables) :
            PlanOf(job[q].scoped, job[q].todo, held) /\ HeldSound(q, held)
      BY <1>1, <2>3 DEF PlanSound
    <3>4. held = << >>
      BY <3>2, <3>3 DEF HeldSound, Owned
    <3>5. job[q].scoped = TRUE /\ job[q].todo # << >>
      BY <1>1, <2>3, <3>1, JobFacts DEF Job
    <3>6. PlanGoesOn(job[q].todo, << >>)
      BY <3>3, <3>4, <3>5, PlanStep DEF PlanOf
    <3>7. Head(job[q].todo).do \in {"draw", "insert"} /\ Head(job[q].todo).table = "content_type"
      BY <1>1, <2>3, JobFacts DEF Statement, Table
    <3> QED
      BY <3>6, <3>7 DEF PlanGoesOn, SingleTables
  <2>4. TypeAbsent(q)'
    BY <1>2, <1>3, <2>3 DEF TypeAbsent
  <2> QED
    BY <2>1, <2>2, <2>4 DEF RowsOf
<1>6. CASE Joined(p, q)
  <2>1. /\ driver = "mysql" /\ Insert(p) /\ ~job[p].scoped
        /\ Current(q)'.rows = Current(q).rows \cup {NewRow(p)}
    BY <1>6 DEF Joined
  <2>2. NewRow(p).by = p
    BY DEF NewRow
  <2>3. NameAbsent(q)'
    BY <1>1, <1>2, <1>3, <2>1, <2>2 DEF RowsOf, NameAbsent
  <2>4. TypeAbsent(q)'
    BY <1>2, <2>1 DEF TypeAbsent
  <2>5. \A r \in Current(q).rows : r \in Current(p).rows \/ r.by # p
    <3>1. \A r \in Current(q).rows : r \in db.rows \/ r \in tx[q].wrote.rows
      BY DEF Current, Overlay
    <3>2. db.rows \subseteq Current(p).rows
      BY DEF Current, Overlay
    <3> QED
      BY <1>1, <3>1, <3>2 DEF TransactionSound
  <2>6. \A r \in Current(q).rows :
          ~(r.table = NewRow(p).table /\ r.name = NewRow(p).name /\ r.by = p)
    <3>1. Working(p)
      BY <2>1 DEF Insert, Doing, Working
    <3>2. NewRow(p).table = Table(p) /\ NewRow(p).name = job[p].name
      BY DEF NewRow
    <3> QED
      BY <1>1, <2>1, <2>5, <3>1, <3>2 DEF RowsOf, NameAbsent
  <2>7. Distinct(Current(q))'
    <3> DEFINE n == NewRow(p)
               rows == Current(q).rows
    <3>1. \A r, s \in rows :
            /\ r.table \in {"prefix", "type"} /\ r.table = s.table
            /\ r.name = s.name /\ r.by = s.by
            => r = s
      BY <1>1 DEF RowsOf, Distinct
    <3>2. \A r \in rows : ~(r.table = n.table /\ r.name = n.name /\ r.by = n.by)
      BY <2>2, <2>6
    <3>3. \A r, s \in rows \cup {n} :
            /\ r.table \in {"prefix", "type"} /\ r.table = s.table
            /\ r.name = s.name /\ r.by = s.by
            => r = s
      <4> HIDE DEF n, rows
      <4> QED
        BY <3>1, <3>2
    <3> QED
      BY <1>2, <2>1, <3>3 DEF Distinct
  <2> QED
    BY <2>3, <2>4, <2>7 DEF RowsOf
<1> QED
  BY <1>4, <1>5, <1>6, OtherViews

\* What p has looked for in vain stays absent until p inserts it.
LEMMA OwnRowsNext ==
  ASSUME ConnectionInv, NEW p \in Process, Acts(p), ConnectionTypes', TransactionSound(p)'
  PROVE  RowsOf(p)'
<1>1. /\ ConnectionTypes /\ TransactionSound(p) /\ PlaceSound(p) /\ PlanSound(p) /\ RowsOf(p)
      /\ Distinct(db)'
  BY CommittedDistinct DEF ConnectionInv, RowsSound
<1>2. /\ job \in [Process -> Job] /\ job[p] \in Job /\ at \in [Process -> Places]
      /\ driver' = driver
  BY <1>1 DEF ConnectionTypes, Acts, Connect, Close, Begin, LookupMisses, Step, FindContentType,
              SelectNextId, Bump, Insert, StatementFails, WaitTimesOut, Throw,
              RollbackTransaction, CommitTransaction, CommitRefused
<1>3. CASE \/ Close(p) \/ RollbackTransaction(p) \/ CommitTransaction(p)
  <2>1. Fresh(p)
    BY <1>3, EndIs DEF Close, RollbackTransaction, CommitTransaction
  <2>2. at'[p] \in {"idle", "closed"}
    BY <1>2, <1>3 DEF Close, RollbackTransaction, CommitTransaction, Goto
  <2> QED
    BY <1>1, <2>1, <2>2 DEF Fresh, RowsOf, Distinct, NameAbsent, TypeAbsent, Working
<1>4. ASSUME Quiet(p) PROVE Distinct(Current(p))' /\ Current(p)' = Current(p)
  BY <1>1, <1>2, <1>4 DEF Quiet, RowsOf, Distinct
<1>5. CASE Connect(p) \/ StatementFails(p) \/ WaitTimesOut(p) \/ CommitRefused(p)
  <2>1. at'[p] \in {"idle", "unwind"}
    BY <1>2, <1>5 DEF Connect, StatementFails, WaitTimesOut, Throw, CommitRefused, Goto
  <2>2. Quiet(p)
    BY <1>5, QuietIs DEF QuietSteps
  <2> QED
    BY <1>4, <2>1, <2>2 DEF RowsOf, NameAbsent, TypeAbsent, Working
<1>6. ASSUME NEW op \in Operations, Begin(p, op) PROVE RowsOf(p)'
  <2>1. job'[p].scoped /\ job'[p].todo = Statements[op]
    BY <1>2, <1>6 DEF Begin, StartJob, NoJob
  <2>2. Table(p)' # "content_type"
    BY <2>1, PlanStartsDrawing DEF Table
  <2>3. Quiet(p)
    BY <1>6, QuietIs DEF QuietSteps
  <2> QED
    BY <1>4, <2>1, <2>2, <2>3 DEF RowsOf, NameAbsent, TypeAbsent
<1>7. ASSUME NEW t \in Lookups, NEW n \in Name, LookupMisses(p, t, n) PROVE RowsOf(p)'
  <2>1. job'[p].todo = AddRow(t) /\ job'[p].name = n
    BY <1>2, <1>7 DEF LookupMisses, StartJob, NoJob
  <2>2. Table(p)' = t
    BY <2>1 DEF Table, AddRow, Draw
  <2>3. View(p) = Current(p)
    BY <1>1, <1>7, RestingView DEF LookupMisses, PlaceSound
  <2>4. \A r \in Current(p).rows : r.table = t => r.name # n
    BY <1>7, <2>3 DEF LookupMisses
  <2>5. t # "content_type"
    BY ConnectionsAssumption
  <2>6. Quiet(p)
    BY <1>7, QuietIs DEF QuietSteps
  <2> QED
    BY <1>4, <2>1, <2>2, <2>4, <2>5, <2>6 DEF RowsOf, NameAbsent, TypeAbsent
<1> SUFFICES ASSUME FindContentType(p) \/ SelectNextId(p) \/ Bump(p) \/ Insert(p)
             PROVE  RowsOf(p)'
  BY <1>3, <1>5, <1>6, <1>7 DEF Acts, Step
<1>8. Working(p)
  BY DEF FindContentType, SelectNextId, Bump, Insert, Doing, Working
<1>9. /\ job[p].todo # << >> /\ job[p].scoped \in BOOLEAN /\ Table(p) \in Tables
      /\ Tail(job[p].todo) \in Seq(Statement)
      /\ at[p] = "bump" => Head(job[p].todo).do = "draw"
  BY <1>1, <1>8, JobFacts DEF Job
<1>10. PICK held \in Seq(Tables) : PlanOf(job[p].scoped, job[p].todo, held) /\ HeldSound(p, held)
  BY <1>1, <1>8 DEF PlanSound
<1>11. GoesOn(job[p].scoped, job[p].todo, held)
  BY <1>9, <1>10, PlanOfStep
<1>12. CASE FindContentType(p)
  <2>1. FindGoesOn(job[p].scoped, job[p].todo, held)
    BY <1>11, <1>12 DEF FindContentType, Doing, GoesOn
  <2>2. Quiet(p)
    BY <1>12, QuietIs DEF QuietSteps
  <2>3. /\ job'[p].todo =
             (IF ContentTypeFound(p) THEN << >> ELSE AddRow(Table(p))) \o Tail(job[p].todo)
        /\ job'[p].scoped = job[p].scoped
    BY <1>1, <1>12, JobNext
  <2>4. NameAbsent(p)'
    BY <2>1, <2>3 DEF NameAbsent, FindGoesOn
  <2>5. ASSUME driver = "sqlite3", Table(p)' = "content_type"
        PROVE  \A r \in Current(p)'.rows : r.table # "content_type"
    <3>1. ~ContentTypeFound(p)
      <4> SUFFICES ASSUME ContentTypeFound(p) PROVE FALSE
        OBVIOUS
      <4>1. job'[p].todo = Tail(job[p].todo)
        BY <1>9, <2>3, ConcatEmptySeq
      <4> QED
        BY <2>1, <2>5, <4>1 DEF FindGoesOn, Table
    <3>2. View(p) = Current(p) /\ Table(p) = "content_type"
      BY <2>1, <2>5, RestingView DEF FindGoesOn, Table
    <3> QED
      BY <1>4, <2>2, <3>1, <3>2 DEF ContentTypeFound
  <2>6. TypeAbsent(p)'
    BY <1>2, <2>5 DEF TypeAbsent
  <2> QED
    BY <1>4, <2>2, <2>4, <2>6 DEF RowsOf
<1>13. CASE SelectNextId(p)
  <2>1. Quiet(p)
    BY <1>13, QuietIs DEF QuietSteps
  <2>2. /\ job'[p].todo = job[p].todo /\ job'[p].scoped = job[p].scoped
        /\ job'[p].name = job[p].name
    BY <1>1, <1>13, DrawnIs
  <2>3. Table(p)' = Table(p)
    BY <2>2 DEF Table
  <2> QED
    BY <1>1, <1>2, <1>4, <1>8, <2>1, <2>2, <2>3 DEF RowsOf, NameAbsent, TypeAbsent
<1>14. CASE Bump(p)
  <2>1. at[p] = "bump" /\ BumpSound(p) /\ Head(job[p].todo).do = "draw"
    BY <1>9, <1>14, BumpCounts DEF Bump
  <2>2. /\ job'[p].todo = Tail(job[p].todo) /\ job'[p].scoped = job[p].scoped
        /\ job'[p].name = job[p].name
    BY <1>1, <1>14, JobNext
  <2>3. /\ \/ Table(p)' = Table(p)
           \/ Head(job'[p].todo).do = "find" /\ job[p].scoped
    BY <1>11, <2>1, <2>2 DEF GoesOn, DrawGoesOn, Table
  <2>4. Current(p)'.rows = Current(p).rows
    BY <2>1 DEF BumpSound
  <2>5. Distinct(Current(p))'
    BY <1>1, <1>2, <2>4 DEF RowsOf, Distinct
  <2>6. NameAbsent(p)'
    BY <1>1, <1>8, <2>2, <2>3, <2>4 DEF RowsOf, NameAbsent
  <2>7. TypeAbsent(p)'
    BY <1>1, <1>2, <1>8, <2>1, <2>3, <2>4 DEF RowsOf, TypeAbsent
  <2> QED
    BY <2>5, <2>6, <2>7 DEF RowsOf
<1>15. CASE Insert(p)
  <2>1. /\ job'[p].todo = Tail(job[p].todo) /\ job'[p].scoped = job[p].scoped
        /\ at'[p] = Onward(p) /\ Head(job[p].todo).do = "insert"
    BY <1>1, <1>15, JobNext DEF Insert, Doing
  <2>2. Distinct(Current(p))'
    BY <1>15, InsertDistinct
  <2>3. CASE Tail(job[p].todo) = << >>
    <3>1. at'[p] \in {"commit", "idle"}
      BY <2>1, <2>3 DEF Onward
    <3> QED
      BY <2>2, <3>1 DEF RowsOf, NameAbsent, TypeAbsent, Working
  <2>4. CASE Tail(job[p].todo) # << >>
    <3>1. job[p].scoped /\ Table(p)' # "content_type"
      BY <1>11, <2>1, <2>4 DEF GoesOn, InsertGoesOn, Table
    <3> QED
      BY <2>1, <2>2, <3>1 DEF RowsOf, NameAbsent, TypeAbsent
  <2> QED
    BY <2>3, <2>4
<1> QED
  BY <1>12, <1>13, <1>14, <1>15

\* What is reported is committed, or p is known to have had a commit refused.
LEMMA ReportedNext ==
  ASSUME ConnectionInv, NEW p \in Process, Acts(p)
  PROVE  ReportedIsCommitted'
<1>1. /\ ConnectionTypes /\ TransactionSound(p) /\ PlaceSound(p) /\ ReportedIsCommitted
      /\ CommittedSound(p) /\ refused \subseteq refused'
  <2>1. refused \subseteq refused'
    BY DEF Acts, Connect, Close, Begin, LookupMisses, Step, FindContentType,
           SelectNextId, Bump, Insert, StatementFails, WaitTimesOut, Throw,
           RollbackTransaction, CommitTransaction, CommitRefused
  <2> QED
    BY <2>1, CommittedNext DEF ConnectionInv
<1>2. ASSUME \A r \in told' : r \in told \/ r \in db'.rows \/ (r.by = p /\ p \in refused)
      PROVE  ReportedIsCommitted'
  BY <1>1, <1>2 DEF ReportedIsCommitted, CommittedSound
<1>3. CASE told' = told
  BY <1>2, <1>3
<1>4. CASE CommitTransaction(p)
  BY <1>2, <1>4 DEF CommitTransaction, Overlay
<1>5. CASE Insert(p) /\ told' = told \cup {NewRow(p)} /\ Onward(p) = "idle"
  <2>1. Rests(p) /\ NewRow(p).by = p
    BY <1>1, <1>5 DEF Onward, PlaceSound, Working, Insert, Doing, NewRow
  <2>2. CASE p \in refused
    BY <1>2, <1>5, <2>1, <2>2
  <2>3. CASE tx[p] = NoTransaction
    <3>1. ~tx[p].open
      BY <2>3 DEF NoTransaction
    <3>2. db' = Overlay(db, [ids |-> {}, rows |-> {NewRow(p)}])
      BY <1>5, <3>1, InsertWrites DEF WritesAlone, Written
    <3>3. NewRow(p) \in db'.rows
      BY <3>2 DEF Overlay
    <3> QED
      BY <1>2, <1>5, <3>3
  <2> QED
    BY <2>1, <2>2, <2>3 DEF Rests
<1>6. \/ told' = told \/ CommitTransaction(p)
      \/ Insert(p) /\ told' = told \cup {NewRow(p)} /\ Onward(p) = "idle"
  BY DEF Acts, Connect, Close, Begin, LookupMisses, Step, FindContentType,
         SelectNextId, Bump, Insert, StatementFails, WaitTimesOut, Throw,
         RollbackTransaction, CommitRefused
<1> QED
  BY <1>3, <1>4, <1>5, <1>6

-----------------------------------------------------------------------------
(* The invariant. *)

\* It holds of a new database that nobody is connected to.
LEMMA InitConnection ==
  ASSUME ConnectionsInit
  PROVE  ConnectionInv
<1>1. /\ driver \in Drivers /\ driver \in {"sqlite3", "mysql"}
      /\ db = Seed /\ told = {} /\ refused = {}
      /\ at = [p \in Process |-> "closed"] /\ job = [p \in Process |-> NoJob]
      /\ tx = [p \in Process |-> NoTransaction] /\ left = [p \in Process |-> MaxTasks]
  BY ConnectionsAssumption DEF ConnectionsInit
<1>2. /\ NoTransaction.open = FALSE /\ NoTransaction.lock = "none"
      /\ NoTransaction.wrote = Nothing /\ NoTransaction.read = {} /\ Nothing.rows = {}
      /\ NoTransaction \in Transaction /\ NoJob \in Job /\ "none" \notin Exclusive
  BY DEF NoTransaction, Nothing, NoJob, Transaction, Job, Database, Exclusive
<1>3. Seed \in Database /\ Seed.rows = {}
  BY DEF Seed, Database, IdsRow, Tables
<1>4. ConnectionTypes
  <2>1. MaxTasks \in 0 .. MaxTasks
    BY ConnectionsAssumption
  <2> QED
    BY <1>1, <1>2, <1>3, <2>1 DEF ConnectionTypes, Places
<1>5. ASSUME NEW p \in Process
      PROVE  TransactionSound(p) /\ PlaceSound(p) /\ PlanSound(p) /\ Drawing(p)
  BY <1>1, <1>2 DEF TransactionSound, PlaceSound, Rests, PlanSound, Drawing, Working
<1>6. OneWriter /\ ReportedIsCommitted
  BY <1>1, <1>2 DEF OneWriter, ReportedIsCommitted
<1>7. Counted(db) /\ Covers(db.ids, db.ids)
  <2>1. \A k \in 0 .. 2 - 1 : k = 0 \/ k = 1
    OBVIOUS
  <2>2. Full(Seed.ids)
    <3>1. \A c \in Seed.ids : c.id < 2
      BY DEF Seed
    <3>2. \A k \in 0 .. 2 - 1 : \E c \in Seed.ids : c.id = k
      BY <2>1 DEF Seed
    <3>3. 2 \in Nat
      OBVIOUS
    <3> QED
      BY <3>1, <3>2, <3>3 DEF Full
  <2>3. \A b, c \in Seed.ids : b.id = c.id \/ b.table = c.table => b = c
    BY DEF Seed
  <2>4. Covers(Seed.ids, Seed.ids)
    BY <1>3, CoversOrder DEF Database
  <2> QED
    BY <1>1, <1>3, <2>2, <2>3, <2>4 DEF Counted
<1>8. ASSUME NEW p \in Process PROVE View(p) = db /\ Current(p) = db /\ tx[p].read = {}
  BY <1>1, <1>2, <1>4, <1>5, Views
<1>9. CountersSound
  BY <1>7, <1>8 DEF CountersSound, CountersOf, Counted
<1>10. RowsSound
  <2>1. Distinct(db)
    BY <1>1, <1>3 DEF Distinct
  <2> QED
    BY <1>1, <1>8, <2>1 DEF RowsSound, RowsOf, NameAbsent, TypeAbsent, Working
<1> QED
  BY <1>4, <1>5, <1>6, <1>9, <1>10 DEF ConnectionInv

\* Every step keeps it.
LEMMA ConnectionInvNext ==
  ASSUME ConnectionInv, [ConnectionsNext]_vars
  PROVE  ConnectionInv'
<1>1. CASE UNCHANGED vars
  <2>1. /\ driver' = driver /\ db' = db /\ at' = at /\ job' = job /\ tx' = tx /\ left' = left
        /\ told' = told /\ refused' = refused
    BY <1>1 DEF vars
  <2>2. ConnectionTypes' /\ OneWriter' /\ ReportedIsCommitted'
    BY <2>1 DEF ConnectionInv, ConnectionTypes, OneWriter, ReportedIsCommitted
  <2>3. ASSUME NEW p \in Process
        PROVE  /\ TransactionSound(p)' /\ PlaceSound(p)' /\ PlanSound(p)' /\ Drawing(p)'
               /\ CountersOf(p)' /\ RowsOf(p)'
    <3>1. /\ TransactionSound(p) /\ PlaceSound(p) /\ PlanSound(p) /\ Drawing(p)
          /\ CountersOf(p) /\ RowsOf(p)
      BY DEF ConnectionInv, CountersSound, CountersOf, RowsSound
    <3>2. /\ Current(p)' = Current(p) /\ View(p)' = View(p) /\ Owned(p)' = Owned(p)
          /\ Table(p)' = Table(p) /\ (Working(p)' <=> Working(p))
      BY <2>1 DEF Current, View, Owned, Table, Working
    <3>3. TransactionSound(p)' /\ PlaceSound(p)'
      BY <2>1, <3>1 DEF TransactionSound, PlaceSound, Rests
    <3>4. PlanSound(p)'
      BY <2>1, <3>1, <3>2 DEF PlanSound, HeldSound, Reserved
    <3>5. Drawing(p)'
      BY <2>1, <3>1, <3>2 DEF Drawing
    <3>6. CountersOf(p)'
      BY <2>1, <3>1, <3>2 DEF CountersOf, Counted
    <3>7. RowsOf(p)'
      BY <2>1, <3>1, <3>2 DEF RowsOf, Distinct, NameAbsent, TypeAbsent
    <3> QED
      BY <3>3, <3>4, <3>5, <3>6, <3>7
  <2>4. Counted(db)' /\ Distinct(db)'
    BY <2>1 DEF ConnectionInv, CountersSound, CountersOf, RowsSound, Counted, Distinct
  <2> QED
    BY <2>2, <2>3, <2>4 DEF ConnectionInv, CountersSound, CountersOf, RowsSound
<1>2. ASSUME NEW p \in Process, Acts(p) PROVE ConnectionInv'
  <2>1. ConnectionTypes'
    BY <1>2, TypesNext
  <2>2. /\ \A q \in Process : TransactionSound(q)' /\ PlaceSound(q)'
        /\ OneWriter'
    BY <1>2, TransactionsNext
  <2>3. \A q \in Process : PlanSound(q)'
    BY <1>2, <2>1, <2>2, OwnPlanNext, OtherPlanNext
  <2>4. \A q \in Process : Drawing(q)'
    BY <1>2, <2>1, <2>2, DrawingNext
  <2>5. CountersSound'
    BY <1>2, <2>1, <2>2, CountersNext
  <2>6. \A q \in Process : RowsOf(q)'
    BY <1>2, <2>1, <2>2, OwnRowsNext, OtherRowsNext
  <2>7. RowsSound'
    BY <1>2, <2>6, CommittedDistinct DEF RowsSound
  <2>8. ReportedIsCommitted'
    BY <1>2, ReportedNext
  <2> QED
    BY <2>1, <2>2, <2>3, <2>4, <2>5, <2>7, <2>8 DEF ConnectionInv
<1> QED
  BY <1>1, <1>2 DEF ConnectionsNext, Acts

\* Counters, transactions, plans and rows stay sound, for any number of
\* processes, names and operations, with both drivers.
THEOREM ConnectionInvariant == ConnectionsSpec => []ConnectionInv
<1>1. ConnectionsInit => ConnectionInv
  BY InitConnection
<1>2. ConnectionInv /\ [ConnectionsNext]_vars => ConnectionInv'
  BY ConnectionInvNext
<1> QED
  BY <1>1, <1>2, PTL DEF ConnectionsSpec

-----------------------------------------------------------------------------
(* What follows from it. *)

\* The type invariant of Connections.
THEOREM ConnectionsTypeOKHolds == ConnectionsSpec => []ConnectionsTypeOK
<1>1. ConnectionInv => ConnectionsTypeOK
  <2> SUFFICES ASSUME ConnectionInv PROVE ConnectionsTypeOK
    OBVIOUS
  <2>1. ConnectionTypes
    BY DEF ConnectionInv
  <2>2. ASSUME NEW p \in Process
        PROVE  /\ job[p] \in Job
               /\ at[p] = "work" => job[p].todo # << >>
               /\ tx[p].wrote.ids \subseteq IdsRow /\ tx[p].wrote.rows \subseteq Row
               /\ ~tx[p].open => tx[p].wrote.ids = {} /\ tx[p].wrote.rows = {}
               /\ Cardinality(tx[p].read) <= 1
               /\ at[p] \in {"commit", "unwind"} => job[p].scoped
    <3>1. /\ job[p] \in Job /\ tx[p] \in Transaction
          /\ TransactionSound(p) /\ PlaceSound(p) /\ PlanSound(p)
      BY <2>1 DEF ConnectionInv, ConnectionTypes
    <3>2. tx[p].wrote.ids \subseteq IdsRow /\ tx[p].wrote.rows \subseteq Row
      BY <3>1 DEF Transaction, Database
    <3>3. ~tx[p].open => tx[p].wrote.ids = {} /\ tx[p].wrote.rows = {}
      BY <3>1 DEF TransactionSound, NoTransaction, Nothing
    <3>4. Cardinality(tx[p].read) <= 1
      <4>1. tx[p].read = {} \/ \E d : tx[p].read = {d}
        BY <3>1 DEF TransactionSound
      <4>2. \A d : Cardinality({d}) = 1
        BY FS_Singleton
      <4>3. Cardinality({}) = 0
        BY FS_EmptySet
      <4>4. tx[p].read = {} => Cardinality(tx[p].read) <= 1
        BY <4>3
      <4>5. \A d : tx[p].read = {d} => Cardinality(tx[p].read) <= 1
        BY <4>2
      <4> QED
        BY <4>1, <4>4, <4>5
    <3> QED
      BY <3>1, <3>2, <3>3, <3>4 DEF PlanSound, PlaceSound, Working
  <2> QED
    BY <2>1, <2>2 DEF ConnectionsTypeOK, ConnectionTypes, Database
<1> QED
  BY <1>1, ConnectionInvariant, PTL

\* Whatever was rolled back, refused or lost in between, and however far the
\* snapshot of a transaction is behind, an id drawn later is new.
THEOREM CounterAheadHolds == ConnectionsSpec => []CounterAhead
<1>1. ConnectionInv => CounterAhead
  BY DEF ConnectionInv, CountersSound, CountersOf, Counted, CounterAhead
<1> QED
  BY <1>1, ConnectionInvariant, PTL

\* Two transactions that both find no counter of a table never both insert one.
THEOREM OneCounterPerTableHolds == ConnectionsSpec => []OneCounterPerTable
<1>1. ConnectionInv => OneCounterPerTable
  BY DEF ConnectionInv, CountersSound, CountersOf, Counted, OneCounterPerTable
<1> QED
  BY <1>1, ConnectionInvariant, PTL

\* Two rows inserted by SQLite transactions never share an id.
THEOREM TransactionIdsDistinctHolds == ConnectionsSpec => []TransactionIdsDistinct
<1>1. ConnectionInv => TransactionIdsDistinct
  BY DEF ConnectionInv, RowsSound, Distinct, TransactionIdsDistinct
<1> QED
  BY <1>1, ConnectionInvariant, PTL

\* SQLite transactions insert a content type once.
THEOREM ContentTypeOnceHolds == ConnectionsSpec => []ContentTypeOnce
<1>1. ConnectionInv => ContentTypeOnce
  BY DEF ConnectionInv, RowsSound, Distinct, ContentTypeOnce
<1> QED
  BY <1>1, ConnectionInvariant, PTL

\* Prefix::get and Type::get insert a name once at the most for each process.
THEOREM OneEntryPerProcessHolds == ConnectionsSpec => []OneEntryPerProcess
<1>1. ConnectionInv => OneEntryPerProcess
  BY DEF ConnectionInv, RowsSound, Distinct, OneEntryPerProcess
<1> QED
  BY <1>1, ConnectionInvariant, PTL

\* What an operation reported as inserted is committed, unless the process had
\* a commit refused.
THEOREM ReportedIsCommittedHolds == ConnectionsSpec => []ReportedIsCommitted
<1>1. ConnectionInv => ReportedIsCommitted
  BY DEF ConnectionInv
<1> QED
  BY <1>1, ConnectionInvariant, PTL

\* Between two operations a connection holds nothing, except after a refused
\* commit.
THEOREM IdleHoldsNothingHolds == ConnectionsSpec => []IdleHoldsNothing
<1>1. ConnectionInv => IdleHoldsNothing
  BY DEF ConnectionInv, PlaceSound, Rests, IdleHoldsNothing
<1> QED
  BY <1>1, ConnectionInvariant, PTL
=============================================================================
