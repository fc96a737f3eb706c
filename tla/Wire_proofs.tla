----------------------------- MODULE Wire_proofs -----------------------------
(***************************************************************************)
(* The connection proved to be two streams of messages, for any messages   *)
(* the structs can hold, any base of a byte, any limits and any sizes of   *)
(* the sockets.                                                            *)
(*                                                                         *)
(* First the bodies: what a list of fields writes it reads back, alone,    *)
(* among others and row after row; so every announcement and every request *)
(* is read as it was written, and as what it was.  Then the frames: the    *)
(* four bytes of a header give the length back.  Then one direction: the   *)
(* frames sent make one sequence of bytes, in which the reader knows its   *)
(* place, the bytes under way follow those it has read, and those still in *)
(* the queue follow the ones under way.  Every action keeps that.          *)
(***************************************************************************)
EXTENDS Wire, SequenceTheorems, WellFoundedInduction, TLAPS

\* Induction over the numbers, with a set for what is shown.
LEMMA CountingInduction ==
  ASSUME NEW A, 0 \in A, \A n \in Nat : n \in A => n + 1 \in A
  PROVE  Nat \subseteq A
<1> DEFINE R == OpToRel(<, Nat)
           Bad == Nat \ A
<1>1. ASSUME Bad # {} PROVE FALSE
  <2>1. IsWellFoundedOn(R, Nat) /\ Bad \subseteq Nat
    BY NatLessThanWellFounded
  <2>2. PICK n \in Bad : \A m \in Bad : ~(<<m, n>> \in R)
    <3> HIDE DEF R, Bad
    <3> QED
      BY <1>1, <2>1, WFMin
  <2>3. n \in Nat \ {0} /\ n - 1 \in Nat /\ (n - 1) + 1 = n
    OBVIOUS
  <2>4. <<n - 1, n>> \in R
    BY <2>3 DEF OpToRel
  <2> QED
    BY <2>2, <2>3, <2>4
<1> QED
  BY <1>1

\* A function on the first v numbers is a sequence of length v.
LEMMA InSeq ==
  ASSUME NEW v \in Nat, NEW a, a = [p \in 1..v |-> a[p]]
  PROVE  a \in Seq({a[p] : p \in 1..v}) /\ Len(a) = v
<1>1. a \in [1..v -> {a[p] : p \in 1..v}]
  OBVIOUS
<1>2. PICK S : S = {a[p] : p \in 1..v}
  OBVIOUS
<1>3. a \in [1..v -> S]
  BY <1>1, <1>2
<1> QED
  BY <1>2, <1>3

\* What is appended follows, element by element.
LEMMA Joined ==
  ASSUME NEW v \in Nat, NEW a, a = [p \in 1..v |-> a[p]],
         NEW w \in Nat, NEW b, b = [p \in 1..w |-> b[p]]
  PROVE  /\ a \o b = [p \in 1..v + w |-> IF p <= v THEN a[p] ELSE b[p - v]]
<1>1. PICK S : S = {a[p] : p \in 1..v} \cup {b[p] : p \in 1..w}
  OBVIOUS
<1>2. a \in [1..v -> S] /\ b \in [1..w -> S]
  BY <1>1
<1>3. a \in Seq(S) /\ b \in Seq(S) /\ Len(a) = v /\ Len(b) = w
  BY <1>2
<1>4. a \o b \in Seq(S) /\ Len(a \o b) = v + w
  BY <1>3
<1>5. a \o b = [p \in 1..v + w |-> (a \o b)[p]]
  BY <1>4
<1>6. ASSUME NEW p \in 1..v + w PROVE (a \o b)[p] = IF p <= v THEN a[p] ELSE b[p - v]
  BY <1>3
<1> QED
  BY <1>5, <1>6

-----------------------------------------------------------------------------
(* Fields.                                                                 *)

\* A number, a flag, an id or an enumerator is read as it was written.
LEMMA FieldBack ==
  ASSUME NEW sort, NEW value, Fits(sort, value)
  PROVE  Readable(sort, Put(sort, value)) /\ Got(sort, Put(sort, value)) = value
<1>1. "flag" \notin DOMAIN LastOf /\ "hero" \notin DOMAIN LastOf /\ "player" \notin DOMAIN LastOf
  BY DEF LastOf
<1>2. CASE sort = "flag"
  BY <1>1, <1>2 DEF Fits, Readable, Put, Got, NumberToken
<1>3. CASE sort = "hero"
  BY <1>1, <1>3 DEF Fits, Readable, Put, Got, NumberToken
<1>4. CASE sort = "player"
  BY <1>1, <1>4 DEF Fits, Readable, Put, Got, NumberToken
<1>5. CASE sort \in DOMAIN LastOf
  <2>1. value \in 0..LastOf[sort] /\ sort \notin {"flag", "hero", "player"}
    BY <1>1, <1>5 DEF Fits
  <2>2. Put(sort, value) = <<"number", value>>
    BY <2>1 DEF Put, NumberToken
  <2> QED
    BY <2>1, <2>2 DEF Readable, Got
<1>6. CASE sort \notin {"flag", "hero", "player"} \cup DOMAIN LastOf
  BY <1>6 DEF Fits, Readable, Put, Got, NumberToken
<1> QED
  BY <1>2, <1>3, <1>4, <1>5, <1>6

\* A list of fields, none of them twice.
IsFields(fields, n) == /\ n \in Nat /\ Len(fields) = n /\ DOMAIN fields = 1..n
                       /\ \A i, j \in 1..n : fields[i][1] = fields[j][1] => i = j

\* Part of a body, after the first `at` of its tokens.
Lies(body, at, part) == /\ at + Len(part) <= Len(body)
                        /\ \A i \in 1..Len(part) : body[at + i] = part[i]

\* A struct is written with one token to a field.
LEMMA WriteShape ==
  ASSUME NEW fields, NEW n, IsFields(fields, n), NEW struct
  PROVE  /\ Write(fields, struct) = [i \in 1..n |-> Put(fields[i][2], struct[fields[i][1]])]
         /\ Len(Write(fields, struct)) = n
BY DEF Write, IsFields

\* A struct is read as it was written: each field is looked up by its name.
LEMMA ReadBack ==
  ASSUME NEW fields, NEW n, IsFields(fields, n), NEW struct, AllFit(fields, struct),
         NEW body, NEW at \in Nat, Lies(body, at, Write(fields, struct))
  PROVE  /\ CanRead(fields, body, at)
         /\ Read(fields, body, at) = [name \in FieldNames(fields) |-> struct[name]]
<1>1. /\ n \in Nat /\ Len(fields) = n /\ DOMAIN fields = 1..n
      /\ \A i, j \in 1..n : fields[i][1] = fields[j][1] => i = j
  BY DEF IsFields
<1>2. \A i \in 1..n : body[at + i] = Put(fields[i][2], struct[fields[i][1]])
  <2>1. PICK part : part = Write(fields, struct)
    OBVIOUS
  <2>2. part = [i \in 1..n |-> Put(fields[i][2], struct[fields[i][1]])] /\ Len(part) = n
    BY <2>1, WriteShape
  <2> QED
    BY <2>1, <2>2 DEF Lies
<1>3. \A i \in 1..n : /\ Readable(fields[i][2], body[at + i])
                      /\ Got(fields[i][2], body[at + i]) = struct[fields[i][1]]
  BY <1>1, <1>2, FieldBack, SMTT(20) DEF AllFit
<1>4. at + n <= Len(body)
  BY WriteShape DEF Lies
<1>5. CanRead(fields, body, at)
  BY <1>1, <1>3, <1>4 DEF CanRead
<1>6. ASSUME NEW name \in FieldNames(fields)
      PROVE  LET i == CHOOSE j \in DOMAIN fields : fields[j][1] = name
             IN  Got(fields[i][2], body[at + i]) = struct[name]
  <2>1. PICK k \in 1..n : fields[k][1] = name
    BY <1>1, <1>6 DEF FieldNames
  <2>2. (CHOOSE j \in DOMAIN fields : fields[j][1] = name) = k
    BY <1>1, <2>1
  <2> QED
    BY <1>3, <2>1, <2>2
<1>7. Read(fields, body, at) = [name \in FieldNames(fields) |-> struct[name]]
  BY <1>6 DEF Read, FieldNames
<1> QED
  BY <1>5, <1>7

-----------------------------------------------------------------------------
(* Lists of structs.                                                       *)

\* The r-th token of the q-th of n structs.
LEMMA PointInCell ==
  ASSUME NEW c \in Nat \ {0}, NEW n \in Nat, NEW q \in 0..n - 1, NEW r \in 0..c - 1
  PROVE  /\ q * c + r \in Nat /\ q * c + r < n * c /\ n * c \in Nat /\ q * c \in Nat
         /\ (q * c + r) \div c = q /\ (q * c + r) % c = r
<1>1. q * c \in Nat /\ n * c \in Nat
  OBVIOUS
<1>2. PICK k \in Nat : n = q + 1 + k
  <2>1. n - q - 1 \in Nat /\ n = q + 1 + (n - q - 1)
    OBVIOUS
  <2> QED
    BY <2>1
<1>3. (q + 1 + k) * c = q * c + c + k * c /\ k * c \in Nat
  OBVIOUS
<1>4. q * c + r < n * c
  BY <1>1, <1>2, <1>3
<1>5. (q * c + r) \div c = q
  OBVIOUS
<1>6. (q * c + r) % c = r
  OBVIOUS
<1> QED
  BY <1>1, <1>4, <1>5, <1>6

\* Structs of w tokens each make a body whose k-th token is one of the
\* ((k - 1) \div w + 1)-th struct.
Uniform(parts, n, w) ==
  /\ n \in Nat /\ w \in Nat \ {0} /\ parts = [i \in 1..n |-> parts[i]]
  /\ \A i \in 1..n : parts[i] = [k \in 1..w |-> parts[i][k]]

Laid(parts, w, i) ==
  [p \in 1..i * w |-> parts[((p - 1) \div w) + 1][((p - 1) % w) + 1]]

\* One more part laid behind those laid.
LEMMA LaidNext ==
  ASSUME NEW parts, NEW n, NEW w, Uniform(parts, n, w), NEW i \in 1..n
  PROVE  /\ i = 1 => Laid(parts, w, i) = parts[i]
         /\ i > 1 => Laid(parts, w, i) = Laid(parts, w, i - 1) \o parts[i]
<1>1. n \in Nat /\ w \in Nat \ {0} /\ parts[i] = [k \in 1..w |-> parts[i][k]]
  BY DEF Uniform
<1>2. ASSUME NEW k \in 1..w
      PROVE  /\ (i - 1) * w + k \in 1..i * w
             /\ Laid(parts, w, i)[(i - 1) * w + k] = parts[i][k]
  <2>1. k - 1 \in 0..w - 1 /\ i - 1 \in Nat
    BY <1>1
  <2>2. PICK q, r : q = i - 1 /\ r = k - 1
    OBVIOUS
  <2>3. (q * w + r) \div w = q /\ (q * w + r) % w = r /\ q * w \in Nat
    BY <1>1, <2>1, <2>2
  <2>4. i * w = q * w + w
    BY <1>1, <2>2
  <2>5. PICK p : p = (i - 1) * w + k
    OBVIOUS
  <2>6. p - 1 = q * w + r /\ p \in 1..i * w
    BY <1>1, <2>1, <2>2, <2>3, <2>4, <2>5
  <2>7. Laid(parts, w, i)[p] = parts[((p - 1) \div w) + 1][((p - 1) % w) + 1]
    BY <2>6 DEF Laid
  <2>8. q + 1 = i /\ r + 1 = k
    BY <1>1, <2>2
  <2> QED
    BY <2>3, <2>5, <2>6, <2>7, <2>8
<1>3. ASSUME i = 1 PROVE Laid(parts, w, i) = parts[i]
  <2>1. i * w = w /\ \A k \in 1..w : (i - 1) * w + k = k
    BY <1>1, <1>3
  <2>2. Laid(parts, w, i) = [p \in 1..w |-> Laid(parts, w, i)[p]]
    BY <2>1 DEF Laid
  <2>3. \A k \in 1..w : Laid(parts, w, i)[k] = parts[i][k]
    BY <1>2, <2>1
  <2> HIDE DEF Laid
  <2>4. Laid(parts, w, i) = [p \in 1..w |-> parts[i][p]]
    BY <2>2, <2>3
  <2> QED
    BY <1>1, <1>3, <2>4
<1>4. ASSUME i > 1 PROVE Laid(parts, w, i) = Laid(parts, w, i - 1) \o parts[i]
  <2> DEFINE a == Laid(parts, w, i - 1)
             b == parts[i]
  <2>1. PICK v : v = (i - 1) * w
    OBVIOUS
  <2>2. v \in Nat /\ i * w = v + w
    BY <1>1, <2>1
  <2>3. /\ a = [p \in 1..v |-> parts[((p - 1) \div w) + 1][((p - 1) % w) + 1]]
        /\ Len(a) = v
    BY <2>1, <2>2 DEF Laid
  <2>4. Len(b) = w
    BY <1>1
  <2>5. a \o b = [p \in 1..v + w |-> IF p <= v THEN a[p] ELSE b[p - v]]
    <3>1. b = [p \in 1..w |-> b[p]] /\ a = [p \in 1..v |-> a[p]]
      BY <1>1, <2>3
    <3>2. v \in Nat /\ w \in Nat
      BY <1>1, <2>2
    <3> HIDE DEF a, b
    <3> QED
      BY <3>1, <3>2, Joined
  <2>6. ASSUME NEW p \in 1..v + w
        PROVE  Laid(parts, w, i)[p] = IF p <= v THEN a[p] ELSE b[p - v]
    <3>1. p \in 1..i * w
      BY <2>2
    <3>2. CASE p <= v
      <4>1. p \in 1..v
        BY <1>1, <2>2, <3>2
      <4>2. Laid(parts, w, i)[p] = parts[((p - 1) \div w) + 1][((p - 1) % w) + 1]
        BY <3>1 DEF Laid
      <4> QED
        BY <2>3, <3>2, <4>1, <4>2
    <3>3. CASE ~(p <= v)
      <4>1. p - v \in 1..w /\ (i - 1) * w + (p - v) = p
        BY <1>1, <2>1, <2>2, <3>3
      <4>2. Laid(parts, w, i)[p] = parts[i][p - v]
        BY <1>2, <4>1
      <4> QED
        BY <3>3, <4>2
    <3> QED
      BY <3>2, <3>3
  <2>7. Laid(parts, w, i) = [p \in 1..v + w |-> Laid(parts, w, i)[p]]
    BY <2>2 DEF Laid
  <2> HIDE DEF a, b
  <2>8. Laid(parts, w, i) = a \o b
    BY <2>5, <2>6, <2>7
  <2> QED
    BY <2>8 DEF a, b
<1> QED
  BY <1>3, <1>4

\* Parts of one width are laid one behind the other.
LEMMA FlattenLaid ==
  ASSUME NEW parts, NEW n, NEW w, Uniform(parts, n, w)
  PROVE  FlattenSeq(parts) = Laid(parts, w, n)
<1>1. n \in Nat /\ w \in Nat \ {0} /\ parts = [i \in 1..n |-> parts[i]] /\ Len(parts) = n
  BY DEF Uniform
<1>2. CASE n = 0
  <2>1. FlattenSeq(parts) = parts
    BY <1>1, <1>2 DEF FlattenSeq
  <2>2. parts = << >>
    BY <1>1, <1>2
  <2>3. Laid(parts, w, n) = [p \in {} |-> parts[((p - 1) \div w) + 1][((p - 1) % w) + 1]]
    <3>1. 1..n * w = {}
      BY <1>1, <1>2
    <3> QED
      BY <3>1 DEF Laid
  <2> QED
    BY <2>1, <2>2, <2>3
<1>3. CASE n # 0
  <2> DEFINE Loop(d) == d = [i \in 1..Len(parts) |->
                               IF i = 1 THEN parts[i] ELSE d[i - 1] \o parts[i]]
             loop == CHOOSE d : Loop(d)
             g == [i \in 1..n |-> Laid(parts, w, i)]
  <2>1. FlattenSeq(parts) = loop[Len(parts)]
    BY <1>1, <1>3 DEF FlattenSeq
  <2>2. Loop(g)
    <3>1. \A i \in 1..n : Laid(parts, w, i) = IF i = 1 THEN parts[i] ELSE g[i - 1] \o parts[i]
      <4> SUFFICES ASSUME NEW i \in 1..n
                   PROVE  Laid(parts, w, i) = IF i = 1 THEN parts[i] ELSE g[i - 1] \o parts[i]
        OBVIOUS
      <4>1. i > 1 => g[i - 1] = Laid(parts, w, i - 1)
        BY <1>1
      <4>2. i = 1 \/ (i # 1 /\ i > 1)
        BY <1>1
      <4>3. /\ i = 1 => Laid(parts, w, i) = parts[i]
            /\ i > 1 => Laid(parts, w, i) = Laid(parts, w, i - 1) \o parts[i]
        BY LaidNext
      <4> HIDE DEF g
      <4> QED
        BY <4>1, <4>2, <4>3
    <3> QED
      BY <1>1, <3>1
  <2> HIDE DEF Loop, g
  <2>3. Loop(loop)
    BY <2>2
  <2> HIDE DEF loop
  <2> DEFINE A == {i \in Nat : i + 1 \in 1..n => loop[i + 1] = Laid(parts, w, i + 1)}
  <2>4. \A i \in 1..n : loop[i] = IF i = 1 THEN parts[i] ELSE loop[i - 1] \o parts[i]
    BY <1>1, <2>3 DEF Loop
  <2>5. 0 \in A
    <3>1. 1 \in 1..n /\ 0 + 1 = 1
      BY <1>1, <1>3
    <3>2. loop[1] = parts[1]
      BY <2>4, <3>1
    <3>3. Laid(parts, w, 1) = parts[1]
      BY <3>1, LaidNext
    <3> QED
      BY <3>1, <3>2, <3>3
  <2>6. ASSUME NEW i \in Nat, i \in A PROVE i + 1 \in A
    <3> SUFFICES ASSUME (i + 1) + 1 \in 1..n
                 PROVE  loop[(i + 1) + 1] = Laid(parts, w, (i + 1) + 1)
      OBVIOUS
    <3>1. PICK j : j = (i + 1) + 1
      OBVIOUS
    <3>2. j \in 1..n /\ j > 1 /\ j - 1 = i + 1 /\ i + 1 \in 1..n
      BY <1>1, <3>1
    <3>5. j # 1
      BY <3>2
    <3>3. loop[i + 1] = Laid(parts, w, i + 1)
      BY <2>6, <3>2
    <3>4. loop[j] = loop[j - 1] \o parts[j]
      BY <2>4, <3>2, <3>5
    <3>6. Laid(parts, w, j) = Laid(parts, w, j - 1) \o parts[j]
      BY <3>2, LaidNext
    <3> QED
      BY <3>1, <3>2, <3>3, <3>4, <3>6
  <2>7. n - 1 \in A
    <3> HIDE DEF A
    <3>1. n - 1 \in Nat
      BY <1>1, <1>3
    <3> QED
      BY <2>5, <2>6, <3>1, CountingInduction
  <2>8. (n - 1) + 1 = n /\ n \in 1..n
    BY <1>1, <1>3
  <2> QED
    BY <1>1, <2>1, <2>7, <2>8
<1> QED
  BY <1>2, <1>3

\* The tokens of a list of structs, struct after struct.
InRows(all, fields, w, count, structs) ==
  /\ Len(all) = count * w
  /\ all = [p \in 1..count * w |-> all[p]]
  /\ \A i \in 1..count : \A k \in 1..w :
       /\ (i - 1) * w + k \in 1..count * w
       /\ all[(i - 1) * w + k] = Write(fields, structs[i])[k]

\* A list of structs is written as rows of one width.
LEMMA WriteAllShape ==
  ASSUME NEW fields, NEW w \in Nat \ {0}, IsFields(fields, w), NEW count \in Nat, NEW structs,
         structs = [i \in 1..count |-> structs[i]]
  PROVE  InRows(WriteAll(fields, structs), fields, w, count, structs)
<1>1. PICK parts : parts = [i \in 1..count |-> Write(fields, structs[i])]
  OBVIOUS
<1>2. WriteAll(fields, structs) = FlattenSeq(parts)
  <2>1. DOMAIN structs = 1..count
    OBVIOUS
  <2> QED
    BY <1>1, <2>1 DEF WriteAll
<1>3. Uniform(parts, count, w)
  <2>1. \A i \in 1..count : Write(fields, structs[i]) = [k \in 1..w |-> Write(fields, structs[i])[k]]
    BY WriteShape
  <2> QED
    BY <1>1, <2>1 DEF Uniform
<1>4. PICK all : all = Laid(parts, w, count)
  OBVIOUS
<1>5. WriteAll(fields, structs) = all
  BY <1>2, <1>3, <1>4, FlattenLaid
<1>6. count * w \in Nat
  OBVIOUS
<1>7. all = [p \in 1..count * w |-> parts[((p - 1) \div w) + 1][((p - 1) % w) + 1]]
  BY <1>4 DEF Laid
<1>8. ASSUME NEW i \in 1..count, NEW k \in 1..w
      PROVE  (i - 1) * w + k \in 1..count * w /\ all[(i - 1) * w + k] = Write(fields, structs[i])[k]
  <2>1. k - 1 \in 0..w - 1 /\ i - 1 \in 0..count - 1
    OBVIOUS
  <2>2. PICK q, r : q = i - 1 /\ r = k - 1
    OBVIOUS
  <2>3. /\ (q * w + r) \div w = q /\ (q * w + r) % w = r /\ q * w \in Nat
        /\ q * w + r < count * w
    BY <2>1, <2>2, PointInCell
  <2>4. PICK p : p = (i - 1) * w + k
    OBVIOUS
  <2>8. PICK before, tot : before = q * w /\ tot = count * w
    OBVIOUS
  <2>5. p - 1 = q * w + r /\ p \in 1..count * w
    <3>1. p = before + k /\ r = k - 1 /\ before \in Nat /\ tot \in Nat /\ before + r < tot
      BY <1>6, <2>2, <2>3, <2>4, <2>8
    <3>2. p - 1 = before + r /\ p \in 1..tot
      BY <3>1
    <3> QED
      BY <2>8, <3>2
  <2>6. q + 1 = i /\ r + 1 = k
    BY <2>2
  <2>7. all[p] = parts[i][k]
    BY <1>7, <2>3, <2>5, <2>6
  <2> QED
    BY <1>1, <2>4, <2>5, <2>7
<1>9. Len(all) = count * w /\ all = [p \in 1..count * w |-> all[p]]
  BY <1>6, <1>7
<1> QED
  BY <1>5, <1>8, <1>9 DEF InRows

\* A list of structs is read as it was written.
LEMMA ListBack ==
  ASSUME NEW fields, NEW w \in Nat \ {0}, IsFields(fields, w), NEW count \in Nat, NEW structs,
         AreStructs(fields, count, structs),
         NEW body, NEW at \in Nat, Lies(body, at, WriteAll(fields, structs))
  PROVE  /\ CanReadAll(fields, count, body, at)
         /\ ReadAll(fields, count, body, at) = structs
<1>1. /\ structs = [i \in 1..count |-> structs[i]]
      /\ \A i \in 1..count : /\ AllFit(fields, structs[i])
                             /\ structs[i] = [name \in FieldNames(fields) |-> structs[i][name]]
  BY DEF AreStructs, IsStruct
<1>2. PICK all : all = WriteAll(fields, structs)
  OBVIOUS
<1>3. /\ Len(all) = count * w /\ count * w \in Nat
      /\ \A i \in 1..count : \A k \in 1..w :
           (i - 1) * w + k \in 1..count * w /\ all[(i - 1) * w + k] = Write(fields, structs[i])[k]
  <2>1. InRows(WriteAll(fields, structs), fields, w, count, structs)
    BY <1>1, WriteAllShape
  <2>2. InRows(all, fields, w, count, structs)
    BY <1>2, <2>1
  <2>3. count * w \in Nat
    OBVIOUS
  <2>4. /\ Len(all) = count * w
        /\ \A i \in 1..count : \A k \in 1..w :
             /\ (i - 1) * w + k \in 1..count * w
             /\ all[(i - 1) * w + k] = Write(fields, structs[i])[k]
    BY <2>2 DEF InRows
  <2> QED
    BY <2>3, <2>4
<1>4. at + Len(all) <= Len(body) /\ \A p \in 1..Len(all) : body[at + p] = all[p]
  BY <1>2 DEF Lies
<1>5. Len(fields) = w
  BY DEF IsFields
<1>6. ASSUME NEW i \in 1..count
      PROVE  /\ CanRead(fields, body, at + (i - 1) * Len(fields))
             /\ Read(fields, body, at + (i - 1) * Len(fields)) = structs[i]
  <2>1. PICK before : before = (i - 1) * w
    OBVIOUS
  <2>2. before \in Nat
    <3>1. i - 1 \in Nat
      OBVIOUS
    <3> QED
      BY <2>1, <3>1
  <2>3. PICK part : part = Write(fields, structs[i])
    OBVIOUS
  <2>4. Len(part) = w
    BY <2>3, WriteShape
  <2>5. \A k \in 1..w : before + k \in 1..count * w /\ all[before + k] = part[k]
    BY <1>3, <2>1, <2>3
  <2>6. before + w <= count * w
    BY <2>5
  <2>7. Lies(body, at + before, part)
    <3>1. (at + before) + w <= Len(body)
      <4>1. at + count * w <= Len(body)
        BY <1>3, <1>4
      <4>2. PICK c \in Nat : c = count * w
        BY <1>3
      <4>3. Len(body) >= at + c
        BY <4>1, <4>2
      <4> QED
        BY <2>2, <2>6, <4>1, <4>2
    <3>2. \A k \in 1..w : (at + before) + k = at + (before + k)
      BY <2>2
    <3>3. \A k \in 1..w : body[(at + before) + k] = part[k]
      BY <1>3, <1>4, <2>5, <3>2
    <3> QED
      BY <2>4, <3>1, <3>3 DEF Lies
  <2>8. at + before \in Nat
    BY <2>2
  <2>9. /\ CanRead(fields, body, at + before)
        /\ Read(fields, body, at + before) = [name \in FieldNames(fields) |-> structs[i][name]]
    BY <1>1, <2>3, <2>7, <2>8, ReadBack
  <2> QED
    BY <1>1, <1>5, <2>1, <2>9
<1>7. CanReadAll(fields, count, body, at)
  BY <1>6 DEF CanReadAll
<1>8. ReadAll(fields, count, body, at) = [i \in 1..count |-> structs[i]]
  BY <1>6 DEF ReadAll
<1> QED
  BY <1>1, <1>7, <1>8

-----------------------------------------------------------------------------
(* Parts of a body.                                                        *)

IsList(s, n) == n \in Nat /\ Len(s) = n /\ s = [p \in 1..n |-> s[p]]

\* What follows a part of a body begins where the part ends.
LEMMA LiesParts ==
  ASSUME NEW a, NEW v, IsList(a, v), NEW b, NEW w, IsList(b, w),
         NEW body, NEW at \in Nat
  PROVE  /\ IsList(a \o b, v + w)
         /\ Lies(body, at, a \o b) => Lies(body, at, a) /\ Lies(body, at + v, b)
<1>1. /\ v \in Nat /\ w \in Nat /\ Len(a) = v /\ Len(b) = w
      /\ a = [p \in 1..v |-> a[p]] /\ b = [p \in 1..w |-> b[p]]
  BY DEF IsList
<1>2. PICK c : c = a \o b
  OBVIOUS
<1>3. c = [p \in 1..v + w |-> IF p <= v THEN a[p] ELSE b[p - v]]
  BY <1>1, <1>2, Joined
<1>4. v + w \in Nat /\ Len(c) = v + w
  BY <1>1, <1>3
<1>5. c = [p \in 1..v + w |-> c[p]]
  BY <1>3
<1>6. IsList(a \o b, v + w)
  BY <1>2, <1>4, <1>5 DEF IsList
<1>7. ASSUME Lies(body, at, c)
      PROVE  Lies(body, at, a) /\ Lies(body, at + v, b)
  <2>1. at + (v + w) <= Len(body) /\ \A p \in 1..v + w : body[at + p] = c[p]
    BY <1>4, <1>7 DEF Lies
  <2>2. at + v <= Len(body) /\ (at + v) + w <= Len(body)
    BY <1>1, <2>1
  <2>3. ASSUME NEW p \in 1..v PROVE body[at + p] = a[p]
    <3>1. p \in 1..v + w /\ p <= v
      BY <1>1
    <3> QED
      BY <1>3, <2>1, <3>1
  <2>4. ASSUME NEW p \in 1..w PROVE body[(at + v) + p] = b[p]
    <3>1. v + p \in 1..v + w /\ ~(v + p <= v) /\ (v + p) - v = p /\ at + (v + p) = (at + v) + p
      BY <1>1
    <3> QED
      BY <1>3, <2>1, <3>1
  <2> QED
    BY <1>1, <2>2, <2>3, <2>4 DEF Lies
<1> QED
  BY <1>2, <1>6, <1>7

\* What is written is a sequence of known length: a struct,
LEMMA WriteList ==
  ASSUME NEW fields, NEW n, IsFields(fields, n), NEW struct
  PROVE  IsList(Write(fields, struct), n)
BY WriteShape DEF IsFields, IsList

\* and a list of them.
LEMMA WriteAllList ==
  ASSUME NEW fields, NEW w \in Nat \ {0}, IsFields(fields, w), NEW count \in Nat, NEW structs,
         AreStructs(fields, count, structs)
  PROVE  IsList(WriteAll(fields, structs), count * w)
<1>1. structs = [i \in 1..count |-> structs[i]]
  BY DEF AreStructs
<1>2. InRows(WriteAll(fields, structs), fields, w, count, structs)
  BY <1>1, WriteAllShape
<1>3. count * w \in Nat
  OBVIOUS
<1> QED
  BY <1>2, <1>3 DEF InRows, IsList

-----------------------------------------------------------------------------
(* The lists of fields.                                                    *)

EventNames ==
  <<"type", "attackerHeroId", "targetHeroId", "actingPlayerId", "targetPlayerId",
    "damage", "remainingHp", "winnerPlayerId", "damageKind",
    "baseDamage", "damageAfterWeak", "damageAfterVulnerable", "damageAfterDefense",
    "shieldAbsorbed", "remainingShield", "amount", "vulnerableLayers", "weakLayers",
    "radiantStars", "lightningOrbs", "previousLayers", "addedLayers", "totalLayers",
    "calculatedDamage", "hpDamageApplied", "targetRemainingHp", "towerDamageSource",
    "shieldBefore", "shieldAfter", "hpBefore", "hpAfter", "overflowDamage",
    "towerHpBefore", "towerDamageApplied", "towerHpAfter", "towerDestroyed", "targetType",
    "targetTowerPlayerId", "redirectedBecauseHeroDied">>

\* No list names a field twice.
LEMMA EventFieldsList == IsFields(EventFieldsWritten, 39)
<1>1. \A i \in 1..39 : EventFieldsWritten[i][1] = EventNames[i]
  BY SMTT(60) DEF EventFieldsWritten, Numbers, EventNames
<1>2. \A i, j \in 1..39 : EventNames[i] = EventNames[j] => i = j
  BY SMTT(60) DEF EventNames
<1>3. Len(EventFieldsWritten) = 39 /\ DOMAIN EventFieldsWritten = 1..39
  BY SMTT(60) DEF EventFieldsWritten, Numbers
<1>4. ASSUME NEW i \in 1..39, NEW j \in 1..39, EventFieldsWritten[i][1] = EventFieldsWritten[j][1]
      PROVE  i = j
  <2>1. EventNames[i] = EventNames[j]
    BY <1>1, <1>4
  <2> QED
    BY <1>2, <2>1
<1>5. 39 \in Nat
  OBVIOUS
<1> QED
  BY <1>3, <1>4, <1>5 DEF IsFields

\* A piece has 17 fields,
LEMMA PieceFieldsList == IsFields(PieceFields, 17)
<1>1. Len(PieceFields) = 17 /\ DOMAIN PieceFields = 1..17
  BY SMTT(60) DEF PieceFields, Numbers
<1>2. \A i, j \in 1..17 : PieceFields[i][1] = PieceFields[j][1] => i = j
  BY SMTT(60) DEF PieceFields, Numbers
<1> QED
  BY <1>1, <1>2 DEF IsFields

\* a tower 6,
LEMMA TowerFieldsList == IsFields(TowerFields, 6)
BY SMTT(60) DEF TowerFields, Numbers, IsFields

\* a game 4 before its towers and 1 behind its board,
LEMMA GameFieldsList ==
  /\ IsFields(GameFields, 4) /\ IsFields(OpeningField, 1)
  /\ FieldNames(GameFields) = {"phase", "currentPlayerId", "turnId", "winnerPlayerId"}
  /\ FieldNames(OpeningField) = {"openingTurnPending"}
<1>1. IsFields(GameFields, 4)
  BY SMTT(60) DEF GameFields, IsFields
<1>2. IsFields(OpeningField, 1)
  BY SMTT(60) DEF OpeningField, IsFields
<1>3. FieldNames(GameFields) = {"phase", "currentPlayerId", "turnId", "winnerPlayerId"}
  <2>1. DOMAIN GameFields = 1..4
    BY <1>1 DEF IsFields
  <2>2. /\ GameFields[1][1] = "phase" /\ GameFields[2][1] = "currentPlayerId"
        /\ GameFields[3][1] = "turnId" /\ GameFields[4][1] = "winnerPlayerId"
    BY DEF GameFields
  <2> QED
    BY <2>1, <2>2 DEF FieldNames
<1>4. FieldNames(OpeningField) = {"openingTurnPending"}
  <2>1. DOMAIN OpeningField = 1..1 /\ OpeningField[1][1] = "openingTurnPending"
    BY <1>2 DEF OpeningField, IsFields
  <2> QED
    BY <2>1 DEF FieldNames
<1> QED
  BY <1>1, <1>2, <1>3, <1>4

\* and a position 2.
LEMMA PositionFieldsList == IsFields(PositionFields, 2)
BY SMTT(60) DEF PositionFields, Numbers, IsFields

-----------------------------------------------------------------------------
(* Games and messages.                                                     *)

\* The tokens of a game.
GameLength == (4 + 2 * 6) + Cells * 17 + 1

\* A game is read as it was written, wherever it lies in a body.
LEMMA GameBack ==
  ASSUME NEW game, IsGame(game), NEW body, NEW at \in Nat
  PROVE  /\ IsList(WriteGame(game), GameLength) /\ GameEnd(at) = at + GameLength
         /\ Lies(body, at, WriteGame(game)) =>
              CanReadGame(body, at) /\ ReadGame(body, at) = game
<1>1. PICK start, towers, board, opening :
        /\ start = Write(GameFields, game)
        /\ towers = WriteAll(TowerFields, game.towers)
        /\ board = WriteAll(PieceFields, game.board)
        /\ opening = Write(OpeningField, game)
  OBVIOUS
<1>2. PICK cellTokens \in Nat : cellTokens = Cells * 17
  BY CellsAssumption
<1>3. /\ IsFields(GameFields, 4) /\ IsFields(OpeningField, 1)
      /\ IsFields(TowerFields, 6) /\ IsFields(PieceFields, 17)
      /\ Len(GameFields) = 4 /\ Len(TowerFields) = 6 /\ Len(PieceFields) = 17
  BY GameFieldsList, TowerFieldsList, PieceFieldsList DEF IsFields
<1>4. /\ AreStructs(TowerFields, 2, game.towers) /\ AreStructs(PieceFields, Cells, game.board)
      /\ AllFit(GameFields, game) /\ AllFit(OpeningField, game)
  BY DEF IsGame
<1>5. /\ IsList(start, 4) /\ IsList(towers, 12) /\ IsList(board, cellTokens)
      /\ IsList(opening, 1)
  <2>1. IsList(start, 4) /\ IsList(opening, 1)
    BY <1>1, <1>3, WriteList
  <2>2. IsList(towers, 2 * 6)
    BY <1>1, <1>3, <1>4, WriteAllList
  <2>3. IsList(board, Cells * 17)
    BY <1>1, <1>3, <1>4, WriteAllList, CellsAssumption
  <2>4. 2 * 6 = 12
    OBVIOUS
  <2> QED
    BY <1>2, <2>1, <2>2, <2>3, <2>4
<1>6. WriteGame(game) = ((start \o towers) \o board) \o opening
  BY <1>1 DEF WriteGame
<1>7. /\ TowersAt(at) = at + 4 /\ BoardAt(at) = at + 16 /\ OpeningAt(at) = at + (16 + cellTokens)
      /\ GameEnd(at) = at + (16 + cellTokens + 1) /\ GameLength = 16 + cellTokens + 1
  <2>1. BoardAt(at) + Cells * Len(PieceFields) = BoardAt(at) + cellTokens
    BY <1>2, <1>3
  <2>2. TowersAt(at) = at + 4 /\ BoardAt(at) = at + 16
    BY <1>3 DEF TowersAt, BoardAt
  <2>3. OpeningAt(at) = at + (16 + cellTokens)
    BY <2>1, <2>2 DEF OpeningAt
  <2>4. GameLength = 16 + cellTokens + 1
    BY <1>2 DEF GameLength
  <2> QED
    BY <2>2, <2>3, <2>4 DEF GameEnd
<1>8. /\ IsList(start \o towers, 16)
      /\ IsList((start \o towers) \o board, 16 + cellTokens)
      /\ IsList(WriteGame(game), 16 + cellTokens + 1)
  <2>1. IsList(start \o towers, 4 + 12) /\ 4 + 12 = 16
    <3>1. \A s, t, n : IsList(s, 4) /\ IsList(t, 12) /\ n = 4 + 12 => IsList(s \o t, n)
      BY LiesParts
    <3> QED
      BY <1>5, <3>1
  <2>2. IsList((start \o towers) \o board, 16 + cellTokens)
    BY <1>5, <2>1, LiesParts
  <2>3. IsList(((start \o towers) \o board) \o opening, (16 + cellTokens) + 1)
    BY <1>5, <2>2, LiesParts
  <2> QED
    BY <1>6, <2>1, <2>2, <2>3
<1>9. ASSUME Lies(body, at, WriteGame(game))
      PROVE  CanReadGame(body, at) /\ ReadGame(body, at) = game
  <2>1. /\ Lies(body, at, (start \o towers) \o board)
        /\ Lies(body, at + (16 + cellTokens), opening)
    <3>1. Lies(body, at, ((start \o towers) \o board) \o opening)
      BY <1>6, <1>9
    <3>2. PICK s : s = (start \o towers) \o board
      OBVIOUS
    <3>3. IsList(s, 16 + cellTokens) /\ Lies(body, at, s \o opening)
      BY <1>8, <3>1, <3>2
    <3>4. Lies(body, at, s) /\ Lies(body, at + (16 + cellTokens), opening)
      BY <1>5, <3>3, LiesParts
    <3> QED
      BY <3>2, <3>4
  <2>2. Lies(body, at, start \o towers) /\ Lies(body, at + 16, board)
    BY <1>5, <1>8, <2>1, LiesParts
  <2>3. Lies(body, at, start) /\ Lies(body, at + 4, towers)
    BY <1>5, <2>2, LiesParts
  <2>4. at + 4 \in Nat /\ at + 16 \in Nat /\ at + (16 + cellTokens) \in Nat
    OBVIOUS
  <2>5. /\ CanRead(GameFields, body, at)
        /\ Read(GameFields, body, at) = [name \in FieldNames(GameFields) |-> game[name]]
    BY <1>1, <1>3, <1>4, <2>3, ReadBack
  <2>6. /\ CanRead(OpeningField, body, OpeningAt(at))
        /\ Read(OpeningField, body, OpeningAt(at)) = [name \in FieldNames(OpeningField) |-> game[name]]
    BY <1>1, <1>3, <1>4, <1>7, <2>1, <2>4, ReadBack
  <2>7. /\ CanReadAll(TowerFields, 2, body, TowersAt(at))
        /\ ReadAll(TowerFields, 2, body, TowersAt(at)) = game.towers
    BY <1>1, <1>3, <1>4, <1>7, <2>3, <2>4, ListBack
  <2>8. /\ CanReadAll(PieceFields, Cells, body, BoardAt(at))
        /\ ReadAll(PieceFields, Cells, body, BoardAt(at)) = game.board
    BY <1>1, <1>3, <1>4, <1>7, <2>2, <2>4, ListBack, CellsAssumption
  <2>9. /\ Read(GameFields, body, at).phase = game.phase
        /\ Read(GameFields, body, at).currentPlayerId = game.currentPlayerId
        /\ Read(GameFields, body, at).turnId = game.turnId
        /\ Read(GameFields, body, at).winnerPlayerId = game.winnerPlayerId
        /\ Read(OpeningField, body, OpeningAt(at)).openingTurnPending = game.openingTurnPending
    BY <2>5, <2>6, GameFieldsList
  <2>10. ReadGame(body, at) = game
    BY <2>7, <2>8, <2>9 DEF ReadGame, IsGame
  <2> QED
    BY <2>5, <2>6, <2>7, <2>8, <2>10 DEF CanReadGame
<1> QED
  BY <1>7, <1>8, <1>9

\* A body lies in itself.
LEMMA LiesWhole ==
  ASSUME NEW body, NEW n, IsList(body, n)
  PROVE  Lies(body, 0, body)
BY DEF IsList, Lies

\* Of readers of which the first to understand a body reads one message, that is it.
LEMMA FirstReader ==
  ASSUME NEW results, NEW n \in Nat, DOMAIN results = 1..n, NEW k \in 1..n,
         \A i \in 1..k - 1 : results[i] = {}, NEW m, results[k] = {m}
  PROVE  FirstOf(results) = m
<1> DEFINE readers == {i \in DOMAIN results : results[i] # {}}
<1>1. k \in readers
  OBVIOUS
<1>2. \A i \in readers : i >= k
  <2> SUFFICES ASSUME NEW i \in 1..n, results[i] # {}, ~(i >= k) PROVE FALSE
    OBVIOUS
  <2>1. i \in 1..k - 1
    OBVIOUS
  <2> QED
    BY <2>1
<1>3. readers \subseteq Nat
  OBVIOUS
<1>4. FirstOf(results) = IF readers = {} THEN Invalid ELSE CHOOSE r \in results[Min(readers)] : TRUE
  BY DEF FirstOf
<1> HIDE DEF readers
<1>5. Min(readers) = k
  <2>1. \A y \in readers : k <= y
    BY <1>2, <1>3
  <2>2. \A x \in readers : (\A y \in readers : x <= y) => x = k
    BY <1>1, <1>3, <2>1
  <2> QED
    BY <1>1, <2>1, <2>2 DEF Min
<1> QED
  BY <1>1, <1>4, <1>5

\* The server reads a request as the client wrote it: the field by the name, the
\* path cell by cell, up to its longest.
LEMMA RequestBack ==
  ASSUME NEW m, IsRequest(m)
  PROVE  /\ \E n \in Nat : IsList(Serialize(m), n)
         /\ ReceivedByServer(Serialize(m)) = m
<1>1. PICK count \in Nat : count = Len(m.path) /\ count \in 0..MaximumPath
  <2>1. Len(m.path) \in 0..MaximumPath
    BY DEF IsRequest
  <2>2. Len(m.path) \in Nat
    BY <2>1 DEF MaximumPath
  <2> QED
    BY <2>1, <2>2
<1>2. PICK head, list, body :
        /\ head = <<NumberToken(4), NumberToken(m.playerId), NumberToken(m.turnId), NumberToken(count)>>
        /\ list = WriteAll(PositionFields, m.path)
        /\ body = head \o list
  OBVIOUS
<1>3. Serialize(m) = body
  BY <1>1, <1>2 DEF Serialize, IsRequest, MessageType
<1>4. AreStructs(PositionFields, count, m.path) /\ IsFields(PositionFields, 2)
  BY <1>1, PositionFieldsList DEF IsRequest
<1>5. IsList(head, 4)
  BY <1>2 DEF IsList
<1>6. IsList(list, count * 2)
  BY <1>2, <1>4, WriteAllList
<1>7. IsList(body, 4 + count * 2)
  BY <1>2, <1>5, <1>6, LiesParts
<1>8. Lies(body, 0, head) /\ Lies(body, 0 + 4, list)
  <2>1. Lies(body, 0, head \o list)
    BY <1>2, <1>7, LiesWhole
  <2> QED
    BY <1>5, <1>6, <2>1, LiesParts
<1>9. /\ body[1] = NumberToken(4) /\ body[2] = NumberToken(m.playerId)
      /\ body[3] = NumberToken(m.turnId) /\ body[4] = NumberToken(count)
      /\ 4 <= Len(body)
  <2>1. \A i \in 1..4 : body[0 + i] = head[i]
    BY <1>5, <1>8 DEF Lies, IsList
  <2>2. /\ body[1] = head[1] /\ body[2] = head[2] /\ body[3] = head[3] /\ body[4] = head[4]
    BY <2>1
  <2>3. 0 + 4 <= Len(body)
    BY <1>5, <1>8 DEF Lies, IsList
  <2> QED
    BY <1>2, <2>2, <2>3
<1>10. /\ CanReadAll(PositionFields, count, body, 4)
       /\ ReadAll(PositionFields, count, body, 4) = m.path
  BY <1>2, <1>4, <1>8, ListBack
<1>11. IsType(body, "EliminateRequest")
  <2>1. body # << >>
    BY <1>9
  <2> QED
    BY <1>9, <2>1 DEF IsType, MessageType
<1>12. CanRead(Numbers(<<"playerId", "turnId", "count">>), body, 1)
  <2>1. PICK fields : fields = Numbers(<<"playerId", "turnId", "count">>)
    OBVIOUS
  <2>2. Len(fields) = 3 /\ DOMAIN fields = 1..3 /\ \A i \in 1..3 : fields[i][2] = "number"
    BY <2>1 DEF Numbers
  <2>3. \A i \in 1..3 : Readable("number", body[1 + i])
    <3>1. "number" \notin DOMAIN LastOf
      BY DEF LastOf
    <3>2. \A x : Readable("number", NumberToken(x))
      BY <3>1 DEF Readable, NumberToken
    <3> QED
      BY <1>9, <3>2
  <2>4. 1 + 3 <= Len(body)
    BY <1>9
  <2>5. CanRead(fields, body, 1)
    BY <2>2, <2>3, <2>4 DEF CanRead
  <2> QED
    BY <2>1, <2>5
<1>13. body[2][2] = m.playerId /\ body[3][2] = m.turnId /\ body[4][2] = count
  BY <1>9 DEF NumberToken
<1>14. DeserializeEliminateRequest(body)
         = {[struct |-> "EliminateRequest", playerId |-> m.playerId, turnId |-> m.turnId,
             path |-> m.path]}
  BY <1>1, <1>10, <1>11, <1>12, <1>13 DEF DeserializeEliminateRequest
<1>15. DeserializeEliminateRequest(body) = {m}
  BY <1>14 DEF IsRequest
<1>16. ReceivedByServer(body) = m
  <2>1. PICK results : results = <<DeserializeEliminateRequest(body)>>
    OBVIOUS
  <2>2. DOMAIN results = 1..1 /\ results[1] = {m} /\ \A i \in 1..1 - 1 : results[i] = {}
    BY <1>15, <2>1
  <2>3. FirstOf(results) = m
    <3>1. PICK n \in Nat : n = 1
      OBVIOUS
    <3>2. DOMAIN results = 1..n /\ n \in 1..n /\ results[n] = {m} /\ \A i \in 1..n - 1 : results[i] = {}
      BY <2>2, <3>1
    <3> QED
      BY <3>2, FirstReader
  <2> QED
    BY <2>1, <2>3 DEF ReceivedByServer
<1> QED
  BY <1>3, <1>7, <1>16 DEF IsList

\* Of the client's three readers the first that reads something is believed.
LEMMA FirstOfThree ==
  ASSUME NEW a, NEW b, NEW c, NEW m
  PROVE  /\ a = {m} => FirstOf(<<a, b, c>>) = m
         /\ a = {} /\ b = {m} => FirstOf(<<a, b, c>>) = m
         /\ a = {} /\ b = {} /\ c = {m} => FirstOf(<<a, b, c>>) = m
<1>1. PICK results : results = <<a, b, c>>
  OBVIOUS
<1>2. PICK n \in Nat : n = 3
  OBVIOUS
<1>3. DOMAIN results = 1..n /\ results[1] = a /\ results[2] = b /\ results[3] = c
  BY <1>1, <1>2
<1>4. ASSUME NEW k \in 1..n, \A i \in 1..n : i < k => results[i] = {}, results[k] = {m}
      PROVE  FirstOf(results) = m
  <2>1. \A i \in 1..k - 1 : i \in 1..n /\ i < k
    OBVIOUS
  <2> QED
    BY <1>3, <1>4, <2>1, FirstReader
<1>5. a = {m} => FirstOf(results) = m
  <2>1. 1 \in 1..n /\ \A i \in 1..n : ~(i < 1)
    BY <1>2
  <2> QED
    BY <1>3, <1>4, <2>1
<1>6. a = {} /\ b = {m} => FirstOf(results) = m
  <2>1. 2 \in 1..n /\ \A i \in 1..n : i < 2 => i = 1
    BY <1>2
  <2> QED
    BY <1>3, <1>4, <2>1
<1>7. a = {} /\ b = {} /\ c = {m} => FirstOf(results) = m
  <2>1. 3 \in 1..n /\ \A i \in 1..n : i < 3 => i = 1 \/ i = 2
    BY <1>2
  <2> QED
    BY <1>3, <1>4, <2>1
<1> QED
  BY <1>1, <1>5, <1>6, <1>7

\* A count of events that is read is a number, and a flag fits where flags are written.
LEMMA CountAndFlag ==
  /\ \A count \in 0..MaximumEvents : count \in Nat
  /\ \A value \in BOOLEAN : Fits("flag", value)
<1>1. \A count \in 0..MaximumEvents : count \in Nat
  BY DEF MaximumEvents
<1>2. \A value \in BOOLEAN : Fits("flag", value)
  <2>1. "flag" \notin DOMAIN LastOf
    BY DEF LastOf
  <2> QED
    BY <2>1 DEF Fits
<1> QED
  BY <1>1, <1>2

\* A game that starts is read as the server wrote it.
LEMMA StartedBack ==
  ASSUME NEW m, m.struct = "GameStarted", IsAnnouncement(m)
  PROVE  /\ \E n \in Nat : IsList(Serialize(m), n)
         /\ ReceivedByClient(Serialize(m)) = m
<1>1. m = [struct |-> "GameStarted", game |-> m.game] /\ IsGame(m.game)
  BY DEF IsAnnouncement
<1>2. PICK head, list, body : /\ head = <<NumberToken(3)>> /\ list = WriteGame(m.game)
                              /\ body = head \o list
  OBVIOUS
<1>3. Serialize(m) = body
  BY <1>2 DEF Serialize, MessageType
<1>4. IsList(head, 1)
  BY <1>2 DEF IsList
<1>5. IsList(list, GameLength)
  BY <1>1, <1>2, GameBack
<1>6. IsList(body, 1 + GameLength)
  BY <1>2, <1>4, <1>5, LiesParts
<1>7. Lies(body, 0, head) /\ Lies(body, 0 + 1, list)
  <2>1. Lies(body, 0, head \o list)
    BY <1>2, <1>6, LiesWhole
  <2> QED
    BY <1>4, <1>5, <2>1, LiesParts
<1>8. body[1] = NumberToken(3) /\ 1 <= Len(body)
  <2>1. body[0 + 1] = head[1] /\ 0 + 1 <= Len(body)
    BY <1>4, <1>7 DEF Lies, IsList
  <2> QED
    BY <1>2, <2>1
<1>9. IsType(body, "GameStarted")
  <2>1. body # << >>
    BY <1>8
  <2> QED
    BY <1>8, <2>1 DEF IsType, MessageType
<1>10. CanReadGame(body, 1) /\ ReadGame(body, 1) = m.game
  <2>1. Lies(body, 1, WriteGame(m.game))
    BY <1>2, <1>7
  <2> QED
    BY <1>1, <2>1, GameBack
<1>11. DeserializeGameStarted(body) = {m}
  BY <1>1, <1>9, <1>10 DEF DeserializeGameStarted
<1>12. ReceivedByClient(body) = m
  BY <1>11, FirstOfThree DEF ReceivedByClient
<1> QED
  BY <1>3, <1>6, <1>12 DEF IsList

\* So is a short message, whatever its type: it is too short for another's.
LEMMA ShortBack ==
  ASSUME NEW m, m.struct = "WireMessage", IsAnnouncement(m)
  PROVE  /\ \E n \in Nat : IsList(Serialize(m), n)
         /\ ReceivedByClient(Serialize(m)) = m
<1>1. m = [struct |-> "WireMessage", type |-> m.type, payload |-> m.payload] /\ m.type \in 0..10
  BY DEF IsAnnouncement, LastOf
<1>2. PICK body : body = <<NumberToken(m.type), TextToken(m.payload)>>
  OBVIOUS
<1>3. Serialize(m) = body
  BY <1>2 DEF Serialize
<1>4. IsList(body, 2)
  BY <1>2 DEF IsList
<1>5. ~CanReadGame(body, 1) /\ ~CanReadGame(body, 3)
  <2>1. Len(GameFields) = 4 /\ Len(body) = 2
    BY <1>4, GameFieldsList DEF IsFields, IsList
  <2>2. ~CanRead(GameFields, body, 1) /\ ~CanRead(GameFields, body, 3)
    BY <2>1 DEF CanRead
  <2> QED
    BY <2>2 DEF CanReadGame
<1>6. DeserializeGameStarted(body) = {} /\ DeserializeEliminateResult(body) = {}
  BY <1>5 DEF DeserializeGameStarted, DeserializeEliminateResult
<1>7. DeserializeWireMessage(body) = {m}
  <2>1. Len(body) >= 2
    BY <1>4 DEF IsList
  <2>2. Readable("MessageType", body[1]) /\ body[1][2] = m.type
    BY <1>1, <1>2 DEF Readable, NumberToken, LastOf
  <2>3. Quoted(body[2]) = m.payload
    BY <1>2 DEF Quoted, TextToken
  <2> QED
    BY <1>1, <2>1, <2>2, <2>3 DEF DeserializeWireMessage
<1>8. ReceivedByClient(body) = m
  BY <1>6, <1>7, FirstOfThree DEF ReceivedByClient
<1> QED
  BY <1>3, <1>4, <1>8 DEF IsList

\* And so is the result of a turn, with the fight that followed: the two lists of
\* an event's fields are one list.
LEMMA ResultBack ==
  ASSUME NEW m, m.struct = "EliminateResult", IsAnnouncement(m)
  PROVE  /\ \E n \in Nat : IsList(Serialize(m), n)
         /\ ReceivedByClient(Serialize(m)) = m
<1>1. /\ m = [struct |-> "EliminateResult", success |-> m.success, errorMessage |-> m.errorMessage,
              game |-> m.game, combatEvents |-> m.combatEvents]
      /\ m.success \in BOOLEAN /\ IsGame(m.game)
      /\ Len(m.combatEvents) \in 0..MaximumEvents
      /\ AreStructs(EventFieldsWritten, Len(m.combatEvents), m.combatEvents)
  BY DEF IsAnnouncement
<1>2. PICK count \in Nat : count = Len(m.combatEvents) /\ count \in 0..MaximumEvents
  <2>2. Len(m.combatEvents) \in 0..MaximumEvents
    BY <1>1
  <2>1. Len(m.combatEvents) \in Nat
    BY <2>2, CountAndFlag
  <2> QED
    BY <1>1, <2>1
<1>3. PICK head, game, number, list, body :
        /\ head = <<NumberToken(5), Put("flag", m.success), TextToken(m.errorMessage)>>
        /\ game = WriteGame(m.game)
        /\ number = <<NumberToken(count)>>
        /\ list = WriteAll(EventFieldsWritten, m.combatEvents)
        /\ body = ((head \o game) \o number) \o list
  OBVIOUS
<1>4. Serialize(m) = body
  BY <1>1, <1>2, <1>3 DEF Serialize, MessageType
<1>5. IsList(head, 3) /\ IsList(number, 1)
  BY <1>3 DEF IsList
<1>6. PICK g \in Nat : g = GameLength /\ IsList(game, g) /\ GameEnd(3) = 3 + g
  <2>1. IsList(game, GameLength) /\ GameEnd(3) = 3 + GameLength
    BY <1>1, <1>3, GameBack
  <2> QED
    BY <2>1 DEF IsList
<1>7. AreStructs(EventFieldsWritten, count, m.combatEvents) /\ IsFields(EventFieldsWritten, 39)
  BY <1>1, <1>2, EventFieldsList
<1>8. PICK l \in Nat : IsList(list, l)
  <2>1. IsList(list, count * 39)
    BY <1>3, <1>7, WriteAllList
  <2> QED
    BY <2>1 DEF IsList
<1>9. /\ IsList(head \o game, 3 + g)
      /\ IsList((head \o game) \o number, 3 + g + 1)
      /\ IsList(body, 3 + g + 1 + l)
  <2>1. IsList(head \o game, 3 + g)
    BY <1>5, <1>6, LiesParts
  <2>2. IsList((head \o game) \o number, 3 + g + 1)
    BY <1>5, <2>1, LiesParts
  <2>3. IsList(((head \o game) \o number) \o list, 3 + g + 1 + l)
    BY <1>8, <2>2, LiesParts
  <2> QED
    BY <1>3, <2>1, <2>2, <2>3
<1>10. /\ Lies(body, 0, head) /\ Lies(body, 3, game)
       /\ Lies(body, 3 + g, number) /\ Lies(body, 3 + g + 1, list)
  <2>1. Lies(body, 0, ((head \o game) \o number) \o list)
    BY <1>3, <1>9, LiesWhole
  <2>2. PICK s : s = (head \o game) \o number
    OBVIOUS
  <2>3. IsList(s, 3 + g + 1) /\ Lies(body, 0, s \o list)
    BY <1>9, <2>1, <2>2
  <2>4. Lies(body, 0, s) /\ Lies(body, 0 + (3 + g + 1), list)
    BY <1>8, <2>3, LiesParts
  <2>5. PICK t : t = head \o game
    OBVIOUS
  <2>6. IsList(t, 3 + g) /\ Lies(body, 0, t \o number)
    BY <1>9, <2>2, <2>4, <2>5
  <2>7. Lies(body, 0, t) /\ Lies(body, 0 + (3 + g), number)
    BY <1>5, <2>6, LiesParts
  <2>8. Lies(body, 0, head \o game)
    BY <2>5, <2>7
  <2>9. Lies(body, 0, head) /\ Lies(body, 0 + 3, game)
    BY <1>5, <1>6, <2>8, LiesParts
  <2>10. 0 + (3 + g + 1) = 3 + g + 1 /\ 0 + (3 + g) = 3 + g /\ 0 + 3 = 3
    OBVIOUS
  <2> QED
    BY <2>4, <2>7, <2>9, <2>10
<1>11. PICK end : end = 3 + g + 1 /\ end = GameEnd(3) + 1
  BY <1>6
<1>12. /\ body[1] = NumberToken(5) /\ body[2] = Put("flag", m.success)
       /\ body[3] = TextToken(m.errorMessage)
       /\ body[end] = NumberToken(count) /\ Len(body) >= end /\ 1 <= Len(body)
  <2>1. \A i \in 1..3 : body[0 + i] = head[i]
    BY <1>5, <1>10 DEF Lies, IsList
  <2>2. body[1] = head[1] /\ body[2] = head[2] /\ body[3] = head[3]
    BY <2>1
  <2>3. body[(3 + g) + 1] = number[1] /\ (3 + g) + 1 <= Len(body)
    BY <1>5, <1>10 DEF Lies, IsList
  <2>4. body[end] = NumberToken(count)
    BY <1>3, <1>11, <2>3
  <2>5. body[1] = NumberToken(5) /\ body[2] = Put("flag", m.success) /\ body[3] = TextToken(m.errorMessage)
    BY <1>3, <2>2
  <2>6. Len(body) >= end /\ 1 <= Len(body)
    <3>1. Len(body) \in Nat
      BY <1>9 DEF IsList
    <3>2. 1 <= 3 + g + 1
      BY <1>6
    <3> QED
      BY <1>6, <1>11, <2>3, <3>1, <3>2
  <2> QED
    BY <2>4, <2>5, <2>6
<1>13. IsType(body, "EliminateResult") /\ ~IsType(body, "GameStarted")
  <2>1. body # << >>
    BY <1>12
  <2>2. NumberToken(5) # NumberToken(3)
    BY DEF NumberToken
  <2> QED
    BY <1>12, <2>1, <2>2 DEF IsType, MessageType
<1>14. CanReadGame(body, 3) /\ ReadGame(body, 3) = m.game
  <2>1. Lies(body, 3, WriteGame(m.game))
    BY <1>3, <1>10
  <2> QED
    BY <1>1, <2>1, GameBack
<1>15. Readable("flag", body[2]) /\ Got("flag", body[2]) = m.success
  <2>1. Fits("flag", m.success)
    BY <1>1, CountAndFlag
  <2> QED
    BY <1>12, <2>1, FieldBack
<1>16. Readable("number", body[end]) /\ body[end][2] = count
  <2>1. "number" \notin DOMAIN LastOf
    BY DEF LastOf
  <2> QED
    BY <1>12, <2>1 DEF Readable, NumberToken
<1>17. Quoted(body[3]) = m.errorMessage
  BY <1>12 DEF Quoted, TextToken
<1>18. /\ CanReadAll(EventFieldsRead, count, body, end)
       /\ ReadAll(EventFieldsRead, count, body, end) = m.combatEvents
  <2>1. /\ CanReadAll(EventFieldsWritten, count, body, end)
        /\ ReadAll(EventFieldsWritten, count, body, end) = m.combatEvents
    <3>1. end \in Nat
      BY <1>11
    <3>2. Lies(body, end, WriteAll(EventFieldsWritten, m.combatEvents))
      BY <1>3, <1>10, <1>11, Zenon
    <3> QED
      BY <1>7, <3>1, <3>2, ListBack
  <2>2. EventFieldsRead = EventFieldsWritten
    BY DEF EventFieldsRead, EventFieldsWritten
  <2> QED
    BY <2>1, <2>2
<1>19. DeserializeEliminateResult(body)
         = {[struct |-> "EliminateResult", success |-> m.success, errorMessage |-> m.errorMessage,
             game |-> m.game, combatEvents |-> m.combatEvents]}
  BY <1>2, <1>11, <1>12, <1>13, <1>14, <1>15, <1>16, <1>17, <1>18 DEF DeserializeEliminateResult
<1>20. DeserializeEliminateResult(body) = {m} /\ DeserializeGameStarted(body) = {}
  BY <1>1, <1>13, <1>19 DEF DeserializeGameStarted
<1>21. ReceivedByClient(body) = m
  BY <1>20, FirstOfThree DEF ReceivedByClient
<1> QED
  BY <1>4, <1>9, <1>21 DEF IsList

\* Whatever the server announces, a client reads it back field by field, and of
\* the kind it was sent as: the readers that are asked first refuse it.
THEOREM AnnouncementReadBack ==
  ASSUME NEW m, IsAnnouncement(m)
  PROVE  ReceivedByClient(Serialize(m)) = m
<1>1. m.struct \in {"GameStarted", "EliminateResult", "WireMessage"}
  BY DEF IsAnnouncement
<1> QED
  BY <1>1, StartedBack, ResultBack, ShortBack

\* Whatever a client asks for, the server reads it back, path and turn and all.
THEOREM RequestReadBack ==
  ASSUME NEW m, IsRequest(m)
  PROVE  ReceivedByServer(Serialize(m)) = m
BY RequestBack

-----------------------------------------------------------------------------
(* Frames.                                                                 *)

\* To divide by a product is to divide twice.
LEMMA DivideTwice ==
  ASSUME NEW n \in Nat, NEW b \in Nat \ {0}, NEW c \in Nat \ {0}
  PROVE  b * c \in Nat \ {0} /\ n \div (b * c) = (n \div b) \div c
<1>1. PICK q \in Nat, r \in 0..b - 1 : q = n \div b /\ n = q * b + r
  BY SMTT(20)
<1>2. PICK s \in Nat, t \in 0..c - 1 : s = q \div c /\ q = s * c + t
  BY SMTT(20)
<1>3. PICK bc : bc = b * c
  OBVIOUS
<1>4. bc \in Nat \ {0}
  BY <1>3
<1>5. PICK rest : rest = t * b + r
  OBVIOUS
<1>6. rest \in Nat /\ rest < c * b
  BY <1>5, PointInCell
<1>7. c * b = bc
  BY <1>3
<1>8. n = s * bc + rest
  <2>1. (s * c + t) * b = s * (b * c) + t * b
    OBVIOUS
  <2>2. PICK u, v : u = s * (b * c) /\ v = t * b
    OBVIOUS
  <2>3. u \in Nat /\ v \in Nat
    BY <2>2
  <2>4. q * b = u + v
    BY <1>2, <2>1, <2>2
  <2>5. n = (u + v) + r /\ rest = v + r
    BY <1>1, <1>5, <2>2, <2>4
  <2>6. n = u + rest
    BY <2>3, <2>5
  <2> QED
    BY <1>3, <2>2, <2>6
<1>9. rest \in 0..bc - 1 /\ s \in 0..(s + 1) - 1 /\ s + 1 \in Nat
  BY <1>4, <1>6, <1>7
<1>10. (s * bc + rest) \div bc = s
  BY <1>4, <1>9, PointInCell
<1> QED
  BY <1>1, <1>2, <1>3, <1>4, <1>8, <1>10

\* The four bytes of a header give the length back that they were made of.
LEMMA LengthBack ==
  ASSUME NEW n \in 0..LongestBody, NEW header,
         \A i \in 1..HeaderBytes : header[i] = Header(n)[i]
  PROVE  FrameLength(header) = n
<1>1. PICK b \in Nat \ {0} : b = ByteBase
  BY ByteBaseAssumption
<1>2. n \in Nat /\ n < b * b * b * b
  <2>1. b * b * b * b \in Nat /\ LongestBody = b * b * b * b - 1
    BY <1>1 DEF LongestBody
  <2> QED
    BY <2>1
<1>3. PICK q1, q2, q3 : q1 = n \div b /\ q2 = q1 \div b /\ q3 = q2 \div b
  OBVIOUS
<1>4. q1 \in Nat /\ q2 \in Nat /\ q3 \in Nat
  <2>1. q1 \in Nat
    BY <1>2, <1>3
  <2>2. q2 \in Nat
    BY <1>3, <2>1
  <2> QED
    BY <1>3, <2>1, <2>2
<1>5. /\ n = q1 * b + (n % b) /\ n % b \in 0..b - 1
      /\ q1 = q2 * b + (q1 % b) /\ q1 % b \in 0..b - 1
      /\ q2 = q3 * b + (q2 % b) /\ q2 % b \in 0..b - 1
  <2>1. \A x \in Nat : x = (x \div b) * b + (x % b) /\ x % b \in 0..b - 1
    OBVIOUS
  <2> QED
    BY <1>2, <1>3, <1>4, <2>1
<1>6. /\ n \div (b * b) = q2 /\ b * b \in Nat \ {0}
      /\ n \div (b * b * b) = q3 /\ b * b * b \in Nat \ {0}
  <2>1. n \in Nat /\ b \in Nat \ {0}
    BY <1>1, <1>2
  <2>2. \A c, d \in Nat \ {0} : c * d \in Nat \ {0} /\ n \div (c * d) = (n \div c) \div d
    BY <2>1, DivideTwice
  <2>3. b * b \in Nat \ {0} /\ n \div (b * b) = q2
    BY <1>3, <2>1, <2>2
  <2>4. PICK bb : bb = b * b
    OBVIOUS
  <2>5. bb \in Nat \ {0}
    BY <2>3, <2>4
  <2>6. bb * b \in Nat \ {0} /\ n \div (bb * b) = (n \div bb) \div b
    BY <2>1, <2>2, <2>5
  <2> QED
    BY <1>3, <2>3, <2>4, <2>6
<1>7. q3 < b
  <2>1. PICK bbb \in Nat \ {0} : bbb = b * b * b
    BY <1>6
  <2>2. n \div bbb = q3 /\ n < bbb * b
    BY <1>2, <1>6, <2>1
  <2>3. n = q3 * bbb + (n % bbb) /\ n % bbb \in 0..bbb - 1
    <3>1. \A x \in Nat : x = (x \div bbb) * bbb + (x % bbb) /\ x % bbb \in 0..bbb - 1
      OBVIOUS
    <3>2. n \in Nat
      BY <1>2
    <3> QED
      BY <2>2, <3>1, <3>2
  <2>4. q3 * bbb < b * bbb
    <3>1. q3 * bbb \in Nat /\ bbb * b = b * bbb /\ b * bbb \in Nat
      BY <1>4
    <3> QED
      BY <1>2, <2>2, <2>3, <3>1
  <2> QED
    BY <1>4, <2>4
<1>8. q3 % b = q3
  BY <1>4, <1>7
<1>9. /\ header[1][2] = q3 /\ header[2][2] = q2 % b
      /\ header[3][2] = q1 % b /\ header[4][2] = n % b
  <2>1. \A i \in 1..4 : header[i][2] = (n \div PlaceValue[i]) % b
    BY <1>1 DEF Header, HeaderBytes, NumberToken
  <2>2. /\ PlaceValue[1] = b * b * b /\ PlaceValue[2] = b * b
        /\ PlaceValue[3] = b /\ PlaceValue[4] = 1
    BY <1>1 DEF PlaceValue
  <2>3. n \div 1 = n
    BY <1>2
  <2>4. /\ header[1][2] = (n \div (b * b * b)) % b /\ header[2][2] = (n \div (b * b)) % b
        /\ header[3][2] = (n \div b) % b /\ header[4][2] = (n \div 1) % b
    BY <2>1, <2>2
  <2> QED
    BY <1>3, <1>6, <1>8, <2>3, <2>4
<1>10. PICK d2, d3, d4 : d2 = q2 % b /\ d3 = q1 % b /\ d4 = n % b
  OBVIOUS
<1>11. d2 \in Nat /\ d3 \in Nat /\ d4 \in Nat
  BY <1>5, <1>10
<1>12. n = q3 * (b * b * b) + d2 * (b * b) + d3 * b + d4
  <2>1. n = ((q3 * b + d2) * b + d3) * b + d4
    BY <1>5, <1>10
  <2>2. ((q3 * b + d2) * b + d3) * b = q3 * (b * b * b) + d2 * (b * b) + d3 * b
    BY <1>4, <1>11
  <2> QED
    BY <2>1, <2>2
<1>13. FrameLength(header) = q3 * (b * b * b) + d2 * (b * b) + d3 * b + d4 * 1
  <2>1. /\ PlaceValue[1] = b * b * b /\ PlaceValue[2] = b * b
        /\ PlaceValue[3] = b /\ PlaceValue[4] = 1
    BY <1>1 DEF PlaceValue
  <2> QED
    BY <1>9, <1>10, <2>1 DEF FrameLength
<1>14. d4 * 1 = d4
  BY <1>11
<1> QED
  BY <1>12, <1>13, <1>14

-----------------------------------------------------------------------------
(* Pieces of a sequence.                                                   *)

IsCut(s, l, n, first, rest) ==
  /\ IsList(first, n) /\ \A i \in 1..n : first[i] = s[i]
  /\ IsList(rest, l - n) /\ \A i \in 1..l - n : rest[i] = s[n + i]

IsJoined(s, l, t, n, c) ==
  /\ IsList(c, l + n) /\ \A i \in 1..l : c[i] = s[i]
  /\ \A i \in 1..n : c[l + i] = t[i]

\* The first n elements, and the others.
LEMMA Cut ==
  ASSUME NEW s, NEW l, IsList(s, l), NEW n \in 0..l
  PROVE  IsCut(s, l, n, SubSeq(s, 1, n), Rest(n, s))
<1>1. l \in Nat /\ Len(s) = l /\ s = [p \in 1..l |-> s[p]]
  BY DEF IsList
<1>2. PICK S : S = {s[p] : p \in 1..l}
  OBVIOUS
<1>3. s \in Seq(S)
  BY <1>1, <1>2, InSeq
<1>4. /\ SubSeq(s, 1, n) \in Seq(S) /\ Len(SubSeq(s, 1, n)) = n
      /\ \A i \in 1..n : SubSeq(s, 1, n)[i] = s[i]
  BY <1>1, <1>3
<1>5. /\ SubSeq(s, n + 1, l) \in Seq(S) /\ Len(SubSeq(s, n + 1, l)) = l - n
      /\ \A i \in 1..l - n : SubSeq(s, n + 1, l)[i] = s[n + i]
  BY <1>1, <1>3
<1>6. n \in Nat /\ l - n \in Nat
  BY <1>1
<1>7. Rest(n, s) = SubSeq(s, n + 1, l)
  BY <1>1 DEF Rest
<1>8. IsList(SubSeq(s, 1, n), n)
  BY <1>4, <1>6 DEF IsList
<1>9. IsList(SubSeq(s, n + 1, l), l - n)
  <2>1. PICK u, d : u = SubSeq(s, n + 1, l) /\ d = l - n
    OBVIOUS
  <2>2. u \in Seq(S) /\ Len(u) = d /\ d \in Nat
    BY <1>5, <1>6, <2>1
  <2>3. u = [p \in 1..d |-> u[p]]
    BY <2>2
  <2> QED
    BY <2>1, <2>2, <2>3 DEF IsList
<1> QED
  BY <1>4, <1>5, <1>7, <1>8, <1>9 DEF IsCut

\* What is appended to a list.
LEMMA Longer ==
  ASSUME NEW s, NEW l, IsList(s, l), NEW t, NEW n, IsList(t, n)
  PROVE  IsJoined(s, l, t, n, s \o t)
<1>1. /\ l \in Nat /\ Len(s) = l /\ s = [p \in 1..l |-> s[p]]
      /\ n \in Nat /\ Len(t) = n /\ t = [p \in 1..n |-> t[p]]
  BY DEF IsList
<1>2. PICK c : c = s \o t
  OBVIOUS
<1>3. c = [p \in 1..l + n |-> IF p <= l THEN s[p] ELSE t[p - l]]
  BY <1>1, <1>2, Joined
<1>4. IsList(c, l + n)
  <2>1. l + n \in Nat /\ Len(c) = l + n /\ c = [p \in 1..l + n |-> c[p]]
    BY <1>1, <1>3
  <2> QED
    BY <2>1 DEF IsList
<1>5. \A i \in 1..l : c[i] = s[i]
  <2> SUFFICES ASSUME NEW i \in 1..l PROVE c[i] = s[i]
    OBVIOUS
  <2>1. i \in 1..l + n /\ i <= l
    BY <1>1
  <2> QED
    BY <1>3, <2>1
<1>6. \A i \in 1..n : c[l + i] = t[i]
  <2> SUFFICES ASSUME NEW i \in 1..n PROVE c[l + i] = t[i]
    OBVIOUS
  <2>1. l + i \in 1..l + n /\ ~(l + i <= l) /\ (l + i) - l = i
    BY <1>1
  <2> QED
    BY <1>3, <2>1
<1> QED
  BY <1>2, <1>4, <1>5, <1>6 DEF IsJoined

-----------------------------------------------------------------------------
(* One direction of the connection.                                        *)

Messages == Announcements \cup Requests \cup {LengthError}

\* A frame is the header of its body's length, and the body.
LEMMA FrameShape ==
  ASSUME NEW m \in Messages
  PROVE  \E n \in 0..LongestBody :
           /\ IsList(Serialize(m), n) /\ IsList(Frame(m), 4 + n)
           /\ \A i \in 1..4 : Frame(m)[i] = Header(n)[i]
           /\ \A i \in 1..n : Frame(m)[4 + i] = Serialize(m)[i]
<1>1. IsAnnouncement(m) \/ IsRequest(m)
  <2>1. IsAnnouncement(LengthError)
    BY DEF IsAnnouncement, LengthError, MessageType, LastOf
  <2> QED
    BY <2>1, MessagesAssumption DEF Messages
<1>2. PICK n \in Nat : IsList(Serialize(m), n)
  <2>1. IsAnnouncement(m) => m.struct \in {"GameStarted", "EliminateResult", "WireMessage"}
    BY DEF IsAnnouncement
  <2> QED
    BY <1>1, <2>1, StartedBack, ResultBack, ShortBack, RequestBack
<1>3. Len(Serialize(m)) <= LongestBody
  BY MessagesAssumption DEF Messages
<1>4. LongestBody \in Int
  BY ByteBaseAssumption DEF LongestBody
<1>5. n \in 0..LongestBody /\ Len(Serialize(m)) = n /\ ~(Len(Serialize(m)) > LongestBody)
  BY <1>2, <1>3, <1>4 DEF IsList
<1>6. Frame(m) = Header(n) \o Serialize(m)
  BY <1>5 DEF Frame
<1>7. IsList(Header(n), 4)
  BY DEF IsList, Header, HeaderBytes
<1>8. PICK h, s : h = Header(n) /\ s = Serialize(m)
  OBVIOUS
<1>9. /\ IsList(h \o s, 4 + n) /\ \A i \in 1..4 : (h \o s)[i] = h[i]
      /\ \A i \in 1..n : (h \o s)[4 + i] = s[i]
  <2>1. PICK l : l = 4 /\ IsList(h, l)
    BY <1>7, <1>8
  <2>2. IsList(s, n)
    BY <1>2, <1>8
  <2>3. IsJoined(h, l, s, n, h \o s)
    BY <2>1, <2>2, Longer
  <2> QED
    BY <2>1, <2>3 DEF IsJoined
<1>10. Frame(m) = h \o s
  BY <1>6, <1>8
<1> QED
  BY <1>2, <1>5, <1>8, <1>9, <1>10

BodyLength(m) == Len(Serialize(m))

\* The frames of the messages sent, one after the other: byte p is bytes[p], and
\* the k-th frame ends at start[k].
Stream(sent, bytes, start) ==
  /\ sent \in Seq(Messages)
  /\ \A k \in 0..Len(sent) : start[k] \in Nat
  /\ start[0] = 0
  /\ \A k \in 1..Len(sent) : start[k] = start[k - 1] + (4 + BodyLength(sent[k]))
  /\ \A j, k \in 0..Len(sent) : j <= k => start[j] <= start[k]
  /\ \A k \in 1..Len(sent) : \A i \in 1..4 + BodyLength(sent[k]) :
       bytes[start[k - 1] + i] = Frame(sent[k])[i]

\* A piece of the stream, after the byte `from`.
Piece(bytes, from, s) == \E l : IsList(s, l) /\ \A i \in 1..l : bytes[from + i] = s[i]

\* A reader who has read g messages and pos bytes knows its place.
Place(sent, g, read, bytes, start, pos) ==
  /\ g \in 0..Len(sent)
  /\ read = [part |-> read.part, need |-> read.need, got |-> read.got]
  /\ \/ read = NotReading
     \/ /\ read.part = "header" /\ read.need = 4 /\ Len(read.got) <= 4
        /\ Piece(bytes, start[g], read.got)
        /\ pos = start[g] + Len(read.got)
     \/ /\ read.part = "body" /\ g < Len(sent)
        /\ read.need = BodyLength(sent[g + 1]) /\ Len(read.got) <= read.need
        /\ Piece(bytes, start[g] + 4, read.got)
        /\ pos = (start[g] + 4) + Len(read.got)

\* The bytes under way follow those read and are among those handed over.
Carried(sent, g, read, under, bytes, start, pos, out) ==
  /\ Stream(sent, bytes, start)
  /\ pos \in Nat /\ out \in Nat
  /\ Piece(bytes, pos, under)
  /\ pos + Len(under) <= out /\ out <= start[Len(sent)]
  /\ Place(sent, g, read, bytes, start, pos)

\* What a piece of the stream is, by its length.
LEMMA PieceLength ==
  ASSUME NEW bytes, NEW from, NEW s, Piece(bytes, from, s)
  PROVE  /\ Len(s) \in Nat /\ IsList(s, Len(s)) /\ \A i \in 1..Len(s) : bytes[from + i] = s[i]
BY DEF Piece, IsList

\* A frame, by the length of its body.
LEMMA FrameOf ==
  ASSUME NEW m \in Messages
  PROVE  /\ BodyLength(m) \in Nat /\ BodyLength(m) \in 0..LongestBody
         /\ IsList(Serialize(m), BodyLength(m)) /\ IsList(Frame(m), 4 + BodyLength(m))
         /\ \A i \in 1..4 : Frame(m)[i] = Header(BodyLength(m))[i]
         /\ \A i \in 1..BodyLength(m) : Frame(m)[4 + i] = Serialize(m)[i]
<1>1. PICK n \in 0..LongestBody :
        /\ IsList(Serialize(m), n) /\ IsList(Frame(m), 4 + n)
        /\ \A i \in 1..4 : Frame(m)[i] = Header(n)[i]
        /\ \A i \in 1..n : Frame(m)[4 + i] = Serialize(m)[i]
  BY FrameShape
<1>2. BodyLength(m) = n /\ n \in Nat
  BY <1>1 DEF IsList, BodyLength
<1> QED
  BY <1>1, <1>2

\* Another message sent is more of the same stream.
LEMMA StreamGrows ==
  ASSUME NEW sent, NEW bytes, NEW start, Stream(sent, bytes, start), NEW m \in Messages
  PROVE  \E more, ends :
           /\ Stream(Append(sent, m), more, ends)
           /\ \A k \in 0..Len(sent) : ends[k] = start[k]
           /\ \A p \in 1..start[Len(sent)] : more[p] = bytes[p]
<1>1. PICK l \in Nat : l = Len(sent)
  BY DEF Stream
<1>2. PICK longer : longer = Append(sent, m)
  OBVIOUS
<1>3. /\ longer \in Seq(Messages) /\ Len(longer) = l + 1 /\ longer[l + 1] = m
      /\ \A k \in 1..l : longer[k] = sent[k]
  BY <1>1, <1>2 DEF Stream
<1>4. PICK n \in Nat : n = BodyLength(m) /\ IsList(Frame(m), 4 + n)
  BY FrameOf
<1>5. /\ \A k \in 0..l : start[k] \in Nat
      /\ start[0] = 0
      /\ \A k \in 1..l : start[k] = start[k - 1] + (4 + BodyLength(sent[k]))
      /\ \A j, k \in 0..l : j <= k => start[j] <= start[k]
      /\ \A k \in 1..l : \A i \in 1..4 + BodyLength(sent[k]) :
           bytes[start[k - 1] + i] = Frame(sent[k])[i]
  BY <1>1 DEF Stream
<1>6. PICK end \in Nat : end = start[l]
  BY <1>1, <1>5
<1>7. PICK ends : ends = [k \in 0..l + 1 |-> IF k <= l THEN start[k] ELSE end + (4 + n)]
  OBVIOUS
<1>8. PICK more : more = [p \in Nat |-> IF p > end THEN Frame(m)[p - end] ELSE bytes[p]]
  OBVIOUS
<1>9. /\ \A k \in 0..l : ends[k] = start[k]
      /\ ends[l + 1] = end + (4 + n)
  <2>1. \A k \in 0..l : k \in 0..l + 1 /\ k <= l
    OBVIOUS
  <2>2. l + 1 \in 0..l + 1 /\ ~(l + 1 <= l)
    OBVIOUS
  <2> QED
    BY <1>7, <2>1, <2>2
<1>10. /\ \A p \in 1..end : more[p] = bytes[p]
       /\ \A i \in 1..4 + n : more[end + i] = Frame(m)[i]
  <2>1. \A p \in 1..end : p \in Nat /\ ~(p > end)
    OBVIOUS
  <2>2. \A i \in 1..4 + n : end + i \in Nat /\ end + i > end /\ (end + i) - end = i
    OBVIOUS
  <2> QED
    BY <1>8, <2>1, <2>2
<1>11. \A k \in 0..l + 1 : k \in 0..l \/ k = l + 1
  OBVIOUS
<1>12. \A k \in 0..l + 1 : ends[k] \in Nat
  <2>1. end + (4 + n) \in Nat
    OBVIOUS
  <2> QED
    BY <1>5, <1>9, <1>11, <2>1
<1>13. ends[0] = 0
  <2>1. 0 \in 0..l
    OBVIOUS
  <2> QED
    BY <1>5, <1>9, <2>1
<1>14. ASSUME NEW k \in 1..l + 1
       PROVE  ends[k] = ends[k - 1] + (4 + BodyLength(longer[k]))
  <2>1. CASE k \in 1..l
    <3>1. k \in 0..l /\ k - 1 \in 0..l
      BY <2>1
    <3> QED
      BY <1>3, <1>5, <1>9, <2>1, <3>1
  <2>2. CASE k = l + 1
    <3>1. k - 1 = l /\ l \in 0..l
      BY <2>2
    <3> QED
      BY <1>3, <1>4, <1>6, <1>9, <2>2, <3>1
  <2> QED
    BY <2>1, <2>2
<1>15. ASSUME NEW j \in 0..l + 1, NEW k \in 0..l + 1, j <= k
       PROVE  ends[j] <= ends[k]
  <2>1. CASE k \in 0..l
    <3>1. j \in 0..l
      BY <1>15, <2>1
    <3> QED
      BY <1>5, <1>9, <1>15, <2>1, <3>1
  <2>2. CASE k = l + 1 /\ j \in 0..l
    <3>1. start[j] <= end /\ start[j] \in Nat
      <4>1. l \in 0..l /\ j <= l
        BY <2>2
      <4> QED
        BY <1>5, <1>6, <2>2, <4>1
    <3>2. start[j] <= end + (4 + n)
      BY <3>1
    <3> QED
      BY <1>9, <2>2, <3>2
  <2>3. CASE k = l + 1 /\ j = l + 1
    BY <1>12, <2>3
  <2> QED
    BY <1>11, <2>1, <2>2, <2>3
<1>16. ASSUME NEW k \in 1..l + 1, NEW i \in 1..4 + BodyLength(longer[k])
       PROVE  more[ends[k - 1] + i] = Frame(longer[k])[i]
  <2>1. CASE k \in 1..l
    <3>1. k \in 0..l /\ k - 1 \in 0..l /\ l \in 0..l /\ k <= l
      BY <2>1
    <3>2. /\ start[k - 1] \in Nat /\ start[k] <= end /\ start[k] \in Nat
          /\ start[k] = start[k - 1] + (4 + BodyLength(sent[k]))
      BY <1>5, <1>6, <2>1, <3>1
    <3>3. i \in 1..4 + BodyLength(sent[k])
      BY <1>3, <2>1
    <3>4. BodyLength(sent[k]) \in Nat
      <4>1. sent[k] \in Messages
        BY <1>1, <2>1 DEF Stream
      <4> QED
        BY <4>1, FrameOf
    <3>5. start[k - 1] + i \in 1..end
      BY <3>2, <3>3, <3>4
    <3>6. bytes[start[k - 1] + i] = Frame(sent[k])[i]
      BY <1>5, <2>1, <3>3
    <3> QED
      BY <1>3, <1>9, <1>10, <2>1, <3>1, <3>5, <3>6
  <2>2. CASE k = l + 1
    <3>1. k - 1 = l /\ l \in 0..l
      BY <2>2
    <3> QED
      BY <1>3, <1>4, <1>6, <1>9, <1>10, <2>2, <3>1
  <2> QED
    BY <2>1, <2>2
<1>17. Stream(longer, more, ends)
  BY <1>3, <1>12, <1>13, <1>14, <1>15, <1>16 DEF Stream
<1> QED
  BY <1>1, <1>2, <1>6, <1>9, <1>10, <1>17

\* A reader's place and the bytes under way are the same in the longer stream.
LEMMA CarriedGrows ==
  ASSUME NEW sent, NEW g, NEW read, NEW under, NEW bytes, NEW start, NEW pos, NEW out,
         Carried(sent, g, read, under, bytes, start, pos, out), NEW m \in Messages
  PROVE  \E more, ends :
           /\ Carried(Append(sent, m), g, read, under, more, ends, pos, out)
           /\ \A k \in 0..Len(sent) : ends[k] = start[k]
           /\ \A p \in 1..start[Len(sent)] : more[p] = bytes[p]
<1>1. /\ Stream(sent, bytes, start)
      /\ pos \in Nat /\ out \in Nat
      /\ Piece(bytes, pos, under)
      /\ pos + Len(under) <= out /\ out <= start[Len(sent)]
      /\ Place(sent, g, read, bytes, start, pos)
  BY DEF Carried
<1>2. PICK more, ends :
        /\ Stream(Append(sent, m), more, ends)
        /\ \A k \in 0..Len(sent) : ends[k] = start[k]
        /\ \A p \in 1..start[Len(sent)] : more[p] = bytes[p]
  BY <1>1, StreamGrows
<1>3. PICK l \in Nat : l = Len(sent)
  BY <1>1 DEF Stream
<1>4. PICK longer : longer = Append(sent, m)
  OBVIOUS
<1>5. Len(longer) = l + 1 /\ \A k \in 1..l : longer[k] = sent[k]
  BY <1>1, <1>3, <1>4 DEF Stream
<1>6. PICK end \in Nat : end = start[l] /\ \A k \in 0..l : start[k] \in Nat /\ start[k] <= end
  <2>1. l \in 0..l /\ \A k \in 0..l : k <= l
    OBVIOUS
  <2> QED
    BY <1>1, <1>3, <2>1 DEF Stream
<1>7. ASSUME NEW from \in Nat, NEW s, Piece(bytes, from, s), from + Len(s) <= end
      PROVE  Piece(more, from, s)
  <2>1. Len(s) \in Nat /\ IsList(s, Len(s)) /\ \A i \in 1..Len(s) : bytes[from + i] = s[i]
    BY <1>7, PieceLength
  <2>2. \A i \in 1..Len(s) : from + i \in 1..end
    BY <1>7, <2>1
  <2>3. \A i \in 1..Len(s) : more[from + i] = s[i]
    BY <1>2, <1>3, <1>6, <2>1, <2>2
  <2> QED
    BY <2>1, <2>3 DEF Piece
<1>8. Len(under) \in Nat
  BY <1>1, PieceLength
<1>9. pos <= end /\ out <= end
  BY <1>1, <1>3, <1>6, <1>8
<1>10. Piece(more, pos, under)
  BY <1>1, <1>3, <1>6, <1>7
<1>11. out <= ends[l + 1]
  <2>1. \A j, k \in 0..Len(longer) : j <= k => ends[j] <= ends[k]
    BY <1>2, <1>4 DEF Stream
  <2>2. l \in 0..l + 1 /\ l + 1 \in 0..l + 1 /\ l <= l + 1 /\ l \in 0..l
    OBVIOUS
  <2>3. end <= ends[l + 1]
    BY <1>2, <1>3, <1>5, <1>6, <2>1, <2>2
  <2>4. ends[l + 1] \in Nat
    BY <1>2, <1>4, <1>5, <2>2 DEF Stream
  <2> QED
    BY <1>1, <1>9, <2>3, <2>4
<1>12. Place(longer, g, read, more, ends, pos)
  <2>1. /\ g \in 0..l
        /\ read = [part |-> read.part, need |-> read.need, got |-> read.got]
    BY <1>1, <1>3 DEF Place
  <2>2. g \in 0..Len(longer) /\ ends[g] = start[g] /\ start[g] \in Nat
    BY <1>2, <1>3, <1>5, <1>6, <2>1
  <2>3. CASE read = NotReading
    BY <2>1, <2>2, <2>3 DEF Place
  <2>4. CASE /\ read.part = "header" /\ read.need = 4 /\ Len(read.got) <= 4
             /\ Piece(bytes, start[g], read.got)
             /\ pos = start[g] + Len(read.got)
    <3>1. Piece(more, start[g], read.got)
      BY <1>7, <1>9, <2>2, <2>4
    <3> QED
      BY <2>1, <2>2, <2>4, <3>1 DEF Place
  <2>5. CASE /\ read.part = "body" /\ g < Len(sent)
             /\ read.need = BodyLength(sent[g + 1]) /\ Len(read.got) <= read.need
             /\ Piece(bytes, start[g] + 4, read.got)
             /\ pos = (start[g] + 4) + Len(read.got)
    <3>1. Piece(more, start[g] + 4, read.got)
      <4>1. start[g] + 4 \in Nat
        BY <2>2
      <4> QED
        BY <1>7, <1>9, <2>2, <2>5, <4>1
    <3>2. g + 1 \in 1..l /\ g < Len(longer)
      BY <1>3, <1>5, <2>1, <2>5
    <3>3. longer[g + 1] = sent[g + 1]
      BY <1>5, <3>2
    <3> QED
      BY <2>1, <2>2, <2>5, <3>1, <3>2, <3>3 DEF Place
  <2> QED
    BY <1>1, <2>3, <2>4, <2>5 DEF Place
<1>13. Carried(longer, g, read, under, more, ends, pos, out)
  BY <1>1, <1>2, <1>4, <1>5, <1>10, <1>11, <1>12 DEF Carried
<1> QED
  BY <1>2, <1>4, <1>13

\* Bytes under way may be lost from the end.
LEMMA CarriedLost ==
  ASSUME NEW sent, NEW g, NEW read, NEW under, NEW bytes, NEW start, NEW pos, NEW out,
         Carried(sent, g, read, under, bytes, start, pos, out), NEW n \in 0..Len(under)
  PROVE  Carried(sent, g, read, SubSeq(under, 1, n), bytes, start, pos, out)
<1>1. /\ pos \in Nat /\ out \in Nat /\ Piece(bytes, pos, under) /\ pos + Len(under) <= out
  BY DEF Carried
<1>2. Len(under) \in Nat /\ IsList(under, Len(under)) /\ \A i \in 1..Len(under) : bytes[pos + i] = under[i]
  BY <1>1, PieceLength
<1>3. PICK s : s = SubSeq(under, 1, n)
  OBVIOUS
<1>4. IsList(s, n) /\ \A i \in 1..n : s[i] = under[i]
  <2>1. IsCut(under, Len(under), n, SubSeq(under, 1, n), Rest(n, under))
    BY <1>2, Cut
  <2> QED
    BY <1>3, <2>1 DEF IsCut
<1>5. n \in Nat /\ n <= Len(under) /\ \A i \in 1..n : i \in 1..Len(under)
  BY <1>2
<1>6. Piece(bytes, pos, s)
  BY <1>2, <1>4, <1>5 DEF Piece
<1>7. Len(s) = n /\ pos + Len(s) <= out
  BY <1>1, <1>2, <1>4, <1>5 DEF IsList
<1> QED
  BY <1>3, <1>6, <1>7 DEF Carried

\* So may all of them, and a reader may give up.
LEMMA CarriedEnds ==
  ASSUME NEW sent, NEW g, NEW read, NEW under, NEW bytes, NEW start, NEW pos, NEW out,
         Carried(sent, g, read, under, bytes, start, pos, out)
  PROVE  /\ Carried(sent, g, NotReading, under, bytes, start, pos, out)
         /\ Carried(sent, g, read, << >>, bytes, start, pos, out)
         /\ Carried(sent, g, NotReading, << >>, bytes, start, pos, out)
<1>1. /\ pos \in Nat /\ out \in Nat /\ Piece(bytes, pos, under) /\ pos + Len(under) <= out
      /\ Place(sent, g, read, bytes, start, pos)
  BY DEF Carried
<1>2. Len(under) \in Nat
  BY <1>1, PieceLength
<1>3. Piece(bytes, pos, << >>) /\ Len(<< >>) = 0 /\ pos + 0 <= out
  <2>1. IsList(<< >>, 0) /\ \A i \in 1..0 : bytes[pos + i] = << >>[i]
    BY DEF IsList
  <2> QED
    BY <1>1, <1>2, <2>1 DEF Piece
<1>4. Place(sent, g, NotReading, bytes, start, pos)
  BY <1>1 DEF Place, NotReading
<1> QED
  BY <1>1, <1>3, <1>4 DEF Carried
CutPiece(bytes, from, s, n, first, rest) ==
  /\ Piece(bytes, from, first) /\ Len(first) = n
  /\ Piece(bytes, from + n, rest) /\ Len(rest) = Len(s) - n

JoinedPiece(bytes, from, s, t, c) == Piece(bytes, from, c) /\ Len(c) = Len(s) + Len(t)

\* A piece of the stream cut in two, and two that follow each other.
LEMMA PieceCut ==
  ASSUME NEW bytes, NEW from \in Nat, NEW s, Piece(bytes, from, s), NEW n \in 0..Len(s)
  PROVE  CutPiece(bytes, from, s, n, SubSeq(s, 1, n), Rest(n, s))
<1>0. Len(s) \in Nat /\ IsList(s, Len(s)) /\ \A i \in 1..Len(s) : bytes[from + i] = s[i]
  BY PieceLength
<1>1. PICK l \in Nat : l = Len(s) /\ IsList(s, l) /\ \A i \in 1..l : bytes[from + i] = s[i]
  BY <1>0, Zenon
<1>2. n \in 0..l
  BY <1>1
<1>3. PICK h, r : h = SubSeq(s, 1, n) /\ r = Rest(n, s)
  OBVIOUS
<1>4. /\ IsList(h, n) /\ \A i \in 1..n : h[i] = s[i]
      /\ IsList(r, l - n) /\ \A i \in 1..l - n : r[i] = s[n + i]
  <2>1. IsCut(s, l, n, SubSeq(s, 1, n), Rest(n, s))
    BY <1>1, <1>2, Cut
  <2> QED
    BY <1>3, <2>1 DEF IsCut
<1>5. \A i \in 1..n : bytes[from + i] = h[i]
  <2>1. \A i \in 1..n : i \in 1..l
    BY <1>2
  <2> QED
    BY <1>1, <1>4, <2>1
<1>6. \A i \in 1..l - n : bytes[(from + n) + i] = r[i]
  <2>1. \A i \in 1..l - n : n + i \in 1..l /\ (from + n) + i = from + (n + i)
    BY <1>2
  <2> QED
    BY <1>1, <1>4, <2>1
<1> QED
  BY <1>1, <1>3, <1>4, <1>5, <1>6 DEF CutPiece, Piece, IsList

\* A piece that follows another makes one with it.
LEMMA PieceJoined ==
  ASSUME NEW bytes, NEW from \in Nat, NEW s, Piece(bytes, from, s),
         NEW t, Piece(bytes, from + Len(s), t)
  PROVE  JoinedPiece(bytes, from, s, t, s \o t)
<1>0. /\ Len(s) \in Nat /\ IsList(s, Len(s)) /\ \A i \in 1..Len(s) : bytes[from + i] = s[i]
      /\ Len(t) \in Nat /\ IsList(t, Len(t))
      /\ \A i \in 1..Len(t) : bytes[(from + Len(s)) + i] = t[i]
  BY PieceLength
<1>1. PICK l \in Nat : l = Len(s) /\ IsList(s, l) /\ \A i \in 1..l : bytes[from + i] = s[i]
  BY <1>0, Zenon
<1>2. PICK n \in Nat :
        n = Len(t) /\ IsList(t, n) /\ \A i \in 1..n : bytes[(from + Len(s)) + i] = t[i]
  BY <1>0, Zenon
<1>3. PICK c : c = s \o t
  OBVIOUS
<1>4. /\ IsList(c, l + n) /\ \A i \in 1..l : c[i] = s[i]
      /\ \A i \in 1..n : c[l + i] = t[i]
  <2>1. IsList(s, l) /\ IsList(t, n)
    BY <1>1, <1>2
  <2> QED
    <3>1. IsJoined(s, l, t, n, s \o t)
      BY <2>1, Longer
    <3> QED
      BY <1>3, <3>1 DEF IsJoined
<1>5. ASSUME NEW i \in 1..l + n PROVE bytes[from + i] = c[i]
  <2>1. CASE i <= l
    <3>1. i \in 1..l
      BY <2>1
    <3> QED
      BY <1>1, <1>4, <3>1
  <2>2. CASE ~(i <= l)
    <3>1. PICK j \in 1..n : i = l + j
      <4>1. i - l \in 1..n /\ i = l + (i - l)
        BY <2>2
      <4> QED
        BY <4>1
    <3>2. (from + l) + j = from + (l + j)
      OBVIOUS
    <3> QED
      BY <1>1, <1>2, <1>4, <3>1, <3>2
  <2> QED
    BY <2>1, <2>2
<1>6. Piece(bytes, from, c)
  BY <1>4, <1>5 DEF Piece
<1> QED
  BY <1>1, <1>2, <1>3, <1>4, <1>6 DEF JoinedPiece, IsList

\* Nothing has been lost.
Whole(pos, under, out) == pos + Len(under) = out

\* A reader that takes bytes under way is that much further.
LEMMA CarriedFeed ==
  ASSUME NEW sent, NEW g, NEW read, NEW under, NEW bytes, NEW start, NEW pos, NEW out,
         Carried(sent, g, read, under, bytes, start, pos, out),
         NEW n, Takes(read, n, under)
  PROVE  /\ Carried(sent, g, Fed(read, n, under), Rest(n, under), bytes, start, pos + n, out)
         /\ Whole(pos, under, out) => Whole(pos + n, Rest(n, under), out)
<1>1. /\ Stream(sent, bytes, start)
      /\ pos \in Nat /\ out \in Nat
      /\ Piece(bytes, pos, under)
      /\ pos + Len(under) <= out /\ out <= start[Len(sent)]
      /\ Place(sent, g, read, bytes, start, pos)
  BY DEF Carried
<1>2. PICK u \in Nat : u = Len(under)
  BY <1>1, PieceLength
<1>3. n \in 1..u /\ n \in 0..u /\ n <= read.need - Len(read.got)
  BY <1>2 DEF Takes
<1>4. PICK h, r : h = SubSeq(under, 1, n) /\ r = Rest(n, under)
  OBVIOUS
<1>5. /\ Piece(bytes, pos, h) /\ Len(h) = n
      /\ Piece(bytes, pos + n, r) /\ Len(r) = u - n
  <2>1. CutPiece(bytes, pos, under, n, SubSeq(under, 1, n), Rest(n, under))
    <3>1. pos \in Nat /\ Piece(bytes, pos, under) /\ n \in 0..Len(under)
      BY <1>1, <1>2, <1>3
    <3> QED
      BY <3>1, PieceCut
  <2> QED
    BY <1>2, <1>4, <2>1 DEF CutPiece
<1>6. (pos + n) + Len(r) = pos + u
  BY <1>1, <1>3, <1>5
<1>7. PICK part, need, got : read = [part |-> part, need |-> need, got |-> got]
  BY <1>1 DEF Place
<1>8. PICK fed : fed = [part |-> part, need |-> need, got |-> got \o h]
  OBVIOUS
<1>9. Fed(read, n, under) = fed
  <2>1. Fed(read, n, under) = [read EXCEPT !.got = read.got \o SubSeq(under, 1, n)]
    BY DEF Fed
  <2>2. read.got \o SubSeq(under, 1, n) = got \o h
    BY <1>4, <1>7
  <2> QED
    BY <1>7, <1>8, <2>1, <2>2
<1>10. ASSUME NEW from \in Nat, Piece(bytes, from, got), pos = from + Len(got)
       PROVE  /\ Piece(bytes, from, got \o h) /\ Len(got \o h) = Len(got) + n
              /\ pos + n = from + Len(got \o h) /\ Len(got) \in Nat
  <2>1. Len(got) \in Nat
    BY <1>10, PieceLength
  <2>2. Piece(bytes, from, got \o h) /\ Len(got \o h) = Len(got) + n
    <3>1. Piece(bytes, from + Len(got), h)
      BY <1>5, <1>10
    <3>2. JoinedPiece(bytes, from, got, h, got \o h)
      BY <1>10, <3>1, PieceJoined
    <3> QED
      BY <1>5, <3>2 DEF JoinedPiece
  <2> QED
    BY <1>3, <1>10, <2>1, <2>2
<1>11. g \in 0..Len(sent) /\ start[g] \in Nat
  BY <1>1 DEF Place, Stream
<1>12. Place(sent, g, fed, bytes, start, pos + n)
  <2>1. CASE read = NotReading
    <3>1. need = 0 /\ got = << >>
      BY <1>7, <2>1 DEF NotReading
    <3>2. FALSE
      BY <1>3, <1>7, <3>1
    <3> QED
      BY <3>2
  <2>2. CASE /\ read.part = "header" /\ read.need = 4 /\ Len(read.got) <= 4
             /\ Piece(bytes, start[g], read.got)
             /\ pos = start[g] + Len(read.got)
    <3>1. /\ part = "header" /\ need = 4 /\ Piece(bytes, start[g], got)
          /\ pos = start[g] + Len(got)
      BY <1>7, <2>2
    <3>2. /\ Piece(bytes, start[g], got \o h) /\ Len(got \o h) = Len(got) + n
          /\ pos + n = start[g] + Len(got \o h) /\ Len(got) \in Nat
      BY <1>10, <1>11, <3>1
    <3>3. Len(got \o h) <= 4
      BY <1>3, <1>7, <3>1, <3>2
    <3> QED
      BY <1>8, <1>11, <3>1, <3>2, <3>3 DEF Place
  <2>3. CASE /\ read.part = "body" /\ g < Len(sent)
             /\ read.need = BodyLength(sent[g + 1]) /\ Len(read.got) <= read.need
             /\ Piece(bytes, start[g] + 4, read.got)
             /\ pos = (start[g] + 4) + Len(read.got)
    <3>1. /\ part = "body" /\ need = BodyLength(sent[g + 1]) /\ Piece(bytes, start[g] + 4, got)
          /\ pos = (start[g] + 4) + Len(got) /\ g < Len(sent)
      BY <1>7, <2>3
    <3>2. start[g] + 4 \in Nat
      BY <1>11
    <3>3. /\ Piece(bytes, start[g] + 4, got \o h) /\ Len(got \o h) = Len(got) + n
          /\ pos + n = (start[g] + 4) + Len(got \o h) /\ Len(got) \in Nat
      BY <1>10, <3>1, <3>2
    <3>4. need \in Nat
      <4>1. sent[g + 1] \in Messages
        BY <1>1, <1>11, <3>1 DEF Stream
      <4> QED
        BY <3>1, <4>1, FrameOf
    <3>5. Len(got \o h) <= need
      BY <1>3, <1>7, <3>1, <3>3, <3>4
    <3> QED
      BY <1>8, <1>11, <3>1, <3>3, <3>5 DEF Place
  <2> QED
    BY <1>1, <2>1, <2>2, <2>3 DEF Place
<1>13. Carried(sent, g, fed, r, bytes, start, pos + n, out)
  BY <1>1, <1>2, <1>3, <1>5, <1>6, <1>12 DEF Carried
<1> QED
  BY <1>2, <1>4, <1>6, <1>9, <1>13 DEF Whole

\* Bytes handed over follow those handed over before.
LEMMA CarriedHanded ==
  ASSUME NEW sent, NEW g, NEW read, NEW under, NEW bytes, NEW start, NEW pos, NEW out,
         Carried(sent, g, read, under, bytes, start, pos, out), Whole(pos, under, out),
         NEW s, Piece(bytes, out, s), out + Len(s) <= start[Len(sent)]
  PROVE  /\ Carried(sent, g, read, under \o s, bytes, start, pos, out + Len(s))
         /\ Whole(pos, under \o s, out + Len(s))
<1>1. /\ pos \in Nat /\ out \in Nat
      /\ Piece(bytes, pos, under) /\ pos + Len(under) = out
  BY DEF Carried, Whole
<1>2. PICK c : c = under \o s
  OBVIOUS
<1>3. Piece(bytes, pos + Len(under), s)
  BY <1>1
<1>4. JoinedPiece(bytes, pos, under, s, under \o s)
  BY <1>1, <1>3, PieceJoined
<1>5. Piece(bytes, pos, c) /\ Len(c) = Len(under) + Len(s)
  BY <1>2, <1>4 DEF JoinedPiece
<1>6. Len(under) \in Nat /\ Len(s) \in Nat
  BY <1>1, <1>3, PieceLength
<1>7. out + Len(s) \in Nat /\ pos + Len(c) = out + Len(s)
  BY <1>1, <1>5, <1>6
<1>8. pos + Len(c) <= out + Len(s)
  BY <1>7
<1>9. Carried(sent, g, read, c, bytes, start, pos, out + Len(s))
  BY <1>5, <1>7, <1>8 DEF Carried
<1> QED
  BY <1>2, <1>7, <1>9 DEF Whole

HasHeader(sent, g, read) ==
  g < Len(sent) /\ sent[g + 1] \in Messages /\ FrameLength(read.got) = BodyLength(sent[g + 1])

HasBody(sent, g, read) ==
  g < Len(sent) /\ sent[g + 1] \in Messages /\ read.got = Serialize(sent[g + 1])

\* A header that is read is that of the next message, and its body follows.
LEMMA HeaderDone ==
  ASSUME NEW sent, NEW g, NEW read, NEW under, NEW bytes, NEW start, NEW pos, NEW out,
         Carried(sent, g, read, under, bytes, start, pos, out),
         read.part = "header", Complete(read)
  PROVE  /\ HasHeader(sent, g, read)
         /\ Carried(sent, g, ReadingBody(FrameLength(read.got)), under, bytes, start, pos, out)
<1>1. /\ Stream(sent, bytes, start)
      /\ pos \in Nat /\ out \in Nat
      /\ Piece(bytes, pos, under)
      /\ pos + Len(under) <= out /\ out <= start[Len(sent)]
      /\ Place(sent, g, read, bytes, start, pos)
  BY DEF Carried
<1>2. /\ g \in 0..Len(sent)
      /\ Piece(bytes, start[g], read.got) /\ Len(read.got) = 4
      /\ pos = start[g] + Len(read.got)
  BY <1>1 DEF Place, NotReading, Complete
<1>3. PICK got : got = read.got
  OBVIOUS
<1>4. IsList(got, 4) /\ \A i \in 1..4 : bytes[start[g] + i] = got[i]
  <2>1. Piece(bytes, start[g], got) /\ Len(got) = 4
    BY <1>2, <1>3
  <2>2. PICK l : IsList(got, l) /\ \A i \in 1..l : bytes[start[g] + i] = got[i]
    BY <2>1 DEF Piece
  <2>3. l = 4
    BY <2>1, <2>2 DEF IsList
  <2> QED
    BY <2>2, <2>3
<1>5. start[g] \in Nat /\ g < Len(sent)
  <2>1. start[g] \in Nat /\ Len(sent) \in Nat
    BY <1>1, <1>2 DEF Stream
  <2>2. Len(under) \in Nat
    BY <1>1, PieceLength
  <2>3. g # Len(sent)
    BY <1>1, <1>2, <2>1, <2>2
  <2> QED
    BY <1>2, <2>1, <2>3
<1>6. PICK m \in Messages : m = sent[g + 1]
  BY <1>1, <1>2, <1>5 DEF Stream
<1>7. /\ BodyLength(m) \in 0..LongestBody /\ BodyLength(m) \in Nat
      /\ \A i \in 1..4 : Frame(m)[i] = Header(BodyLength(m))[i]
  BY FrameOf
<1>8. \A i \in 1..4 : bytes[start[g] + i] = Frame(m)[i]
  <2>1. \A k \in 1..Len(sent) : \A i \in 1..4 + BodyLength(sent[k]) :
          bytes[start[k - 1] + i] = Frame(sent[k])[i]
    BY <1>1 DEF Stream
  <2>2. g + 1 \in 1..Len(sent) /\ (g + 1) - 1 = g
    BY <1>2, <1>5
  <2>3. \A i \in 1..4 : i \in 1..4 + BodyLength(m)
    BY <1>7
  <2> QED
    BY <1>6, <2>1, <2>2, <2>3
<1>9. \A i \in 1..HeaderBytes : got[i] = Header(BodyLength(m))[i]
  BY <1>4, <1>7, <1>8 DEF HeaderBytes
<1>10. FrameLength(got) = BodyLength(m)
  BY <1>7, <1>9, LengthBack
<1>11. Place(sent, g, ReadingBody(BodyLength(m)), bytes, start, pos)
  <2>1. PICK r : r = [part |-> "body", need |-> BodyLength(m), got |-> << >>]
    OBVIOUS
  <2>2. r.part = "body" /\ r.need = BodyLength(m) /\ r.got = << >> /\ Len(r.got) = 0
    BY <2>1
  <2>3. r = [part |-> r.part, need |-> r.need, got |-> r.got]
    BY <2>1
  <2>4. Piece(bytes, start[g] + 4, r.got)
    <3>1. IsList(<< >>, 0) /\ \A i \in 1..0 : bytes[(start[g] + 4) + i] = << >>[i]
      BY DEF IsList
    <3> QED
      BY <2>2, <3>1 DEF Piece
  <2>5. pos = (start[g] + 4) + Len(r.got) /\ Len(r.got) <= r.need
    BY <1>2, <1>5, <1>7, <2>2
  <2>6. Place(sent, g, r, bytes, start, pos)
    BY <1>2, <1>5, <1>6, <2>2, <2>3, <2>4, <2>5 DEF Place
  <2> QED
    BY <2>1, <2>6 DEF ReadingBody
<1>12. Carried(sent, g, ReadingBody(BodyLength(m)), under, bytes, start, pos, out)
  BY <1>1, <1>11 DEF Carried
<1> QED
  BY <1>3, <1>5, <1>6, <1>10, <1>12 DEF HasHeader

\* A body that is read is the next message, and another header follows.
LEMMA BodyDone ==
  ASSUME NEW sent, NEW g, NEW read, NEW under, NEW bytes, NEW start, NEW pos, NEW out,
         Carried(sent, g, read, under, bytes, start, pos, out),
         read.part = "body", Complete(read)
  PROVE  /\ HasBody(sent, g, read)
         /\ Carried(sent, g + 1, ReadingHeader, under, bytes, start, pos, out)
<1>1. /\ Stream(sent, bytes, start)
      /\ pos \in Nat /\ out \in Nat
      /\ Place(sent, g, read, bytes, start, pos)
  BY DEF Carried
<1>2. /\ g \in 0..Len(sent) /\ g < Len(sent)
      /\ Piece(bytes, start[g] + 4, read.got) /\ Len(read.got) = BodyLength(sent[g + 1])
      /\ pos = (start[g] + 4) + Len(read.got)
  BY <1>1 DEF Place, NotReading, Complete
<1>3. start[g] \in Nat /\ Len(sent) \in Nat
  BY <1>1, <1>2 DEF Stream
<1>4. PICK m \in Messages : m = sent[g + 1]
  BY <1>1, <1>2, <1>3 DEF Stream
<1>5. PICK n \in Nat : n = BodyLength(m)
  BY FrameOf
<1>6. IsList(Serialize(m), n) /\ \A i \in 1..n : Frame(m)[4 + i] = Serialize(m)[i]
  BY <1>5, FrameOf
<1>7. PICK got : got = read.got
  OBVIOUS
<1>8. IsList(got, n) /\ \A i \in 1..n : bytes[(start[g] + 4) + i] = got[i]
  <2>1. Piece(bytes, start[g] + 4, got) /\ Len(got) = n
    BY <1>2, <1>4, <1>5, <1>7
  <2>2. /\ IsList(got, Len(got))
        /\ \A i \in 1..Len(got) : bytes[(start[g] + 4) + i] = got[i]
    BY <2>1, PieceLength
  <2> QED
    BY <2>1, <2>2
<1>9. /\ start[g + 1] = start[g] + (4 + n)
      /\ \A i \in 1..4 + n : bytes[start[g] + i] = Frame(m)[i]
  <2>1. /\ \A k \in 1..Len(sent) : start[k] = start[k - 1] + (4 + BodyLength(sent[k]))
        /\ \A k \in 1..Len(sent) : \A i \in 1..4 + BodyLength(sent[k]) :
             bytes[start[k - 1] + i] = Frame(sent[k])[i]
    BY <1>1 DEF Stream
  <2>2. g + 1 \in 1..Len(sent) /\ (g + 1) - 1 = g
    BY <1>2, <1>3
  <2> QED
    BY <1>4, <1>5, <2>1, <2>2
<1>10. \A i \in 1..n : got[i] = Serialize(m)[i]
  <2>1. \A i \in 1..n : 4 + i \in 1..4 + n /\ (start[g] + 4) + i = start[g] + (4 + i)
    BY <1>3
  <2> QED
    BY <1>6, <1>8, <1>9, <2>1
<1>11. got = Serialize(m)
  <2>1. PICK s : s = Serialize(m)
    OBVIOUS
  <2>2. s = [p \in 1..n |-> s[p]] /\ got = [p \in 1..n |-> got[p]] /\ \A p \in 1..n : got[p] = s[p]
    BY <1>6, <1>8, <1>10, <2>1 DEF IsList
  <2>3. got = s
    BY <2>2
  <2> QED
    BY <2>1, <2>3
<1>12. Place(sent, g + 1, ReadingHeader, bytes, start, pos)
  <2>1. PICK r : r = [part |-> "header", need |-> 4, got |-> << >>]
    OBVIOUS
  <2>2. r.part = "header" /\ r.need = 4 /\ r.got = << >> /\ Len(r.got) = 0
    BY <2>1
  <2>3. r = [part |-> r.part, need |-> r.need, got |-> r.got]
    BY <2>1
  <2>4. Piece(bytes, start[g + 1], r.got)
    <3>1. IsList(<< >>, 0) /\ \A i \in 1..0 : bytes[start[g + 1] + i] = << >>[i]
      BY DEF IsList
    <3> QED
      BY <2>2, <3>1 DEF Piece
  <2>5. pos = start[g + 1] + Len(r.got) /\ Len(r.got) <= 4
    <3>1. pos = (start[g] + 4) + n
      BY <1>2, <1>4, <1>5
    <3>2. PICK a \in Nat : a = start[g]
      BY <1>3
    <3>3. (a + 4) + n = a + (4 + n) /\ (a + (4 + n)) + 0 = a + (4 + n) /\ 0 <= 4
      OBVIOUS
    <3> QED
      BY <1>9, <2>2, <3>1, <3>2, <3>3
  <2>6. g + 1 \in 0..Len(sent)
    BY <1>2, <1>3
  <2>7. Place(sent, g + 1, r, bytes, start, pos)
    BY <2>2, <2>3, <2>4, <2>5, <2>6 DEF Place
  <2> QED
    BY <2>1, <2>7 DEF ReadingHeader, HeaderBytes
<1>13. Carried(sent, g + 1, ReadingHeader, under, bytes, start, pos, out)
  BY <1>12 DEF Carried
<1> QED
  BY <1>2, <1>4, <1>7, <1>11, <1>13 DEF HasBody

-----------------------------------------------------------------------------
(* The server's side, which hands over the frames of its queue one by one,  *)
(* and the client's, which hands over one frame at a time.                  *)

Frames == {Frame(m) : m \in Messages}

\* The queue holds what was sent after the first w messages, of whose first h
\* bytes are handed over.
Queued(sent, queue, h, start, out, w) ==
  /\ w \in Nat /\ h \in Nat /\ queue \in Seq(Frames)
  /\ w + Len(queue) = Len(sent)
  /\ \A j \in 1..Len(queue) : queue[j] = Frame(sent[w + j])
  /\ out = start[w] + h
  /\ queue = << >> => h = 0
  /\ queue # << >> => h <= Len(queue[1])

DownAt(sent, g, read, under, queue, h, off, shut, bytes, start, pos, out) ==
  /\ Carried(sent, g, read, under, bytes, start, pos, out)
  /\ ~off /\ ~shut => Whole(pos, under, out)
  /\ ~off => \E w : Queued(sent, queue, h, start, out, w)

DownSide(sent, g, read, under, queue, h, off, shut) ==
  \E bytes, start, pos, out : DownAt(sent, g, read, under, queue, h, off, shut,
                                     bytes, start, pos, out)

UpAt(sent, g, read, under, rest, off, shut, bytes, start, pos, out) ==
  /\ Carried(sent, g, read, under, bytes, start, pos, out)
  /\ ~off /\ ~shut => Whole(pos, under, out)
  /\ ~shut => Piece(bytes, out, rest) /\ out + Len(rest) = start[Len(sent)]

UpSide(sent, g, read, under, rest, off, shut) ==
  \E bytes, start, pos, out : UpAt(sent, g, read, under, rest, off, shut,
                                   bytes, start, pos, out)

\* The first bytes taken.
LEMMA SidesTake ==
  ASSUME NEW sent, NEW g, NEW read, NEW under, NEW n, Takes(read, n, under),
         NEW queue, NEW h, NEW rest, NEW off, NEW shut
  PROVE  /\ DownSide(sent, g, read, under, queue, h, off, shut)
              => DownSide(sent, g, Fed(read, n, under), Rest(n, under), queue, h, off, shut)
         /\ UpSide(sent, g, read, under, rest, off, shut)
              => UpSide(sent, g, Fed(read, n, under), Rest(n, under), rest, off, shut)
<1>1. ASSUME NEW bytes, NEW start, NEW pos, NEW out,
             DownAt(sent, g, read, under, queue, h, off, shut, bytes, start, pos, out)
      PROVE  DownAt(sent, g, Fed(read, n, under), Rest(n, under), queue, h, off, shut,
                    bytes, start, pos + n, out)
  <2>1. Carried(sent, g, read, under, bytes, start, pos, out)
    BY <1>1 DEF DownAt
  <2>2. Carried(sent, g, Fed(read, n, under), Rest(n, under), bytes, start, pos + n, out)
    BY <2>1, CarriedFeed
  <2>3. Whole(pos, under, out) => Whole(pos + n, Rest(n, under), out)
    BY <2>1, CarriedFeed
  <2> QED
    BY <1>1, <2>2, <2>3 DEF DownAt
<1>2. ASSUME NEW bytes, NEW start, NEW pos, NEW out,
             UpAt(sent, g, read, under, rest, off, shut, bytes, start, pos, out)
      PROVE  UpAt(sent, g, Fed(read, n, under), Rest(n, under), rest, off, shut,
                  bytes, start, pos + n, out)
  <2>1. Carried(sent, g, read, under, bytes, start, pos, out)
    BY <1>2 DEF UpAt
  <2>2. Carried(sent, g, Fed(read, n, under), Rest(n, under), bytes, start, pos + n, out)
    BY <2>1, CarriedFeed
  <2>3. Whole(pos, under, out) => Whole(pos + n, Rest(n, under), out)
    BY <2>1, CarriedFeed
  <2> QED
    BY <1>2, <2>2, <2>3 DEF UpAt
<1>3. DownSide(sent, g, read, under, queue, h, off, shut)
        => DownSide(sent, g, Fed(read, n, under), Rest(n, under), queue, h, off, shut)
  BY <1>1, Zenon DEF DownSide
<1>4. UpSide(sent, g, read, under, rest, off, shut)
        => UpSide(sent, g, Fed(read, n, under), Rest(n, under), rest, off, shut)
  BY <1>2, Zenon DEF UpSide
<1> QED
  BY <1>3, <1>4

\* A header complete.
LEMMA SidesHeader ==
  ASSUME NEW sent, NEW g, NEW read, NEW under, read.part = "header", Complete(read),
         NEW queue, NEW h, NEW rest, NEW off, NEW shut
  PROVE  /\ DownSide(sent, g, read, under, queue, h, off, shut)
              => DownSide(sent, g, ReadingBody(FrameLength(read.got)), under, queue, h, off, shut)
         /\ UpSide(sent, g, read, under, rest, off, shut)
              => UpSide(sent, g, ReadingBody(FrameLength(read.got)), under, rest, off, shut)
<1>1. ASSUME NEW bytes, NEW start, NEW pos, NEW out,
             Carried(sent, g, read, under, bytes, start, pos, out)
      PROVE  Carried(sent, g, ReadingBody(FrameLength(read.got)), under, bytes, start, pos, out)
  BY <1>1, HeaderDone
<1>2. DownSide(sent, g, read, under, queue, h, off, shut)
        => DownSide(sent, g, ReadingBody(FrameLength(read.got)), under, queue, h, off, shut)
  BY <1>1, Zenon DEF DownSide, DownAt
<1>3. UpSide(sent, g, read, under, rest, off, shut)
        => UpSide(sent, g, ReadingBody(FrameLength(read.got)), under, rest, off, shut)
  BY <1>1, Zenon DEF UpSide, UpAt
<1> QED
  BY <1>2, <1>3

\* A body complete: it is the next message.
LEMMA SidesBody ==
  ASSUME NEW sent, NEW g, NEW read, NEW under, read.part = "body", Complete(read),
         NEW queue, NEW h, NEW rest, NEW off, NEW shut
  PROVE  /\ DownSide(sent, g, read, under, queue, h, off, shut)
              => /\ HasBody(sent, g, read)
                 /\ DownSide(sent, g + 1, ReadingHeader, under, queue, h, off, shut)
         /\ UpSide(sent, g, read, under, rest, off, shut)
              => /\ HasBody(sent, g, read)
                 /\ UpSide(sent, g + 1, ReadingHeader, under, rest, off, shut)
<1>1. ASSUME NEW bytes, NEW start, NEW pos, NEW out,
             Carried(sent, g, read, under, bytes, start, pos, out)
      PROVE  /\ HasBody(sent, g, read)
             /\ Carried(sent, g + 1, ReadingHeader, under, bytes, start, pos, out)
  BY <1>1, BodyDone
<1>2. DownSide(sent, g, read, under, queue, h, off, shut)
        => /\ HasBody(sent, g, read)
           /\ DownSide(sent, g + 1, ReadingHeader, under, queue, h, off, shut)
  BY <1>1, Zenon DEF DownSide, DownAt
<1>3. UpSide(sent, g, read, under, rest, off, shut)
        => /\ HasBody(sent, g, read)
           /\ UpSide(sent, g + 1, ReadingHeader, under, rest, off, shut)
  BY <1>1, Zenon DEF UpSide, UpAt
<1> QED
  BY <1>2, <1>3

\* A reader that gives up.
LEMMA SidesGiveUp ==
  ASSUME NEW sent, NEW g, NEW read, NEW under,
         NEW queue, NEW h, NEW rest, NEW off, NEW shut
  PROVE  /\ DownSide(sent, g, read, under, queue, h, off, shut)
              => DownSide(sent, g, NotReading, under, queue, h, off, shut)
         /\ UpSide(sent, g, read, under, rest, off, shut)
              => UpSide(sent, g, NotReading, under, rest, off, shut)
<1>1. ASSUME NEW bytes, NEW start, NEW pos, NEW out,
             Carried(sent, g, read, under, bytes, start, pos, out)
      PROVE  Carried(sent, g, NotReading, under, bytes, start, pos, out)
  BY <1>1, CarriedEnds
<1>2. DownSide(sent, g, read, under, queue, h, off, shut)
        => DownSide(sent, g, NotReading, under, queue, h, off, shut)
  BY <1>1, Zenon DEF DownSide, DownAt
<1>3. UpSide(sent, g, read, under, rest, off, shut)
        => UpSide(sent, g, NotReading, under, rest, off, shut)
  BY <1>1, Zenon DEF UpSide, UpAt
<1> QED
  BY <1>2, <1>3

\* The server closes its end: its queue is gone, and what is under way to the
\* client is left or cut short.
LEMMA DownOff ==
  ASSUME NEW sent, NEW g, NEW read, NEW under, NEW queue, NEW h, NEW off, NEW shut,
         DownSide(sent, g, read, under, queue, h, off, shut),
         NEW unread, NEW left \in Left(under, unread)
  PROVE  DownSide(sent, g, read, left, << >>, 0, TRUE, shut)
<1>1. PICK bytes, start, pos, out :
        DownAt(sent, g, read, under, queue, h, off, shut, bytes, start, pos, out)
  BY DEF DownSide
<1>2. Carried(sent, g, read, under, bytes, start, pos, out)
  BY <1>1 DEF DownAt
<1>3. Carried(sent, g, read, left, bytes, start, pos, out)
  <2>1. left = under \/ \E n \in 0..Len(under) : left = SubSeq(under, 1, n)
    BY DEF Left
  <2>2. CASE left = under
    BY <1>2, <2>2
  <2>3. ASSUME NEW n \in 0..Len(under), left = SubSeq(under, 1, n)
        PROVE  Carried(sent, g, read, left, bytes, start, pos, out)
    <3>1. Carried(sent, g, read, SubSeq(under, 1, n), bytes, start, pos, out)
      BY <1>2, CarriedLost
    <3> QED
      BY <2>3, <3>1
  <2> QED
    BY <2>1, <2>2, <2>3
<1>4. DownAt(sent, g, read, left, << >>, 0, TRUE, shut, bytes, start, pos, out)
  BY <1>3 DEF DownAt
<1> QED
  BY <1>4 DEF DownSide

\* What the client has under way to it is lost.
LEMMA UpOff ==
  ASSUME NEW sent, NEW g, NEW read, NEW under, NEW rest, NEW off, NEW shut,
         UpSide(sent, g, read, under, rest, off, shut)
  PROVE  UpSide(sent, g, NotReading, << >>, rest, TRUE, shut)
<1>1. PICK bytes, start, pos, out :
        UpAt(sent, g, read, under, rest, off, shut, bytes, start, pos, out)
  BY DEF UpSide
<1>2. Carried(sent, g, read, under, bytes, start, pos, out)
  BY <1>1 DEF UpAt
<1>3. Carried(sent, g, NotReading, << >>, bytes, start, pos, out)
  BY <1>2, CarriedEnds
<1>4. UpAt(sent, g, NotReading, << >>, rest, TRUE, shut, bytes, start, pos, out)
  BY <1>1, <1>3 DEF UpAt
<1> QED
  BY <1>4 DEF UpSide

\* The client closes its end, or the link breaks.
LEMMA DownShut ==
  ASSUME NEW sent, NEW g, NEW read, NEW under, NEW queue, NEW h, NEW off, NEW shut,
         DownSide(sent, g, read, under, queue, h, off, shut)
  PROVE  DownSide(sent, g, NotReading, << >>, queue, h, off, TRUE)
<1>1. PICK bytes, start, pos, out :
        DownAt(sent, g, read, under, queue, h, off, shut, bytes, start, pos, out)
  BY DEF DownSide
<1>2. Carried(sent, g, read, under, bytes, start, pos, out)
  BY <1>1 DEF DownAt
<1>3. Carried(sent, g, NotReading, << >>, bytes, start, pos, out)
  BY <1>2, CarriedEnds
<1>4. DownAt(sent, g, NotReading, << >>, queue, h, off, TRUE, bytes, start, pos, out)
  BY <1>1, <1>3 DEF DownAt
<1> QED
  BY <1>4 DEF DownSide

\* What was under way to the server may still arrive, up to some byte.
LEMMA UpShut ==
  ASSUME NEW sent, NEW g, NEW read, NEW under, NEW rest, NEW off, NEW shut,
         UpSide(sent, g, read, under, rest, off, shut),
         NEW left, left = under \/ \E n \in 0..Len(under) : left = SubSeq(under, 1, n)
  PROVE  UpSide(sent, g, read, left, << >>, off, TRUE)
<1>1. PICK bytes, start, pos, out :
        UpAt(sent, g, read, under, rest, off, shut, bytes, start, pos, out)
  BY DEF UpSide
<1>2. Carried(sent, g, read, under, bytes, start, pos, out)
  BY <1>1 DEF UpAt
<1>3. Carried(sent, g, read, left, bytes, start, pos, out)
  <2>2. CASE left = under
    BY <1>2, <2>2
  <2>3. ASSUME NEW n \in 0..Len(under), left = SubSeq(under, 1, n)
        PROVE  Carried(sent, g, read, left, bytes, start, pos, out)
    <3>1. Carried(sent, g, read, SubSeq(under, 1, n), bytes, start, pos, out)
      BY <1>2, CarriedLost
    <3> QED
      BY <2>3, <3>1
  <2> QED
    BY <2>2, <2>3
<1>4. UpAt(sent, g, read, left, << >>, off, TRUE, bytes, start, pos, out)
  BY <1>3 DEF UpAt
<1> QED
  BY <1>4 DEF UpSide

\* The server sends: the frame goes behind those that wait.
LEMMA DownSends ==
  ASSUME NEW sent, NEW g, NEW read, NEW under, NEW queue, NEW h, NEW off, NEW shut,
         DownSide(sent, g, read, under, queue, h, off, shut), NEW m \in Messages
  PROVE  DownSide(Append(sent, m), g, read, under, Enqueue(queue, m), h, off, shut)
<1>1. PICK bytes, start, pos, out :
        DownAt(sent, g, read, under, queue, h, off, shut, bytes, start, pos, out)
  BY DEF DownSide
<1>2. Carried(sent, g, read, under, bytes, start, pos, out)
  BY <1>1 DEF DownAt
<1>3. PICK more, ends :
        /\ Carried(Append(sent, m), g, read, under, more, ends, pos, out)
        /\ \A k \in 0..Len(sent) : ends[k] = start[k]
  BY <1>2, CarriedGrows
<1>4. PICK longer, frames : longer = Append(sent, m) /\ frames = Append(queue, Frame(m))
  OBVIOUS
<1>5. sent \in Seq(Messages)
  BY <1>2 DEF Carried, Stream
<1>6. ASSUME ~off, NEW w, Queued(sent, queue, h, start, out, w)
      PROVE  Queued(longer, frames, h, ends, out, w)
  <2>1. /\ w \in Nat /\ h \in Nat /\ queue \in Seq(Frames)
        /\ w + Len(queue) = Len(sent)
        /\ \A j \in 1..Len(queue) : queue[j] = Frame(sent[w + j])
        /\ out = start[w] + h
        /\ queue = << >> => h = 0
        /\ queue # << >> => h <= Len(queue[1])
    BY <1>6 DEF Queued
  <2>2. PICK q \in Nat, l \in Nat : q = Len(queue) /\ l = Len(sent)
    BY <1>5, <2>1
  <2>3. Frame(m) \in Frames
    BY DEF Frames
  <2>4. /\ frames \in Seq(Frames) /\ Len(frames) = q + 1 /\ frames[q + 1] = Frame(m)
        /\ \A j \in 1..q : frames[j] = queue[j]
    BY <1>4, <2>1, <2>2, <2>3
  <2>5. /\ Len(longer) = l + 1 /\ longer[l + 1] = m
        /\ \A j \in 1..l : longer[j] = sent[j]
    BY <1>4, <1>5, <2>2
  <2>6. ASSUME NEW j \in 1..Len(frames) PROVE frames[j] = Frame(longer[w + j])
    <3>1. CASE j \in 1..q
      <4>1. w + j \in 1..l
        BY <2>1, <2>2, <3>1
      <4> QED
        BY <2>1, <2>2, <2>4, <2>5, <3>1, <4>1
    <3>2. CASE j = q + 1
      <4>1. w + j = l + 1
        BY <2>1, <2>2, <3>2
      <4> QED
        BY <2>4, <2>5, <3>2, <4>1
    <3> QED
      BY <2>4, <3>1, <3>2
  <2>7. out = ends[w] + h
    <3>1. w \in 0..Len(sent)
      BY <2>1, <2>2
    <3> QED
      BY <1>3, <2>1, <3>1
  <2>8. w + Len(frames) = Len(longer)
    <3>1. w + q = l /\ (w + q) + 1 = w + (q + 1)
      BY <2>1, <2>2
    <3>2. Len(frames) = q + 1 /\ Len(longer) = l + 1
      BY <2>4, <2>5
    <3> QED
      BY <3>1, <3>2
  <2>9. frames # << >> /\ h <= Len(frames[1])
    <3>1. frames # << >>
      BY <2>2, <2>4
    <3>2. CASE q = 0
      <4>1. queue = << >> /\ h = 0
        BY <2>1, <2>2, <3>2, EmptySeq
      <4>2. frames[1] = Frame(m)
        BY <2>4, <3>2
      <4>3. Len(Frame(m)) = 4 + BodyLength(m) /\ BodyLength(m) \in Nat
        BY FrameOf DEF IsList
      <4> QED
        BY <3>1, <4>1, <4>2, <4>3
    <3>3. CASE q # 0
      <4>1. queue # << >> /\ 1 \in 1..q
        BY <2>1, <2>2, <3>3
      <4> QED
        BY <2>1, <2>4, <3>1, <4>1
    <3> QED
      BY <3>2, <3>3
  <2> QED
    BY <2>1, <2>4, <2>6, <2>7, <2>8, <2>9 DEF Queued
<1>7. DownAt(longer, g, read, under, frames, h, off, shut, more, ends, pos, out)
  <2>1. Carried(longer, g, read, under, more, ends, pos, out)
    BY <1>3, <1>4
  <2>2. ~off => \E w : Queued(longer, frames, h, ends, out, w)
    BY <1>1, <1>6 DEF DownAt
  <2> QED
    BY <1>1, <2>1, <2>2 DEF DownAt
<1> QED
  BY <1>4, <1>7 DEF DownSide, Enqueue

\* The socket takes n bytes of the frame at the head of the queue.
LEMMA DownWrites ==
  ASSUME NEW sent, NEW g, NEW read, NEW under, NEW queue, NEW h, NEW off, NEW shut,
         DownSide(sent, g, read, under, queue, h, off, shut), ~off, ~shut,
         queue # << >>, NEW n \in Nat, h + n <= Len(queue[1])
  PROVE  DownSide(sent, g, read, under \o SubSeq(queue[1], h + 1, h + n), queue, h + n, off, shut)
<1>1. PICK bytes, start, pos, out :
        DownAt(sent, g, read, under, queue, h, off, shut, bytes, start, pos, out)
  BY DEF DownSide
<1>2. Carried(sent, g, read, under, bytes, start, pos, out) /\ Whole(pos, under, out)
  BY <1>1 DEF DownAt
<1>3. Stream(sent, bytes, start)
  BY <1>2 DEF Carried
<1>4. PICK w : Queued(sent, queue, h, start, out, w)
  BY <1>1 DEF DownAt
<1>5. /\ w \in Nat /\ h \in Nat /\ queue \in Seq(Frames)
      /\ w + Len(queue) = Len(sent)
      /\ \A j \in 1..Len(queue) : queue[j] = Frame(sent[w + j])
      /\ out = start[w] + h
  BY <1>4 DEF Queued
<1>6. PICK q \in Nat, l \in Nat : q = Len(queue) /\ l = Len(sent)
  BY <1>3, <1>5 DEF Stream
<1>7. q # 0 /\ 1 \in 1..q /\ w + 1 \in 1..l /\ (w + 1) - 1 = w /\ w \in 0..l /\ l \in 0..l
      /\ w + 1 \in 0..l /\ w + 1 <= l
  BY <1>5, <1>6, EmptySeq
<1>8. PICK m \in Messages : m = sent[w + 1]
  BY <1>3, <1>6, <1>7 DEF Stream
<1>9. queue[1] = Frame(m)
  BY <1>5, <1>6, <1>7, <1>8
<1>10. PICK b \in Nat : b = BodyLength(m) /\ IsList(Frame(m), 4 + b)
  BY FrameOf
<1>11. PICK f : f = Frame(m)
  OBVIOUS
<1>12. PICK k \in Nat : k = 4 + b /\ IsList(f, k) /\ h + n <= k
  <2>1. 4 + b \in Nat /\ Len(f) = 4 + b
    BY <1>10, <1>11 DEF IsList
  <2> QED
    BY <1>9, <1>10, <1>11, <2>1
<1>13. PICK s : s = SubSeq(f, h + 1, h + n)
  OBVIOUS
<1>14. IsList(s, n) /\ \A i \in 1..n : s[i] = f[h + i]
  <2>1. Len(f) = k /\ f = [p \in 1..k |-> f[p]]
    BY <1>12 DEF IsList
  <2>2. PICK S : S = {f[p] : p \in 1..k}
    OBVIOUS
  <2>3. f \in Seq(S)
    BY <2>1, <2>2, InSeq
  <2>4. /\ s \in Seq(S) /\ Len(s) = n /\ \A i \in 1..n : s[i] = f[h + i]
    <3>1. h \in Nat /\ n \in Nat /\ k \in Nat /\ h + n <= k
      BY <1>5, <1>12
    <3>2. /\ \A i \in h + 1..h + n : i \in 1..Len(f)
          /\ (h + n) - (h + 1) + 1 = n
          /\ \A i \in 1..n : (h + 1) + i - 1 = h + i
      BY <2>1, <3>1
    <3>3. s \in Seq(S) /\ Len(s) = n
      BY <1>13, <2>3, <3>1, <3>2
    <3>4. \A i \in 1..n : s[i] = f[h + i]
      BY <1>13, <2>3, <3>1, <3>2, <3>3
    <3> QED
      BY <3>3, <3>4
  <2> QED
    BY <2>4 DEF IsList
<1>15. \A i \in 1..k : bytes[start[w] + i] = f[i]
  <2>1. \A j \in 1..Len(sent) : \A i \in 1..4 + BodyLength(sent[j]) :
          bytes[start[j - 1] + i] = Frame(sent[j])[i]
    BY <1>3 DEF Stream
  <2> QED
    BY <1>6, <1>7, <1>8, <1>10, <1>11, <1>12, <2>1
<1>16. start[w] \in Nat /\ start[w] + k <= start[l] /\ start[l] \in Nat
  <2>1. /\ \A j \in 0..l : start[j] \in Nat
        /\ \A j \in 1..l : start[j] = start[j - 1] + (4 + BodyLength(sent[j]))
        /\ \A i, j \in 0..l : i <= j => start[i] <= start[j]
    BY <1>3, <1>6 DEF Stream
  <2>2. start[w + 1] = start[w] + k
    BY <1>7, <1>8, <1>10, <1>12, <2>1
  <2>3. start[w + 1] <= start[l]
    BY <1>7, <2>1
  <2> QED
    BY <1>7, <2>1, <2>2, <2>3
<1>17. Piece(bytes, out, s)
  <2>1. ASSUME NEW i \in 1..n PROVE bytes[out + i] = s[i]
    <3>1. PICK a \in Nat : a = start[w] /\ out = a + h
      BY <1>5, <1>16
    <3>2. h + i \in 1..k /\ (a + h) + i = a + (h + i)
      <4>1. h \in Nat /\ n \in Nat /\ k \in Nat /\ h + n <= k
        BY <1>5, <1>12
      <4> QED
        BY <4>1
    <3> QED
      BY <1>14, <1>15, <3>1, <3>2
  <2> QED
    BY <1>14, <2>1 DEF Piece
<1>18. Len(s) = n /\ out + n <= start[Len(sent)] /\ out + n = start[w] + (h + n)
  <2>1. Len(s) = n
    BY <1>14 DEF IsList
  <2>2. PICK a \in Nat, e \in Nat : a = start[w] /\ e = start[Len(sent)] /\ a + k <= e
    BY <1>6, <1>16
  <2>3. h \in Nat /\ n \in Nat /\ k \in Nat /\ h + n <= k /\ out = a + h
    BY <1>5, <1>12, <2>2
  <2>4. (a + h) + n = a + (h + n) /\ (a + h) + n <= e
    <3>1. /\ a \in Nat /\ e \in Nat /\ a + k <= e
          /\ h \in Nat /\ n \in Nat /\ k \in Nat /\ h + n <= k
      BY <2>2, <2>3
    <3> QED
      BY <3>1
  <2>5. out + n = (a + h) + n
    BY <2>3
  <2>6. out + n = a + (h + n) /\ out + n <= e
    BY <2>4, <2>5
  <2> QED
    BY <2>1, <2>2, <2>6
<1>19. out + Len(s) <= start[Len(sent)]
  BY <1>18
<1>20. /\ Carried(sent, g, read, under \o s, bytes, start, pos, out + Len(s))
       /\ Whole(pos, under \o s, out + Len(s))
  BY <1>2, <1>17, <1>19, CarriedHanded
<1>21. Queued(sent, queue, h + n, start, out + n, w)
  <2>1. h + n \in Nat /\ h + n <= Len(queue[1])
    BY <1>5
  <2> QED
    BY <1>5, <1>18, <2>1 DEF Queued
<1>22. PICK o : o = out + Len(s) /\ o = out + n
  BY <1>18
<1>23. DownAt(sent, g, read, under \o s, queue, h + n, off, shut, bytes, start, pos, o)
  BY <1>20, <1>21, <1>22 DEF DownAt
<1>24. DownSide(sent, g, read, under \o s, queue, h + n, off, shut)
  BY <1>23 DEF DownSide
<1> QED
  BY <1>9, <1>11, <1>13, <1>24

\* The frame at the head of the queue is handed over.
LEMMA DownWritten ==
  ASSUME NEW sent, NEW g, NEW read, NEW under, NEW queue, NEW h, NEW off, NEW shut,
         DownSide(sent, g, read, under, queue, h, off, shut),
         queue # << >>, h = Len(queue[1])
  PROVE  DownSide(sent, g, read, under, Tail(queue), 0, off, shut)
<1>1. PICK bytes, start, pos, out :
        DownAt(sent, g, read, under, queue, h, off, shut, bytes, start, pos, out)
  BY DEF DownSide
<1>2. Carried(sent, g, read, under, bytes, start, pos, out)
  BY <1>1 DEF DownAt
<1>3. Stream(sent, bytes, start)
  BY <1>2 DEF Carried
<1>4. PICK tail : tail = Tail(queue)
  OBVIOUS
<1>5. ASSUME NEW w, Queued(sent, queue, h, start, out, w)
      PROVE  Queued(sent, tail, 0, start, out, w + 1)
  <2>1. /\ w \in Nat /\ h \in Nat /\ queue \in Seq(Frames)
        /\ w + Len(queue) = Len(sent)
        /\ \A j \in 1..Len(queue) : queue[j] = Frame(sent[w + j])
        /\ out = start[w] + h
    BY <1>5 DEF Queued
  <2>2. PICK q \in Nat, l \in Nat : q = Len(queue) /\ l = Len(sent)
    BY <1>3, <2>1 DEF Stream
  <2>3. /\ q # 0 /\ 1 \in 1..q /\ w + 1 \in 1..l /\ (w + 1) - 1 = w
        /\ q - 1 \in Nat /\ (w + 1) + (q - 1) = l /\ w \in 0..l /\ w + 1 \in 0..l
    BY <2>1, <2>2, EmptySeq
  <2>4. PICK m \in Messages : m = sent[w + 1]
    BY <1>3, <2>2, <2>3 DEF Stream
  <2>5. h = 4 + BodyLength(m)
    <3>1. queue[1] = Frame(m)
      BY <2>1, <2>2, <2>3, <2>4
    <3> QED
      BY <3>1, FrameOf DEF IsList
  <2>6. start[w + 1] = start[w] + h /\ start[w] \in Nat /\ start[w + 1] \in Nat
    BY <1>3, <2>2, <2>3, <2>4, <2>5 DEF Stream
  <2>7. /\ tail \in Seq(Frames) /\ Len(tail) = q - 1
        /\ \A j \in 1..q - 1 : tail[j] = queue[j + 1]
    BY <1>4, <2>1, <2>2, <2>3
  <2>8. ASSUME NEW j \in 1..q - 1 PROVE tail[j] = Frame(sent[(w + 1) + j])
    <3>1. j + 1 \in 1..q /\ w + (j + 1) = (w + 1) + j
      BY <2>1, <2>2
    <3> QED
      BY <2>1, <2>2, <2>7, <3>1
  <2>9. w + 1 \in Nat /\ out = start[w + 1] + 0 /\ (w + 1) + Len(tail) = Len(sent)
    BY <2>1, <2>2, <2>3, <2>6, <2>7
  <2>10. tail # << >> => 0 <= Len(tail[1])
    <3> SUFFICES ASSUME tail # << >> PROVE 0 <= Len(tail[1])
      OBVIOUS
    <3>1. 1 \in 1..q - 1 /\ (w + 1) + 1 \in 1..l
      BY <2>2, <2>3, <2>7, EmptySeq
    <3>2. PICK k \in Messages : k = sent[(w + 1) + 1]
      BY <1>3, <2>2, <3>1 DEF Stream
    <3>3. tail[1] = Frame(k)
      BY <2>8, <3>1, <3>2
    <3>4. Len(Frame(k)) = 4 + BodyLength(k) /\ BodyLength(k) \in Nat
      BY FrameOf DEF IsList
    <3> QED
      BY <3>3, <3>4
  <2> QED
    BY <2>7, <2>8, <2>9, <2>10 DEF Queued
<1>6. DownAt(sent, g, read, under, tail, 0, off, shut, bytes, start, pos, out)
  <2>1. ~off => \E w : Queued(sent, tail, 0, start, out, w)
    BY <1>1, <1>5 DEF DownAt
  <2> QED
    BY <1>1, <2>1 DEF DownAt
<1> QED
  BY <1>4, <1>6 DEF DownSide

\* The client sends, which it does when nothing is left of the last frame.
LEMMA UpSends ==
  ASSUME NEW sent, NEW g, NEW read, NEW under, NEW off, NEW shut,
         UpSide(sent, g, read, under, << >>, off, shut), NEW m \in Messages
  PROVE  UpSide(Append(sent, m), g, read, under, Frame(m), off, shut)
<1>1. PICK bytes, start, pos, out :
        UpAt(sent, g, read, under, << >>, off, shut, bytes, start, pos, out)
  BY DEF UpSide
<1>2. Carried(sent, g, read, under, bytes, start, pos, out)
  BY <1>1 DEF UpAt
<1>3. PICK more, ends :
        /\ Carried(Append(sent, m), g, read, under, more, ends, pos, out)
        /\ \A k \in 0..Len(sent) : ends[k] = start[k]
  BY <1>2, CarriedGrows
<1>4. PICK longer : longer = Append(sent, m)
  OBVIOUS
<1>5. sent \in Seq(Messages) /\ Stream(longer, more, ends) /\ out \in Nat
  BY <1>2, <1>3, <1>4 DEF Carried, Stream
<1>6. PICK l \in Nat : l = Len(sent)
  BY <1>5
<1>7. Len(longer) = l + 1 /\ longer[l + 1] = m
  BY <1>4, <1>5, <1>6
<1>8. PICK f : f = Frame(m) /\ BodyLength(m) \in Nat /\ IsList(f, 4 + BodyLength(m))
  <2>1. BodyLength(m) \in Nat /\ IsList(Frame(m), 4 + BodyLength(m))
    BY FrameOf
  <2> QED
    BY <2>1
<1>9. ASSUME ~shut PROVE Piece(more, out, f) /\ out + Len(f) = ends[Len(longer)]
  <2>1. out = ends[l]
    <3>1. out + Len(<< >>) = start[l] /\ Len(<< >>) = 0
      BY <1>1, <1>6, <1>9 DEF UpAt
    <3>2. l \in 0..Len(sent)
      BY <1>6
    <3> QED
      BY <1>3, <1>5, <3>1, <3>2
  <2>2. /\ ends[l + 1] = ends[l] + (4 + BodyLength(m))
        /\ \A i \in 1..4 + BodyLength(m) : more[ends[l] + i] = f[i]
    <3>1. l + 1 \in 1..Len(longer) /\ (l + 1) - 1 = l
      BY <1>7
    <3>2. /\ \A k \in 1..Len(longer) : ends[k] = ends[k - 1] + (4 + BodyLength(longer[k]))
          /\ \A k \in 1..Len(longer) : \A i \in 1..4 + BodyLength(longer[k]) :
               more[ends[k - 1] + i] = Frame(longer[k])[i]
      BY <1>5 DEF Stream
    <3> QED
      BY <1>7, <1>8, <3>1, <3>2
  <2>3. Len(f) = 4 + BodyLength(m)
    BY <1>8 DEF IsList
  <2>4. Piece(more, out, f)
    BY <1>8, <2>1, <2>2 DEF Piece
  <2> QED
    BY <1>7, <2>1, <2>2, <2>3, <2>4
<1>10. UpAt(longer, g, read, under, f, off, shut, more, ends, pos, out)
  <2>1. Carried(longer, g, read, under, more, ends, pos, out)
    BY <1>3, <1>4
  <2> QED
    BY <1>1, <1>9, <2>1 DEF UpAt
<1> QED
  BY <1>4, <1>8, <1>10 DEF UpSide

\* The socket takes n bytes from the client.
LEMMA UpWrites ==
  ASSUME NEW sent, NEW g, NEW read, NEW under, NEW rest, NEW off, NEW shut,
         UpSide(sent, g, read, under, rest, off, shut), ~off, ~shut,
         NEW n \in Nat, n <= Len(rest)
  PROVE  UpSide(sent, g, read, under \o SubSeq(rest, 1, n), Rest(n, rest), off, shut)
<1>1. PICK bytes, start, pos, out :
        UpAt(sent, g, read, under, rest, off, shut, bytes, start, pos, out)
  BY DEF UpSide
<1>2. /\ Carried(sent, g, read, under, bytes, start, pos, out) /\ Whole(pos, under, out)
      /\ Piece(bytes, out, rest) /\ out + Len(rest) = start[Len(sent)]
  BY <1>1 DEF UpAt
<1>3. out \in Nat
  BY <1>2 DEF Carried
<1>4. Len(rest) \in Nat
  BY <1>2, PieceLength
<1>5. n \in 0..Len(rest)
  BY <1>4
<1>6. CutPiece(bytes, out, rest, n, SubSeq(rest, 1, n), Rest(n, rest))
  BY <1>2, <1>3, <1>5, PieceCut
<1>7. PICK s, r : s = SubSeq(rest, 1, n) /\ r = Rest(n, rest)
  OBVIOUS
<1>8. /\ Piece(bytes, out, s) /\ Len(s) = n
      /\ Piece(bytes, out + n, r) /\ Len(r) = Len(rest) - n
  BY <1>6, <1>7 DEF CutPiece
<1>9. /\ out + Len(s) <= start[Len(sent)] /\ (out + Len(s)) + Len(r) = start[Len(sent)]
      /\ Piece(bytes, out + Len(s), r)
  BY <1>2, <1>3, <1>4, <1>5, <1>8
<1>10. /\ Carried(sent, g, read, under \o s, bytes, start, pos, out + Len(s))
       /\ Whole(pos, under \o s, out + Len(s))
  BY <1>2, <1>8, <1>9, CarriedHanded
<1>11. UpAt(sent, g, read, under \o s, r, off, shut, bytes, start, pos, out + Len(s))
  BY <1>9, <1>10 DEF UpAt
<1>12. UpSide(sent, g, read, under \o s, r, off, shut)
  BY <1>11 DEF UpSide
<1> QED
  BY <1>7, <1>12

\* Before anything is sent a reader may start.
LEMMA UpStarts ==
  ASSUME NEW read, NEW under, NEW rest, NEW off, NEW shut, NEW g,
         UpSide(<< >>, g, read, under, rest, off, shut)
  PROVE  UpSide(<< >>, g, ReadingHeader, under, rest, off, shut)
<1>1. PICK bytes, start, pos, out :
        UpAt(<< >>, g, read, under, rest, off, shut, bytes, start, pos, out)
  BY DEF UpSide
<1>2. /\ Carried(<< >>, g, read, under, bytes, start, pos, out)
      /\ Stream(<< >>, bytes, start)
      /\ pos \in Nat /\ out \in Nat
      /\ Piece(bytes, pos, under)
      /\ pos + Len(under) <= out /\ out <= start[Len(<< >>)]
      /\ Place(<< >>, g, read, bytes, start, pos)
  BY <1>1 DEF UpAt, Carried
<1>3. Len(<< >>) = 0 /\ start[0] = 0 /\ Len(under) \in Nat
  BY <1>2, PieceLength DEF Stream
<1>4. g = 0 /\ pos = 0
  <2>1. g \in 0..0
    BY <1>2, <1>3 DEF Place
  <2>2. out <= 0
    BY <1>2, <1>3
  <2> QED
    BY <1>2, <1>3, <2>1, <2>2
<1>5. Place(<< >>, g, ReadingHeader, bytes, start, pos)
  <2>1. PICK r : r = [part |-> "header", need |-> 4, got |-> << >>]
    OBVIOUS
  <2>2. r.part = "header" /\ r.need = 4 /\ r.got = << >> /\ Len(r.got) = 0
    BY <2>1
  <2>3. r = [part |-> r.part, need |-> r.need, got |-> r.got]
    BY <2>1
  <2>4. Piece(bytes, start[g], r.got)
    <3>1. IsList(<< >>, 0) /\ \A i \in 1..0 : bytes[start[g] + i] = << >>[i]
      BY DEF IsList
    <3> QED
      BY <2>2, <3>1 DEF Piece
  <2>5. pos = start[g] + Len(r.got) /\ Len(r.got) <= 4 /\ g \in 0..Len(<< >>)
    BY <1>3, <1>4, <2>2
  <2>6. Place(<< >>, g, r, bytes, start, pos)
    BY <2>2, <2>3, <2>4, <2>5 DEF Place
  <2> QED
    BY <2>1, <2>6 DEF ReadingHeader, HeaderBytes
<1>6. UpAt(<< >>, g, ReadingHeader, under, rest, off, shut, bytes, start, pos, out)
  <2>1. Carried(<< >>, g, ReadingHeader, under, bytes, start, pos, out)
    BY <1>2, <1>5 DEF Carried
  <2> QED
    BY <1>1, <2>1 DEF UpAt
<1> QED
  BY <1>6 DEF UpSide

\* Nothing is sent, and nothing under way.
LEMMA SidesStart ==
  /\ DownSide(<< >>, 0, ReadingHeader, << >>, << >>, 0, FALSE, FALSE)
  /\ UpSide(<< >>, 0, NotReading, << >>, << >>, FALSE, FALSE)
<1>1. PICK bytes, start : bytes = << >> /\ start = [k \in {0} |-> 0]
  OBVIOUS
<1>2. Stream(<< >>, bytes, start)
  <2>1. Len(<< >>) = 0 /\ << >> \in Seq(Messages) /\ \A k \in 0..0 : k = 0 /\ k \in {0}
    OBVIOUS
  <2>2. start[0] = 0 /\ \A k \in 1..0 : FALSE
    BY <1>1
  <2>3. \A k \in 0..0 : start[k] = 0
    BY <2>1, <2>2
  <2> QED
    BY <2>1, <2>2, <2>3 DEF Stream
<1>3. \A from : Piece(bytes, from, << >>)
  <2>1. IsList(<< >>, 0) /\ \A from : \A i \in 1..0 : bytes[from + i] = << >>[i]
    BY DEF IsList
  <2> QED
    BY <2>1 DEF Piece
<1>4. Len(<< >>) = 0 /\ 0 + 0 = 0 /\ start[0] = 0
  BY <1>1
<1>5. Place(<< >>, 0, NotReading, bytes, start, 0)
  BY <1>4 DEF Place, NotReading
<1>6. Carried(<< >>, 0, NotReading, << >>, bytes, start, 0, 0)
  <2>1. 0 + Len(<< >>) <= 0 /\ 0 <= start[Len(<< >>)] /\ 0 \in Nat
    BY <1>4
  <2> QED
    BY <1>2, <1>3, <1>5, <2>1 DEF Carried
<1>7. Whole(0, << >>, 0)
  BY <1>4 DEF Whole
<1>8. UpAt(<< >>, 0, NotReading, << >>, << >>, FALSE, FALSE, bytes, start, 0, 0)
  <2>1. Piece(bytes, 0, << >>) /\ 0 + Len(<< >>) = start[Len(<< >>)]
    BY <1>3, <1>4
  <2> QED
    BY <1>6, <1>7, <2>1 DEF UpAt
<1>9. UpSide(<< >>, 0, NotReading, << >>, << >>, FALSE, FALSE)
  BY <1>8 DEF UpSide
<1>10. Place(<< >>, 0, ReadingHeader, bytes, start, 0)
  <2>1. PICK r : r = [part |-> "header", need |-> 4, got |-> << >>]
    OBVIOUS
  <2>2. r.part = "header" /\ r.need = 4 /\ r.got = << >> /\ Len(r.got) = 0
    BY <2>1
  <2>3. r = [part |-> r.part, need |-> r.need, got |-> r.got]
    BY <2>1
  <2>4. Piece(bytes, start[0], r.got)
    BY <1>3, <2>2
  <2>5. 0 = start[0] + Len(r.got) /\ Len(r.got) <= 4 /\ 0 \in 0..Len(<< >>)
    BY <1>4, <2>2
  <2>6. Place(<< >>, 0, r, bytes, start, 0)
    BY <2>2, <2>3, <2>4, <2>5 DEF Place
  <2> QED
    BY <2>1, <2>6 DEF ReadingHeader, HeaderBytes
<1>11. Carried(<< >>, 0, ReadingHeader, << >>, bytes, start, 0, 0)
  <2>1. 0 + Len(<< >>) <= 0 /\ 0 <= start[Len(<< >>)] /\ 0 \in Nat
    BY <1>4
  <2> QED
    BY <1>2, <1>3, <1>10, <2>1 DEF Carried
<1>12. Queued(<< >>, << >>, 0, start, 0, 0)
  <2>1. /\ 0 \in Nat /\ << >> \in Seq(Frames) /\ Len(<< >>) = 0 /\ 0 + 0 = 0 /\ start[0] = 0
        /\ 0 = start[0] + 0 /\ \A j \in 1..0 : FALSE
    BY <1>4
  <2> QED
    BY <2>1 DEF Queued
<1>13. DownAt(<< >>, 0, ReadingHeader, << >>, << >>, 0, FALSE, FALSE, bytes, start, 0, 0)
  BY <1>7, <1>11, <1>12 DEF DownAt
<1>14. DownSide(<< >>, 0, ReadingHeader, << >>, << >>, 0, FALSE, FALSE)
  BY <1>13 DEF DownSide
<1> QED
  BY <1>9, <1>14

-----------------------------------------------------------------------------
(* The connection.                                                         *)

Told == Announcements \cup {LengthError}

\* A server that has closed reads and writes nothing more, and a client asks for
\* nothing before it has been told something.
Conduct ==
  /\ sentDown \in Seq(Told) /\ gotDown \in Seq(Told)
  /\ sentUp \in Seq(Requests) /\ gotUp \in Seq(Requests)
  /\ disconnected => serverRead = NotReading /\ writeQueue = << >>
  /\ sentUp # << >> => gotDown # << >>

DownInv == DownSide(sentDown, Len(gotDown), clientRead, toClient, writeQueue, handed,
                    disconnected, closed)

UpInv == UpSide(sentUp, Len(gotUp), serverRead, toServer, writing, disconnected, closed)

\* The inductive invariant.
WireInv == Conduct /\ DownInv /\ UpInv

\* What a step is to the two streams.
StreamsStep == /\ [Down!StreamNext]_<<sentDown, gotDown>>
               /\ [Up!StreamNext]_<<sentUp, gotUp>>

\* The invariant at the start,
LEMMA WireStarts == Init => WireInv
<1> SUFFICES ASSUME Init PROVE WireInv
  OBVIOUS
<1>1. Conduct
  BY DEF Init, Conduct
<1>2. Len(<< >>) = 0
  OBVIOUS
<1>3. DownSide(<< >>, Len(<< >>), ReadingHeader, << >>, << >>, 0, FALSE, FALSE)
  BY <1>2, SidesStart
<1>4. UpSide(<< >>, Len(<< >>), NotReading, << >>, << >>, FALSE, FALSE)
  BY <1>2, SidesStart
<1> QED
  BY <1>1, <1>3, <1>4 DEF Init, WireInv, DownInv, UpInv

\* What is sent goes behind what was sent before.
LEMMA Sent ==
  ASSUME NEW S, NEW s \in Seq(S), NEW m \in S
  PROVE  /\ Append(s, m) \in Seq(S) /\ Len(Append(s, m)) = Len(s) + 1
         /\ SubSeq(Append(s, m), 1, Len(s)) = s /\ Append(s, m) # << >>
<1>1. PICK l \in Nat : l = Len(s)
  OBVIOUS
<1>2. PICK c : c = Append(s, m)
  OBVIOUS
<1>3. c \in Seq(S) /\ Len(c) = l + 1 /\ \A i \in 1..l : c[i] = s[i]
  BY <1>1, <1>2
<1>4. PICK r : r = SubSeq(c, 1, l)
  OBVIOUS
<1>5. r \in Seq(S) /\ Len(r) = l /\ \A i \in 1..l : r[i] = c[i]
  BY <1>1, <1>3, <1>4
<1>6. r = s
  BY <1>1, <1>3, <1>5
<1>7. c # << >>
  BY <1>3, EmptySeq
<1> QED
  BY <1>1, <1>2, <1>3, <1>4, <1>6, <1>7

\* and each step of the two ends and of the link.
LEMMA ServerStartStep ==
  ASSUME WireInv, ServerStart
  PROVE  WireInv' /\ StreamsStep
<1>1. /\ serverRead' = ReadingHeader /\ sentDown = << >> /\ ~disconnected
      /\ UNCHANGED <<writeQueue, handed, closeAfterWrite, disconnected, clientVars, toClient,
                     toServer, history>>
  BY DEF ServerStart, New
<1>2. Conduct /\ DownInv /\ UpInv
  BY DEF WireInv
<1>3. Conduct'
  BY <1>1, <1>2 DEF Conduct, history
<1>4. DownInv'
  BY <1>1, <1>2 DEF DownInv, clientVars, history
<1>5. sentUp = << >>
  <2>1. PICK bytes, start, pos, out :
          Carried(sentDown, Len(gotDown), clientRead, toClient, bytes, start, pos, out)
    BY <1>2 DEF DownInv, DownSide, DownAt
  <2>2. Len(gotDown) \in 0..Len(sentDown)
    BY <2>1 DEF Carried, Place
  <2>3. Len(sentDown) = 0 /\ gotDown \in Seq(Told)
    BY <1>1, <1>2 DEF Conduct
  <2>4. Len(gotDown) = 0
    BY <2>2, <2>3
  <2>5. gotDown = << >>
    BY <2>3, <2>4, EmptySeq
  <2> QED
    BY <1>2, <2>5 DEF Conduct
<1>6. UpInv'
  <2>1. UpSide(<< >>, Len(gotUp), serverRead, toServer, writing, disconnected, closed)
    BY <1>2, <1>5 DEF UpInv
  <2>2. UpSide(<< >>, Len(gotUp), ReadingHeader, toServer, writing, disconnected, closed)
    BY <2>1, UpStarts
  <2> QED
    BY <1>1, <1>5, <2>2 DEF UpInv, clientVars, history
<1>7. StreamsStep
  BY <1>1 DEF StreamsStep, history
<1> QED
  BY <1>3, <1>4, <1>6, <1>7 DEF WireInv

\* Whatever the server sends: the frame goes into the queue.
LEMMA DownSent ==
  ASSUME WireInv, NEW m \in Told, ~disconnected,
         writeQueue' = Enqueue(writeQueue, m), sentDown' = Append(sentDown, m),
         UNCHANGED <<handed, disconnected, clientVars, toClient, toServer,
                     sentUp, gotDown, gotUp>>,
         UpInv'
  PROVE  WireInv' /\ StreamsStep
<1>1. Conduct /\ DownInv /\ UpInv
  BY DEF WireInv
<1>2. m \in Messages
  BY DEF Told, Messages
<1>3. sentDown \in Seq(Told)
  BY <1>1 DEF Conduct
<1>4. /\ sentDown' \in Seq(Told) /\ Len(sentDown') = Len(sentDown) + 1
      /\ SubSeq(sentDown', 1, Len(sentDown)) = sentDown
  BY <1>3, Sent
<1>5. Conduct'
  BY <1>1, <1>4 DEF Conduct
<1>6. DownInv'
  <2>1. DownSide(sentDown, Len(gotDown), clientRead, toClient, writeQueue, handed,
                 disconnected, closed)
    BY <1>1 DEF DownInv
  <2>2. DownSide(Append(sentDown, m), Len(gotDown), clientRead, toClient,
                 Enqueue(writeQueue, m), handed, disconnected, closed)
    BY <1>2, <2>1, DownSends
  <2> QED
    BY <2>2 DEF DownInv, clientVars
<1>7. StreamsStep
  <2>1. Down!Send
    BY <1>4 DEF Down!Send
  <2> QED
    BY <2>1 DEF StreamsStep, Down!StreamNext
<1> QED
  BY <1>5, <1>6, <1>7 DEF WireInv

\* sendAndClose is a message sent,
LEMMA ServerTurnsAwayStep ==
  ASSUME WireInv, NEW m \in Announcements, ServerTurnsAway(m)
  PROVE  WireInv' /\ StreamsStep
<1>1. /\ ~disconnected /\ writeQueue' = Enqueue(writeQueue, m)
      /\ sentDown' = Append(sentDown, m)
      /\ UNCHANGED <<handed, disconnected, serverRead, clientVars, toClient, toServer,
                     sentUp, gotDown, gotUp>>
  BY DEF ServerTurnsAway, New
<1>2. UpInv'
  BY <1>1 DEF WireInv, UpInv, clientVars
<1>3. m \in Told
  BY DEF Told
<1> QED
  BY <1>1, <1>2, <1>3, DownSent

\* as send is,
LEMMA ServerSendStep ==
  ASSUME WireInv, NEW m \in Announcements, ServerSend(m)
  PROVE  WireInv' /\ StreamsStep
<1>1. /\ ~disconnected /\ writeQueue' = Enqueue(writeQueue, m)
      /\ sentDown' = Append(sentDown, m)
      /\ UNCHANGED <<handed, disconnected, serverRead, clientVars, toClient, toServer,
                     sentUp, gotDown, gotUp>>
  BY DEF ServerSend
<1>2. UpInv'
  BY <1>1 DEF WireInv, UpInv, clientVars
<1>3. m \in Told
  BY DEF Told
<1> QED
  BY <1>1, <1>2, <1>3, DownSent

\* and as the answer to a header that is too long; any other tells the body's length.
LEMMA ServerHasHeaderStep ==
  ASSUME WireInv, ServerHasHeader
  PROVE  WireInv' /\ StreamsStep
<1>1. /\ serverRead.part = "header" /\ Complete(serverRead)
      /\ UNCHANGED <<handed, disconnected, clientVars, toClient, toServer,
                     sentUp, gotDown, gotUp>>
  BY DEF ServerHasHeader
<1>2. Conduct /\ DownInv /\ UpInv
  BY DEF WireInv
<1>3. ~disconnected
  BY <1>1, <1>2 DEF Conduct, NotReading
<1>4. UpSide(sentUp, Len(gotUp), serverRead, toServer, writing, disconnected, closed)
  BY <1>2 DEF UpInv
<1>5. CASE /\ serverRead' = NotReading /\ writeQueue' = Enqueue(writeQueue, LengthError)
           /\ sentDown' = Append(sentDown, LengthError)
  <2>1. UpSide(sentUp, Len(gotUp), NotReading, toServer, writing, disconnected, closed)
    BY <1>4, SidesGiveUp
  <2>2. UpInv'
    BY <1>1, <1>5, <2>1 DEF UpInv, clientVars
  <2>3. LengthError \in Told
    BY DEF Told
  <2> QED
    BY <1>1, <1>3, <1>5, <2>2, <2>3, DownSent
<1>6. CASE /\ serverRead' = ReadingBody(FrameLength(serverRead.got))
           /\ UNCHANGED <<closeAfterWrite, writeQueue, sentDown>>
  <2>1. UpSide(sentUp, Len(gotUp), ReadingBody(FrameLength(serverRead.got)), toServer, writing,
               disconnected, closed)
    BY <1>1, <1>4, SidesHeader
  <2>2. UpInv'
    BY <1>1, <1>6, <2>1 DEF UpInv, clientVars
  <2>3. DownInv'
    BY <1>1, <1>2, <1>6 DEF DownInv, clientVars
  <2>4. Conduct'
    BY <1>1, <1>2, <1>3, <1>6 DEF Conduct
  <2>5. StreamsStep
    BY <1>1, <1>6 DEF StreamsStep
  <2> QED
    BY <2>2, <2>3, <2>4, <2>5 DEF WireInv
<1> QED
  BY <1>5, <1>6 DEF ServerHasHeader

\* The bytes the server's socket takes follow those it took before.
LEMMA ServerWriteStep ==
  ASSUME WireInv, NEW n \in 1..SocketBuffer, ServerWrite(n)
  PROVE  WireInv' /\ StreamsStep
<1>1. /\ writeQueue # << >> /\ ~closed /\ handed + n <= Len(writeQueue[1])
      /\ handed' = handed + n
      /\ toClient' = toClient \o SubSeq(writeQueue[1], handed + 1, handed + n)
      /\ UNCHANGED <<writeQueue, closeAfterWrite, disconnected, serverRead, clientVars, toServer,
                     history>>
  BY DEF ServerWrite
<1>2. Conduct /\ DownInv /\ UpInv
  BY DEF WireInv
<1>3. ~disconnected /\ n \in Nat
  BY <1>1, <1>2, LimitsAssumption DEF Conduct
<1>4. DownInv'
  <2>1. DownSide(sentDown, Len(gotDown), clientRead, toClient, writeQueue, handed,
                 disconnected, closed)
    BY <1>2 DEF DownInv
  <2>2. DownSide(sentDown, Len(gotDown), clientRead,
                 toClient \o SubSeq(writeQueue[1], handed + 1, handed + n), writeQueue, handed + n,
                 disconnected, closed)
    BY <1>1, <1>3, <2>1, DownWrites
  <2> QED
    BY <1>1, <2>2 DEF DownInv, clientVars, history
<1>5. UpInv' /\ Conduct'
  BY <1>1, <1>2 DEF UpInv, Conduct, clientVars, history
<1>6. StreamsStep
  BY <1>1 DEF StreamsStep, history
<1> QED
  BY <1>4, <1>5, <1>6 DEF WireInv

\* disconnectOnce, whatever made the server call it.
LEMMA Disconnects ==
  ASSUME WireInv, DisconnectOnce, UNCHANGED <<clientVars, history>>
  PROVE  WireInv' /\ StreamsStep
<1>1. /\ disconnected' = TRUE /\ serverRead' = NotReading
      /\ writeQueue' = << >> /\ handed' = 0
      /\ toClient' \in Left(toClient, toServer) /\ toServer' = << >>
      /\ UNCHANGED <<clientVars, history>>
  BY DEF DisconnectOnce
<1>2. Conduct /\ DownInv /\ UpInv
  BY DEF WireInv
<1>3. DownInv'
  <2>1. DownSide(sentDown, Len(gotDown), clientRead, toClient, writeQueue, handed,
                 disconnected, closed)
    BY <1>2 DEF DownInv
  <2>2. PICK left \in Left(toClient, toServer) : toClient' = left
    BY <1>1
  <2>3. DownSide(sentDown, Len(gotDown), clientRead, left, << >>, 0, TRUE, closed)
    BY <2>1, DownOff
  <2> QED
    BY <1>1, <2>2, <2>3 DEF DownInv, clientVars, history
<1>4. UpInv'
  <2>1. UpSide(sentUp, Len(gotUp), serverRead, toServer, writing, disconnected, closed)
    BY <1>2 DEF UpInv
  <2>2. UpSide(sentUp, Len(gotUp), NotReading, << >>, writing, TRUE, closed)
    BY <2>1, UpOff
  <2> QED
    BY <1>1, <2>2 DEF UpInv, clientVars, history
<1>5. Conduct'
  BY <1>1, <1>2 DEF Conduct, history
<1>6. StreamsStep
  BY <1>1 DEF StreamsStep, history
<1> QED
  BY <1>3, <1>4, <1>5, <1>6 DEF WireInv

\* A read or a write that fails disconnects,
LEMMA ServerFailsStep ==
  ASSUME WireInv, ServerFails
  PROVE  WireInv' /\ StreamsStep
<1>1. DisconnectOnce /\ UNCHANGED <<clientVars, history>>
  BY DEF ServerFails
<1> QED
  BY <1>1, Disconnects

\* and so does the last write; any other leaves the next frame to be written.
LEMMA ServerWrittenStep ==
  ASSUME WireInv, ServerWritten
  PROVE  WireInv' /\ StreamsStep
<1>1. /\ writeQueue # << >> /\ handed = Len(writeQueue[1])
      /\ UNCHANGED <<closeAfterWrite, clientVars, history>>
  BY DEF ServerWritten
<1>2. Conduct /\ DownInv /\ UpInv
  BY DEF WireInv
<1>3. CASE DisconnectOnce
  BY <1>1, <1>3, Disconnects
<1>4. CASE /\ writeQueue' = Tail(writeQueue) /\ handed' = 0
           /\ UNCHANGED <<disconnected, serverRead, toClient, toServer>>
  <2>1. DownSide(sentDown, Len(gotDown), clientRead, toClient, writeQueue, handed,
                 disconnected, closed)
    BY <1>2 DEF DownInv
  <2>2. DownSide(sentDown, Len(gotDown), clientRead, toClient, Tail(writeQueue), 0,
                 disconnected, closed)
    BY <1>1, <2>1, DownWritten
  <2>3. DownInv'
    BY <1>1, <1>4, <2>2 DEF DownInv, clientVars, history
  <2>4. UpInv' /\ Conduct'
    BY <1>1, <1>2, <1>4 DEF UpInv, Conduct, clientVars, history
  <2>5. StreamsStep
    BY <1>1 DEF StreamsStep, history
  <2> QED
    BY <2>3, <2>4, <2>5 DEF WireInv
<1> QED
  BY <1>3, <1>4 DEF ServerWritten

\* The server reads the bytes that follow those it has read.
LEMMA ServerReadsStep ==
  ASSUME WireInv, NEW n \in 1..SocketBuffer, ServerReads(n)
  PROVE  WireInv' /\ StreamsStep
<1>1. /\ serverRead.part # "none" /\ Takes(serverRead, n, toServer)
      /\ serverRead' = Fed(serverRead, n, toServer) /\ toServer' = Rest(n, toServer)
      /\ UNCHANGED <<writeQueue, handed, closeAfterWrite, disconnected, clientVars, toClient,
                     history>>
  BY DEF ServerReads
<1>2. Conduct /\ DownInv /\ UpInv
  BY DEF WireInv
<1>3. ~disconnected
  BY <1>1, <1>2 DEF Conduct, NotReading
<1>4. UpInv'
  <2>1. UpSide(sentUp, Len(gotUp), serverRead, toServer, writing, disconnected, closed)
    BY <1>2 DEF UpInv
  <2>2. UpSide(sentUp, Len(gotUp), Fed(serverRead, n, toServer), Rest(n, toServer), writing,
               disconnected, closed)
    BY <1>1, <2>1, SidesTake
  <2> QED
    BY <1>1, <2>2 DEF UpInv, clientVars, history
<1>5. DownInv' /\ Conduct'
  BY <1>1, <1>2, <1>3 DEF DownInv, Conduct, clientVars, history
<1>6. StreamsStep
  BY <1>1 DEF StreamsStep, history
<1> QED
  BY <1>4, <1>5, <1>6 DEF WireInv

\* The body the server has read is the next request, and another header follows.
LEMMA ServerHasBodyStep ==
  ASSUME WireInv, ServerHasBody
  PROVE  WireInv' /\ StreamsStep
<1>1. /\ serverRead.part = "body" /\ Complete(serverRead)
      /\ gotUp' = Append(gotUp, ReceivedByServer(serverRead.got))
      /\ serverRead' = ReadingHeader
      /\ UNCHANGED <<writeQueue, handed, closeAfterWrite, disconnected, clientVars, toClient,
                     toServer, sentDown, sentUp, gotDown>>
  BY DEF ServerHasBody
<1>2. Conduct /\ DownInv /\ UpInv
  BY DEF WireInv
<1>3. ~disconnected
  BY <1>1, <1>2 DEF Conduct, NotReading
<1>4. UpSide(sentUp, Len(gotUp), serverRead, toServer, writing, disconnected, closed)
  BY <1>2 DEF UpInv
<1>5. PICK g \in Nat : g = Len(gotUp)
  BY <1>2 DEF Conduct
<1>6. /\ HasBody(sentUp, g, serverRead)
      /\ UpSide(sentUp, g + 1, ReadingHeader, toServer, writing, disconnected, closed)
  BY <1>1, <1>4, <1>5, SidesBody
<1>7. g < Len(sentUp) /\ serverRead.got = Serialize(sentUp[g + 1]) /\ sentUp[g + 1] \in Requests
  <2>1. g < Len(sentUp) /\ serverRead.got = Serialize(sentUp[g + 1])
    BY <1>6 DEF HasBody
  <2>2. sentUp \in Seq(Requests) /\ g + 1 \in 1..Len(sentUp)
    BY <1>2, <2>1 DEF Conduct
  <2> QED
    BY <2>1, <2>2
<1>8. ReceivedByServer(serverRead.got) = sentUp[g + 1]
  <2>1. PICK m : m = sentUp[g + 1] /\ IsRequest(m)
    BY <1>7, MessagesAssumption
  <2> QED
    BY <1>7, <2>1, RequestReadBack
<1>9. /\ gotUp' = Append(gotUp, sentUp[g + 1])
      /\ gotUp' \in Seq(Requests) /\ Len(gotUp') = g + 1
  <2>1. gotUp \in Seq(Requests)
    BY <1>2 DEF Conduct
  <2> QED
    BY <1>1, <1>5, <1>7, <1>8, <2>1
<1>10. UpInv'
  BY <1>1, <1>6, <1>9 DEF UpInv, clientVars
<1>11. DownInv' /\ Conduct'
  BY <1>1, <1>2, <1>3, <1>9 DEF DownInv, Conduct, clientVars
<1>12. StreamsStep
  <2>1. Up!Arrive
    BY <1>1, <1>5, <1>7, <1>9 DEF Up!Arrive
  <2> QED
    BY <1>1, <2>1 DEF StreamsStep, Up!StreamNext
<1> QED
  BY <1>10, <1>11, <1>12 DEF WireInv

\* The client sends when nothing is left of its last request.
LEMMA ClientSendStep ==
  ASSUME WireInv, NEW m \in Requests, ClientSend(m)
  PROVE  WireInv' /\ StreamsStep
<1>1. /\ writing = << >> /\ gotDown # << >>
      /\ writing' = Frame(m) /\ sentUp' = Append(sentUp, m)
      /\ UNCHANGED <<serverVars, receiving, closed, clientRead, toClient, toServer,
                     sentDown, gotDown, gotUp>>
  BY DEF ClientSend
<1>2. Conduct /\ DownInv /\ UpInv
  BY DEF WireInv
<1>3. m \in Messages
  BY DEF Messages
<1>4. UpInv'
  <2>1. UpSide(sentUp, Len(gotUp), serverRead, toServer, << >>, disconnected, closed)
    BY <1>1, <1>2 DEF UpInv
  <2>2. UpSide(Append(sentUp, m), Len(gotUp), serverRead, toServer, Frame(m),
               disconnected, closed)
    BY <1>3, <2>1, UpSends
  <2> QED
    BY <1>1, <2>2 DEF UpInv, serverVars
<1>5. /\ sentUp' \in Seq(Requests) /\ Len(sentUp') = Len(sentUp) + 1
      /\ SubSeq(sentUp', 1, Len(sentUp)) = sentUp
  <2>1. sentUp \in Seq(Requests)
    BY <1>2 DEF Conduct
  <2> QED
    BY <1>1, <2>1, Sent
<1>6. Conduct' /\ DownInv'
  BY <1>1, <1>2, <1>5 DEF Conduct, DownInv, serverVars
<1>7. StreamsStep
  <2>1. Up!Send
    BY <1>1, <1>5 DEF Up!Send
  <2> QED
    BY <1>1, <2>1 DEF StreamsStep, Up!StreamNext
<1> QED
  BY <1>4, <1>6, <1>7 DEF WireInv

\* The bytes the client's socket takes follow those it took before.
LEMMA ClientWriteStep ==
  ASSUME WireInv, NEW n \in 1..SocketBuffer, ClientWrite(n)
  PROVE  WireInv' /\ StreamsStep
<1>1. /\ ~closed /\ ~disconnected /\ n <= Len(writing)
      /\ writing' = Rest(n, writing) /\ toServer' = toServer \o SubSeq(writing, 1, n)
      /\ UNCHANGED <<serverVars, receiving, closed, clientRead, toClient, history>>
  BY DEF ClientWrite
<1>2. Conduct /\ DownInv /\ UpInv
  BY DEF WireInv
<1>3. n \in Nat
  BY LimitsAssumption
<1>4. UpInv'
  <2>1. UpSide(sentUp, Len(gotUp), serverRead, toServer, writing, disconnected, closed)
    BY <1>2 DEF UpInv
  <2>2. UpSide(sentUp, Len(gotUp), serverRead, toServer \o SubSeq(writing, 1, n),
               Rest(n, writing), disconnected, closed)
    BY <1>1, <1>3, <2>1, UpWrites
  <2> QED
    BY <1>1, <2>2 DEF UpInv, serverVars, history
<1>5. DownInv' /\ Conduct'
  BY <1>1, <1>2 DEF DownInv, Conduct, serverVars, history
<1>6. StreamsStep
  BY <1>1 DEF StreamsStep, history
<1> QED
  BY <1>4, <1>5, <1>6 DEF WireInv

\* The client reads the bytes that follow those it has read.
LEMMA ClientReadsStep ==
  ASSUME WireInv, NEW n \in 1..SocketBuffer, ClientReads(n)
  PROVE  WireInv' /\ StreamsStep
<1>1. /\ Takes(clientRead, n, toClient)
      /\ clientRead' = Fed(clientRead, n, toClient) /\ toClient' = Rest(n, toClient)
      /\ UNCHANGED <<serverVars, writing, receiving, closed, toServer, history>>
  BY DEF ClientReads
<1>2. Conduct /\ DownInv /\ UpInv
  BY DEF WireInv
<1>3. DownInv'
  <2>1. DownSide(sentDown, Len(gotDown), clientRead, toClient, writeQueue, handed,
                 disconnected, closed)
    BY <1>2 DEF DownInv
  <2>2. DownSide(sentDown, Len(gotDown), Fed(clientRead, n, toClient), Rest(n, toClient),
                 writeQueue, handed, disconnected, closed)
    BY <1>1, <2>1, SidesTake
  <2> QED
    BY <1>1, <2>2 DEF DownInv, serverVars, history
<1>4. UpInv' /\ Conduct'
  BY <1>1, <1>2 DEF UpInv, Conduct, serverVars, history
<1>5. StreamsStep
  BY <1>1 DEF StreamsStep, history
<1> QED
  BY <1>3, <1>4, <1>5 DEF WireInv

\* A header tells the client the body's length, and it may give up.
LEMMA ClientHasHeaderStep ==
  ASSUME WireInv, ClientHasHeader
  PROVE  WireInv' /\ StreamsStep
<1>1. /\ clientRead.part = "header" /\ Complete(clientRead)
      /\ UNCHANGED <<serverVars, writing, closed, toClient, toServer, history>>
      /\ clientRead' \in {NotReading, ReadingBody(FrameLength(clientRead.got))}
  BY DEF ClientHasHeader
<1>2. Conduct /\ DownInv /\ UpInv
  BY DEF WireInv
<1>3. DownInv'
  <2>1. DownSide(sentDown, Len(gotDown), clientRead, toClient, writeQueue, handed,
                 disconnected, closed)
    BY <1>2 DEF DownInv
  <2>2. DownSide(sentDown, Len(gotDown), NotReading, toClient, writeQueue, handed,
                 disconnected, closed)
    BY <2>1, SidesGiveUp
  <2>3. DownSide(sentDown, Len(gotDown), ReadingBody(FrameLength(clientRead.got)), toClient,
                 writeQueue, handed, disconnected, closed)
    BY <1>1, <2>1, SidesHeader
  <2>4. DownSide(sentDown, Len(gotDown), clientRead', toClient, writeQueue, handed,
                 disconnected, closed)
    BY <1>1, <2>2, <2>3
  <2> QED
    BY <1>1, <2>4 DEF DownInv, serverVars, history
<1>4. UpInv' /\ Conduct'
  BY <1>1, <1>2 DEF UpInv, Conduct, serverVars, history
<1>5. StreamsStep
  BY <1>1 DEF StreamsStep, history
<1> QED
  BY <1>3, <1>4, <1>5 DEF WireInv

\* The body the client has read is the next announcement, and another header follows.
LEMMA ClientHasBodyStep ==
  ASSUME WireInv, ClientHasBody
  PROVE  WireInv' /\ StreamsStep
<1>1. /\ clientRead.part = "body" /\ Complete(clientRead)
      /\ gotDown' = Append(gotDown, ReceivedByClient(clientRead.got))
      /\ clientRead' = ReadingHeader
      /\ UNCHANGED <<serverVars, writing, receiving, closed, toClient, toServer,
                     sentDown, sentUp, gotUp>>
  BY DEF ClientHasBody
<1>2. Conduct /\ DownInv /\ UpInv
  BY DEF WireInv
<1>4. DownSide(sentDown, Len(gotDown), clientRead, toClient, writeQueue, handed,
               disconnected, closed)
  BY <1>2 DEF DownInv
<1>5. PICK g \in Nat : g = Len(gotDown)
  BY <1>2 DEF Conduct
<1>6. /\ HasBody(sentDown, g, clientRead)
      /\ DownSide(sentDown, g + 1, ReadingHeader, toClient, writeQueue, handed,
                  disconnected, closed)
  BY <1>1, <1>4, <1>5, SidesBody
<1>7. g < Len(sentDown) /\ clientRead.got = Serialize(sentDown[g + 1]) /\ sentDown[g + 1] \in Told
  <2>1. g < Len(sentDown) /\ clientRead.got = Serialize(sentDown[g + 1])
    BY <1>6 DEF HasBody
  <2>2. sentDown \in Seq(Told) /\ g + 1 \in 1..Len(sentDown)
    BY <1>2, <2>1 DEF Conduct
  <2> QED
    BY <2>1, <2>2
<1>8. ReceivedByClient(clientRead.got) = sentDown[g + 1]
  <2>1. PICK m : m = sentDown[g + 1] /\ m \in Told
    BY <1>7
  <2>2. IsAnnouncement(m)
    <3>1. IsAnnouncement(LengthError)
      BY DEF IsAnnouncement, LengthError, MessageType, LastOf
    <3> QED
      BY <2>1, <3>1, MessagesAssumption DEF Told
  <2> QED
    BY <1>7, <2>1, <2>2, AnnouncementReadBack
<1>9. /\ gotDown' = Append(gotDown, sentDown[g + 1])
      /\ gotDown' \in Seq(Told) /\ Len(gotDown') = g + 1 /\ gotDown' # << >>
  <2>1. gotDown \in Seq(Told)
    BY <1>2 DEF Conduct
  <2>2. gotDown' = Append(gotDown, sentDown[g + 1])
    BY <1>1, <1>8
  <2> QED
    BY <1>5, <1>7, <2>1, <2>2, Sent
<1>10. DownInv'
  BY <1>1, <1>6, <1>9 DEF DownInv, serverVars
<1>11. UpInv' /\ Conduct'
  BY <1>1, <1>2, <1>9 DEF UpInv, Conduct, serverVars
<1>12. StreamsStep
  <2>1. Down!Arrive
    BY <1>1, <1>5, <1>7, <1>9 DEF Down!Arrive
  <2> QED
    BY <1>1, <2>1 DEF StreamsStep, Down!StreamNext
<1> QED
  BY <1>10, <1>11, <1>12 DEF WireInv

\* A read that fails loses nothing that was read.
LEMMA ClientReadFailsStep ==
  ASSUME WireInv, ClientReadFails
  PROVE  WireInv' /\ StreamsStep
<1>1. /\ clientRead' = NotReading
      /\ UNCHANGED <<serverVars, writing, closed, toClient, toServer, history>>
  BY DEF ClientReadFails
<1>2. Conduct /\ DownInv /\ UpInv
  BY DEF WireInv
<1>3. DownInv'
  <2>1. DownSide(sentDown, Len(gotDown), clientRead, toClient, writeQueue, handed,
                 disconnected, closed)
    BY <1>2 DEF DownInv
  <2>2. DownSide(sentDown, Len(gotDown), NotReading, toClient, writeQueue, handed,
                 disconnected, closed)
    BY <2>1, SidesGiveUp
  <2> QED
    BY <1>1, <2>2 DEF DownInv, serverVars, history
<1>4. UpInv' /\ Conduct'
  BY <1>1, <1>2 DEF UpInv, Conduct, serverVars, history
<1>5. StreamsStep
  BY <1>1 DEF StreamsStep, history
<1> QED
  BY <1>3, <1>4, <1>5 DEF WireInv

\* The client's end is closed, by itself or by the link.
LEMMA Shuts ==
  ASSUME WireInv, closed' = TRUE, clientRead' = NotReading, writing' = << >>, toClient' = << >>,
         toServer' = toServer \/ \E n \in 0..Len(toServer) : toServer' = SubSeq(toServer, 1, n),
         UNCHANGED <<serverVars, history>>
  PROVE  WireInv' /\ StreamsStep
<1>1. Conduct /\ DownInv /\ UpInv
  BY DEF WireInv
<1>2. DownInv'
  <2>1. DownSide(sentDown, Len(gotDown), clientRead, toClient, writeQueue, handed,
                 disconnected, closed)
    BY <1>1 DEF DownInv
  <2>2. DownSide(sentDown, Len(gotDown), NotReading, << >>, writeQueue, handed,
                 disconnected, TRUE)
    BY <2>1, DownShut
  <2> QED
    BY <2>2 DEF DownInv, serverVars, history
<1>3. UpInv'
  <2>1. UpSide(sentUp, Len(gotUp), serverRead, toServer, writing, disconnected, closed)
    BY <1>1 DEF UpInv
  <2>2. PICK left : /\ left = toServer'
                    /\ left = toServer \/ \E n \in 0..Len(toServer) : left = SubSeq(toServer, 1, n)
    OBVIOUS
  <2>3. UpSide(sentUp, Len(gotUp), serverRead, left, << >>, disconnected, TRUE)
    BY <2>1, <2>2, UpShut
  <2> QED
    BY <2>2, <2>3 DEF UpInv, serverVars, history
<1>4. Conduct'
  BY <1>1 DEF Conduct, serverVars, history
<1>5. StreamsStep
  BY DEF StreamsStep, history
<1> QED
  BY <1>2, <1>3, <1>4, <1>5 DEF WireInv

\* Closing cuts what is under way, whoever does it:
LEMMA CloseStep ==
  ASSUME WireInv, Close
  PROVE  WireInv' /\ StreamsStep
<1>1. /\ closed' = TRUE /\ clientRead' = NotReading /\ writing' = << >> /\ toClient' = << >>
      /\ toServer' \in Left(toServer, toClient) /\ UNCHANGED <<serverVars, history>>
  BY DEF Close
<1>2. toServer' = toServer \/ \E n \in 0..Len(toServer) : toServer' = SubSeq(toServer, 1, n)
  BY <1>1 DEF Left
<1> QED
  BY <1>1, <1>2, Shuts

\* so does a link that breaks.
LEMMA LinkBreaksStep ==
  ASSUME WireInv, LinkBreaks
  PROVE  WireInv' /\ StreamsStep
<1>1. /\ closed' = TRUE /\ clientRead' = NotReading /\ writing' = << >> /\ toClient' = << >>
      /\ \E n \in 0..Len(toServer) : toServer' = SubSeq(toServer, 1, n)
      /\ UNCHANGED <<serverVars, history>>
  BY DEF LinkBreaks
<1> QED
  BY <1>1, Shuts

\* Every step keeps the invariant, and sends, delivers or neither.
LEMMA WireSteps == WireInv /\ [Next]_vars => WireInv' /\ StreamsStep
<1> SUFFICES ASSUME WireInv, [Next]_vars
             PROVE  WireInv' /\ StreamsStep
  OBVIOUS
<1>1. CASE ServerStart
  BY <1>1, ServerStartStep
<1>2. CASE \E m \in Announcements : ServerTurnsAway(m) \/ ServerSend(m)
  BY <1>2, ServerTurnsAwayStep, ServerSendStep
<1>3. CASE \E m \in Requests : ClientSend(m)
  BY <1>3, ClientSendStep
<1>4. CASE Transfer
  <2>1. CASE \E n \in 1..SocketBuffer : ServerWrite(n) \/ ServerReads(n) \/ ClientWrite(n)
                                           \/ ClientReads(n)
    BY <2>1, ServerWriteStep, ServerReadsStep, ClientWriteStep, ClientReadsStep
  <2>2. CASE ServerWritten
    BY <2>2, ServerWrittenStep
  <2>3. CASE ServerHasHeader
    BY <2>3, ServerHasHeaderStep
  <2>4. CASE ServerHasBody
    BY <2>4, ServerHasBodyStep
  <2>5. CASE ServerFails
    BY <2>5, ServerFailsStep
  <2>6. CASE ClientHasHeader
    BY <2>6, ClientHasHeaderStep
  <2>7. CASE ClientHasBody
    BY <2>7, ClientHasBodyStep
  <2>8. CASE ClientReadFails
    BY <2>8, ClientReadFailsStep
  <2>9. CASE ClientWriteFails
    BY <2>9, CloseStep DEF ClientWriteFails
  <2> QED
    BY <1>4, <2>1, <2>2, <2>3, <2>4, <2>5, <2>6, <2>7, <2>8, <2>9 DEF Transfer
<1>5. CASE ClientCloses
  BY <1>5, CloseStep DEF ClientCloses
<1>6. CASE LinkBreaks
  BY <1>6, LinkBreaksStep
<1>7. CASE UNCHANGED vars
  <2>1. UNCHANGED <<serverVars, clientVars, toClient, toServer, history>>
    BY <1>7 DEF vars
  <2>2. WireInv'
    BY <2>1 DEF WireInv, Conduct, DownInv, UpInv, serverVars, clientVars, history
  <2> QED
    BY <2>1, <2>2 DEF StreamsStep, history
<1> QED
  BY <1>1, <1>2, <1>3, <1>4, <1>5, <1>6, <1>7 DEF Next

\* The connection is two streams of messages: what arrives is what was sent,
\* field by field, whole and in the order it was sent, however the sockets cut
\* the bytes, whatever is lost at the end and whoever closes
\* (Serialization.cpp:10-277, GameServer.cpp:171-243, GameClient.cpp:15-30).
THEOREM StreamsCarried == Spec => ImplementsStreams
<1>1. Init => WireInv /\ Down!StreamInit /\ Up!StreamInit
  <2>1. Init => Down!StreamInit /\ Up!StreamInit
    BY DEF Init, Down!StreamInit, Up!StreamInit
  <2> QED
    BY <2>1, WireStarts
<1>2. WireInv /\ [Next]_vars
        => WireInv' /\ [Down!StreamNext]_Down!streamVars /\ [Up!StreamNext]_Up!streamVars
  BY WireSteps DEF StreamsStep, Down!streamVars, Up!streamVars
<1> QED
  BY <1>1, <1>2, PTL DEF Spec, ImplementsStreams, Down!StreamSpec, Up!StreamSpec

-----------------------------------------------------------------------------
(* What arrives is the beginning of what was sent.                         *)

Begins(arrived, sent) ==
  Len(arrived) <= Len(sent) /\ \A i \in 1..Len(arrived) : arrived[i] = sent[i]

\* Sending and arriving keep it so.
LEMMA BeginsKept ==
  ASSUME NEW S, NEW s \in Seq(S), NEW t \in Seq(S), NEW g \in Seq(S), NEW k \in Seq(S),
         Begins(g, s),
         \/ Len(t) = Len(s) + 1 /\ SubSeq(t, 1, Len(s)) = s /\ k = g
         \/ Len(g) < Len(s) /\ k = Append(g, s[Len(g) + 1]) /\ t = s
         \/ t = s /\ k = g
  PROVE  Begins(k, t)
<1>1. PICK l \in Nat, n \in Nat : l = Len(s) /\ n = Len(g)
  OBVIOUS
<1>2. n <= l /\ \A i \in 1..n : g[i] = s[i]
  BY <1>1 DEF Begins
<1>3. CASE Len(t) = l + 1 /\ SubSeq(t, 1, l) = s /\ k = g
  <2>1. \A i \in 1..l : s[i] = t[i]
    BY <1>1, <1>3
  <2>2. n <= l + 1 /\ \A i \in 1..n : i \in 1..l
    BY <1>2
  <2> QED
    BY <1>1, <1>2, <1>3, <2>1, <2>2 DEF Begins
<1>4. CASE n < l /\ k = Append(g, s[n + 1]) /\ t = s
  <2>1. n + 1 \in 1..l
    BY <1>4
  <2>2. s[n + 1] \in S
    BY <1>1, <2>1
  <2>3. Len(k) = n + 1 /\ k[n + 1] = s[n + 1] /\ \A i \in 1..n : k[i] = g[i]
    BY <1>1, <1>4, <2>2
  <2>4. \A i \in 1..n + 1 : i \in 1..n \/ i = n + 1
    OBVIOUS
  <2>5. \A i \in 1..n + 1 : k[i] = s[i]
    BY <1>2, <2>3, <2>4
  <2>6. n + 1 <= l
    BY <1>4
  <2> QED
    BY <1>1, <1>4, <2>3, <2>5, <2>6 DEF Begins
<1>5. CASE t = s /\ k = g
  BY <1>5
<1> QED
  BY <1>1, <1>3, <1>4, <1>5

BeginsInv == Begins(gotDown, sentDown) /\ Begins(gotUp, sentUp)

\* So do the steps of the connection.
LEMMA BeginsStep ==
  ASSUME BeginsInv, WireInv, [Next]_vars
  PROVE  BeginsInv'
<1>1. Conduct /\ Conduct' /\ StreamsStep
  BY WireSteps DEF WireInv
<1>2. Begins(gotDown, sentDown)'
  <2>1. /\ sentDown \in Seq(Told) /\ sentDown' \in Seq(Told)
        /\ gotDown \in Seq(Told) /\ gotDown' \in Seq(Told)
    BY <1>1 DEF Conduct
  <2>2. \/ /\ Len(sentDown') = Len(sentDown) + 1 /\ SubSeq(sentDown', 1, Len(sentDown)) = sentDown
           /\ gotDown' = gotDown
        \/ /\ Len(gotDown) < Len(sentDown) /\ gotDown' = Append(gotDown, sentDown[Len(gotDown) + 1])
           /\ sentDown' = sentDown
        \/ sentDown' = sentDown /\ gotDown' = gotDown
    BY <1>1 DEF StreamsStep, Down!StreamNext, Down!Send, Down!Arrive
  <2>3. PICK t, k : t = sentDown' /\ k = gotDown'
    OBVIOUS
  <2>4. Begins(gotDown, sentDown)
    BY DEF BeginsInv
  <2>5. Begins(k, t)
    BY <2>1, <2>2, <2>3, <2>4, BeginsKept
  <2> QED
    BY <2>3, <2>5 DEF Begins
<1>3. Begins(gotUp, sentUp)'
  <2>1. /\ sentUp \in Seq(Requests) /\ sentUp' \in Seq(Requests)
        /\ gotUp \in Seq(Requests) /\ gotUp' \in Seq(Requests)
    BY <1>1 DEF Conduct
  <2>2. \/ /\ Len(sentUp') = Len(sentUp) + 1 /\ SubSeq(sentUp', 1, Len(sentUp)) = sentUp
           /\ gotUp' = gotUp
        \/ /\ Len(gotUp) < Len(sentUp) /\ gotUp' = Append(gotUp, sentUp[Len(gotUp) + 1])
           /\ sentUp' = sentUp
        \/ sentUp' = sentUp /\ gotUp' = gotUp
    BY <1>1 DEF StreamsStep, Up!StreamNext, Up!Send, Up!Arrive
  <2>3. PICK t, k : t = sentUp' /\ k = gotUp'
    OBVIOUS
  <2>4. Begins(gotUp, sentUp)
    BY DEF BeginsInv
  <2>5. Begins(k, t)
    BY <2>1, <2>2, <2>3, <2>4, BeginsKept
  <2> QED
    BY <2>3, <2>5 DEF Begins
<1> QED
  BY <1>2, <1>3 DEF BeginsInv

\* A reader that waits for a header at the end of the stream has read it all.
LEMMA AllRead ==
  ASSUME NEW sent, NEW g, NEW under, NEW bytes, NEW start, NEW pos, NEW out,
         Carried(sent, g, ReadingHeader, under, bytes, start, pos, out),
         pos = start[Len(sent)]
  PROVE  g = Len(sent)
<1>1. Stream(sent, bytes, start) /\ Place(sent, g, ReadingHeader, bytes, start, pos)
  BY DEF Carried
<1>2. g \in 0..Len(sent) /\ pos = start[g]
  <2>1. ReadingHeader.part = "header" /\ ReadingHeader.got = << >> /\ Len(<< >>) = 0
    BY DEF ReadingHeader
  <2>2. ReadingHeader # NotReading
    BY <2>1 DEF NotReading
  <2>3. g \in 0..Len(sent) /\ pos = start[g] + Len(<< >>)
    BY <1>1, <2>1, <2>2 DEF Place
  <2>4. start[g] \in Nat
    BY <1>1, <2>3 DEF Stream
  <2> QED
    BY <2>1, <2>3, <2>4
<1>3. PICK l \in Nat : l = Len(sent)
  BY <1>1 DEF Stream
<1>4. ASSUME g # l PROVE FALSE
  <2>1. /\ g + 1 \in 1..l /\ (g + 1) - 1 = g /\ g + 1 \in 0..l /\ l \in 0..l /\ g + 1 <= l
        /\ g \in 0..l
    BY <1>2, <1>3, <1>4
  <2>2. PICK m \in Messages : m = sent[g + 1]
    BY <1>1, <1>3, <2>1 DEF Stream
  <2>3. BodyLength(m) \in Nat
    BY FrameOf
  <2>4. /\ start[g + 1] = start[g] + (4 + BodyLength(m)) /\ start[g + 1] <= start[l]
        /\ start[g] \in Nat /\ start[l] \in Nat
    BY <1>1, <1>3, <2>1, <2>2 DEF Stream
  <2>5. start[g] = start[l]
    BY <1>2, <1>3
  <2>6. PICK a \in Nat, b \in Nat : a = start[g] /\ b = BodyLength(m)
    BY <2>3, <2>4
  <2>7. a + (4 + b) <= a
    BY <2>4, <2>5, <2>6
  <2> QED
    BY <2>7
<1> QED
  BY <1>2, <1>3, <1>4

\* So has the client, when the server's queue is empty,
LEMMA DownAllRead ==
  ASSUME NEW sent, NEW g, NEW h, NEW off, NEW shut,
         DownSide(sent, g, ReadingHeader, << >>, << >>, h, off, shut), ~off, ~shut
  PROVE  g = Len(sent)
<1>1. PICK bytes, start, pos, out :
        DownAt(sent, g, ReadingHeader, << >>, << >>, h, off, shut, bytes, start, pos, out)
  BY DEF DownSide
<1>2. /\ Carried(sent, g, ReadingHeader, << >>, bytes, start, pos, out)
      /\ Whole(pos, << >>, out)
  BY <1>1 DEF DownAt
<1>3. PICK w : Queued(sent, << >>, h, start, out, w)
  BY <1>1 DEF DownAt
<1>4. w \in Nat /\ w + Len(<< >>) = Len(sent) /\ out = start[w] + h /\ h = 0
  BY <1>3 DEF Queued
<1>5. Stream(sent, bytes, start) /\ pos \in Nat
  BY <1>2 DEF Carried
<1>6. w = Len(sent)
  BY <1>4
<1>7. out = start[w]
  <2>1. w \in 0..Len(sent)
    BY <1>4, <1>6
  <2>2. start[w] \in Nat
    BY <1>5, <2>1 DEF Stream
  <2> QED
    BY <1>4, <2>2
<1>8. pos = out
  <2>1. pos + Len(<< >>) = out /\ Len(<< >>) = 0
    BY <1>2 DEF Whole
  <2> QED
    BY <1>5, <2>1
<1>9. pos = start[Len(sent)]
  BY <1>6, <1>7, <1>8
<1> QED
  BY <1>2, <1>9, AllRead

\* and the server, when the client has handed over its frame.
LEMMA UpAllRead ==
  ASSUME NEW sent, NEW g, NEW off, NEW shut,
         UpSide(sent, g, ReadingHeader, << >>, << >>, off, shut), ~off, ~shut
  PROVE  g = Len(sent)
<1>1. PICK bytes, start, pos, out :
        UpAt(sent, g, ReadingHeader, << >>, << >>, off, shut, bytes, start, pos, out)
  BY DEF UpSide
<1>2. /\ Carried(sent, g, ReadingHeader, << >>, bytes, start, pos, out)
      /\ Whole(pos, << >>, out) /\ out + Len(<< >>) = start[Len(sent)]
  BY <1>1 DEF UpAt
<1>3. pos \in Nat /\ out \in Nat /\ Len(<< >>) = 0
  BY <1>2 DEF Carried
<1>4. pos = start[Len(sent)]
  <2>1. pos + Len(<< >>) = out
    BY <1>2 DEF Whole
  <2> QED
    BY <1>2, <1>3, <2>1
<1> QED
  BY <1>2, <1>4, AllRead

\* A beginning as long as the whole is the whole.
LEMMA BeginsAll ==
  ASSUME NEW S, NEW s \in Seq(S), NEW g \in Seq(S), Begins(g, s), Len(g) = Len(s)
  PROVE  g = s
BY DEF Begins

\* A direction at rest has given its reader all that was sent, in that order, for
\* any messages and any sizes of sockets: the server's queue and the client's
\* blocking write leave nothing behind (GameServer.cpp:182-188, 229-243,
\* GameClient.cpp:15-30).
THEOREM AllGivenAtRest == Spec => []NothingForgotten
<1>1. Init => WireInv /\ BeginsInv
  <2> SUFFICES ASSUME Init PROVE WireInv /\ BeginsInv
    OBVIOUS
  <2>1. BeginsInv
    BY DEF Init, BeginsInv, Begins
  <2> QED
    BY <2>1, WireStarts
<1>2. WireInv /\ BeginsInv /\ [Next]_vars => (WireInv /\ BeginsInv)'
  BY WireSteps, BeginsStep
<1>3. WireInv /\ BeginsInv => NothingForgotten
  <2> SUFFICES ASSUME WireInv, BeginsInv PROVE NothingForgotten
    OBVIOUS
  <2>1. Conduct /\ DownInv /\ UpInv
    BY DEF WireInv
  <2>2. ASSUME writeQueue = << >>, AtRest(clientRead, toClient) PROVE gotDown = sentDown
    <3>1. /\ ~closed /\ ~disconnected /\ clientRead = ReadingHeader /\ toClient = << >>
      BY <2>2 DEF AtRest
    <3>2. DownSide(sentDown, Len(gotDown), ReadingHeader, << >>, << >>, handed,
                   disconnected, closed)
      BY <2>1, <2>2, <3>1 DEF DownInv
    <3>3. Len(gotDown) = Len(sentDown)
      BY <3>1, <3>2, DownAllRead
    <3> QED
      BY <2>1, <3>3, BeginsAll DEF Conduct, BeginsInv
  <2>3. ASSUME writing = << >>, AtRest(serverRead, toServer) PROVE gotUp = sentUp
    <3>1. /\ ~closed /\ ~disconnected /\ serverRead = ReadingHeader /\ toServer = << >>
      BY <2>3 DEF AtRest
    <3>2. UpSide(sentUp, Len(gotUp), ReadingHeader, << >>, << >>, disconnected, closed)
      BY <2>1, <2>3, <3>1 DEF UpInv
    <3>3. Len(gotUp) = Len(sentUp)
      BY <3>1, <3>2, UpAllRead
    <3> QED
      BY <2>1, <3>3, BeginsAll DEF Conduct, BeginsInv
  <2> QED
    BY <2>2, <2>3 DEF NothingForgotten
<1> QED
  BY <1>1, <1>2, <1>3, PTL DEF Spec
==============================================================================
