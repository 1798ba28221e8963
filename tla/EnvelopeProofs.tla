---------------------------- MODULE EnvelopeProofs ---------------------------
(***************************************************************************)
(* Theorems about the codec and the way of a datagram, for payloads of any *)
(* length.                                                                  *)
(***************************************************************************)
EXTENDS Envelope, PartialSumsProofs, SequenceTheorems, TLAPS

(* Every value of the model: the fields, which are named after themselves,  *)
(* and the values that do not come from a field.                            *)
Value == IdField \cup IpField \cup PortField \cup MetaField
           \cup {"path_present", "path_id", "0", "1", "none", "wireguard", "garbled",
                 "payload", "padding"}
Byte  == Value \X Nat

(* The concatenation of the encoded fields.                                 *)
Flattened(seqs, g, m) ==
  g = [i \in 1..m |-> IF i = 1 THEN seqs[i] ELSE g[i - 1] \o seqs[i]]

LEMMA FlattenedExists ==
  ASSUME NEW seqs
  PROVE  \A m \in Nat : \E g : Flattened(seqs, g, m)
<1> DEFINE S == {m \in Nat : \E g : Flattened(seqs, g, m)}
<1>1. 0 \in S
  <2>1. Flattened(seqs, <<>>, 0)
    BY DEF Flattened
  <2> QED BY <2>1
<1>2. ASSUME NEW m \in Nat, m \in S PROVE m + 1 \in S
  <2> PICK g : Flattened(seqs, g, m)
    BY <1>2
  <2> DEFINE h == [i \in 1..m + 1 |-> IF i <= m THEN g[i]
                                      ELSE IF i = 1 THEN seqs[1] ELSE g[m] \o seqs[i]]
  <2>1. ASSUME NEW i \in 1..m + 1
        PROVE  h[i] = IF i = 1 THEN seqs[i] ELSE h[i - 1] \o seqs[i]
    <3>1. CASE i <= m
      <4>1. h[i] = g[i] /\ i \in 1..m
        BY <3>1
      <4>2. i # 1 => h[i - 1] = g[i - 1]
        BY <3>1
      <4> HIDE DEF h
      <4>3. g[i] = IF i = 1 THEN seqs[i] ELSE g[i - 1] \o seqs[i]
        BY <4>1 DEF Flattened
      <4> QED BY <4>1, <4>2, <4>3
    <3>2. CASE ~(i <= m) /\ i = 1
      BY <3>2
    <3>3. CASE ~(i <= m) /\ i # 1
      <4>1. i = m + 1 /\ i - 1 = m /\ m \in 1..m + 1 /\ m <= m
        BY <3>3
      <4>2. h[i] = g[m] \o seqs[i] /\ h[m] = g[m]
        BY <3>3, <4>1
      <4> HIDE DEF h
      <4> QED BY <3>3, <4>1, <4>2
    <3> QED BY <3>1, <3>2, <3>3
  <2>2. h = [i \in 1..m + 1 |-> IF i = 1 THEN seqs[i] ELSE h[i - 1] \o seqs[i]]
    <3>1. h = [i \in 1..m + 1 |-> h[i]]
      OBVIOUS
    <3> HIDE DEF h
    <3> QED BY <2>1, <3>1
  <2> HIDE DEF h
  <2>3. Flattened(seqs, h, m + 1)
    BY <2>2 DEF Flattened
  <2> QED BY <2>3
<1> HIDE DEF S
<1>3. Nat \subseteq S
  BY <1>1, <1>2, Induction
<1> QED BY <1>3 DEF S

(* `flat` is the concatenation of the first n sequences, of which each ends *)
(* at its place in `ends`.                                                  *)
Joins(S, seqs, ends, flat, n) ==
  /\ flat \in Seq(S) /\ Len(flat) = ends[n]
  /\ \A i \in 1..n, j \in Nat \ {0} : j <= Len(seqs[i]) =>
       ends[i - 1] + j <= ends[n] /\ flat[ends[i - 1] + j] = seqs[i][j]

LEMMA JoinOne ==
  ASSUME NEW S, NEW seqs, NEW ends, NEW flat, NEW n \in Nat \ {0}, NEW next \in Seq(S),
         next = seqs[n + 1], \A i \in 0..n + 1 : ends[i] \in Nat,
         ends[n + 1] = ends[n] + Len(next), Joins(S, seqs, ends, flat, n)
  PROVE  Joins(S, seqs, ends, flat \o next, n + 1)
<1> DEFINE more == flat \o next
<1>1. ends[n] \in Nat /\ Len(next) \in Nat /\ flat \in Seq(S) /\ Len(flat) = ends[n]
  BY DEF Joins
<1>2. /\ more \in Seq(S) /\ Len(more) = ends[n + 1]
      /\ \A x \in 1..ends[n + 1] : more[x] = IF x <= ends[n] THEN flat[x] ELSE next[x - ends[n]]
  <2>1. /\ more \in Seq(S) /\ Len(more) = Len(flat) + Len(next)
        /\ \A x \in 1..Len(flat) + Len(next) :
             more[x] = IF x <= Len(flat) THEN flat[x] ELSE next[x - Len(flat)]
    BY <1>1, ConcatProperties
  <2> HIDE DEF more
  <2> QED BY <1>1, <2>1
<1> HIDE DEF more
<1>3. ASSUME NEW i \in 1..n + 1, NEW j \in Nat \ {0}, j <= Len(seqs[i])
      PROVE  ends[i - 1] + j <= ends[n + 1] /\ more[ends[i - 1] + j] = seqs[i][j]
  <2>1. CASE i = n + 1
    <3>1. i - 1 = n
      BY <2>1
    <3>2. /\ ends[n] + j <= ends[n + 1] /\ ends[n] + j \in 1..ends[n + 1]
          /\ (ends[n] + j) - ends[n] = j /\ ~(ends[n] + j <= ends[n])
      BY <1>1, <1>3, <2>1
    <3>3. more[ends[n] + j] = next[j]
      BY <1>2, <3>2
    <3> QED BY <2>1, <3>1, <3>2, <3>3
  <2>2. CASE i # n + 1
    <3>1. i \in 1..n /\ i - 1 \in 0..n + 1 /\ ends[i - 1] \in Nat
      BY <2>2
    <3>2. ends[i - 1] + j <= ends[n] /\ flat[ends[i - 1] + j] = seqs[i][j]
      BY <1>3, <3>1 DEF Joins
    <3>3. ends[i - 1] + j <= ends[n + 1] /\ ends[i - 1] + j \in 1..ends[n + 1]
      BY <1>1, <3>1, <3>2
    <3> QED BY <1>2, <3>2, <3>3
  <2> QED BY <2>1, <2>2
<1>4. Joins(S, seqs, ends, more, n + 1)
  BY <1>2, <1>3 DEF Joins
<1> QED BY <1>4 DEF more

(* A concatenation has the elements of each sequence in their places.       *)
LEMMA FlattenIs ==
  ASSUME NEW S, NEW seqs, NEW m \in Nat \ {0}, Len(seqs) = m,
         \A i \in 1..m : seqs[i] \in Seq(S),
         NEW ends, ends = Total([i \in 1..m |-> Len(seqs[i])])
  PROVE  Joins(S, seqs, ends, FlattenSeq(seqs), m)
<1> DEFINE len == [i \in 1..m |-> Len(seqs[i])]
<1>1. PICK g : Flattened(seqs, g, m) /\ FlattenSeq(seqs) = g[m]
  <2>1. FlattenSeq(seqs) = (CHOOSE g : Flattened(seqs, g, m))[m]
    BY DEF FlattenSeq, Flattened
  <2> QED BY <2>1, FlattenedExists
<1>2. /\ \A i \in 1..m : len[i] \in Nat /\ len[i] = Len(seqs[i])
      /\ \A n \in 0..m : ends[n] \in Nat
      /\ ends[0] = 0
      /\ \A n \in 1..m : ends[n] = ends[n - 1] + Len(seqs[n])
  <2>1. \A i \in 1..m : len[i] \in Nat /\ len[i] = Len(seqs[i])
    OBVIOUS
  <2>2. ends = Total(len)
    OBVIOUS
  <2> HIDE DEF len
  <2>3. \A n \in 0..m : ends[n] \in Nat
    BY <2>1, <2>2, TotalOfNumbers
  <2>4. ASSUME NEW n \in 1..m PROVE ends[n] = ends[n - 1] + Len(seqs[n])
    <3>1. n - 1 \in Nat /\ (n - 1) + 1 = n /\ len[n] = Len(seqs[n])
      BY <2>1
    <3>2. ends[(n - 1) + 1] = ends[n - 1] + len[(n - 1) + 1]
      BY <2>2, <3>1, TotalIs
    <3> QED BY <3>1, <3>2
  <2> QED BY <2>1, <2>2, <2>3, <2>4, TotalIs
<1> HIDE DEF len
<1> DEFINE P == {n \in Nat : n + 1 <= m => Joins(S, seqs, ends, g[n + 1], n + 1)}
<1>3. 0 \in P
  <2>1. g[1] = seqs[1] /\ seqs[1] \in Seq(S)
    BY <1>1 DEF Flattened
  <2>2. ends[1] = Len(seqs[1])
    <3>1. 1 \in 1..m /\ 1 - 1 = 0
      OBVIOUS
    <3>2. ends[1] = ends[0] + Len(seqs[1]) /\ Len(seqs[1]) \in Nat
      BY <1>2, <3>1
    <3> QED BY <1>2, <3>2
  <2>3. Joins(S, seqs, ends, g[1], 1)
    <3>1. \A i \in 1..1, j \in Nat \ {0} : j <= Len(seqs[i]) =>
            ends[i - 1] + j <= ends[1] /\ g[1][ends[i - 1] + j] = seqs[i][j]
      <4> SUFFICES ASSUME NEW j \in Nat \ {0}, j <= Len(seqs[1])
                   PROVE  ends[0] + j <= ends[1] /\ g[1][ends[0] + j] = seqs[1][j]
        OBVIOUS
      <4>1. ends[0] + j = j
        BY <1>2
      <4> QED BY <2>1, <2>2, <4>1
    <3> QED BY <2>1, <2>2, <3>1 DEF Joins
  <2> QED BY <2>3
<1>4. ASSUME NEW k \in Nat, k \in P PROVE k + 1 \in P
  <2>1. ASSUME (k + 1) + 1 <= m PROVE Joins(S, seqs, ends, g[(k + 1) + 1], (k + 1) + 1)
    <3> DEFINE n == k + 1
    <3>1. n \in Nat \ {0} /\ n \in 1..m /\ n + 1 \in 1..m /\ n + 1 # 1 /\ (n + 1) - 1 = n
      BY <2>1
    <3>2. Joins(S, seqs, ends, g[n], n)
      BY <1>4, <2>1
    <3> HIDE DEF n
    <3>3. g[n + 1] = g[n] \o seqs[n + 1] /\ seqs[n + 1] \in Seq(S)
      BY <1>1, <3>1 DEF Flattened
    <3>4. ends[n + 1] = ends[n] + Len(seqs[n + 1]) /\ \A i \in 0..n + 1 : ends[i] \in Nat
      <4>1. \A i \in 0..n + 1 : i \in 0..m
        BY <3>1
      <4>2. ends[n + 1] = ends[(n + 1) - 1] + Len(seqs[n + 1])
        BY <1>2, <3>1
      <4> QED BY <1>2, <3>1, <4>1, <4>2
    <3>5. Joins(S, seqs, ends, g[n + 1], n + 1)
      BY <3>1, <3>2, <3>3, <3>4, JoinOne
    <3> QED BY <3>5 DEF n
  <2> QED BY <2>1
<1> HIDE DEF P
<1>5. Nat \subseteq P
  BY <1>3, <1>4, Induction
<1>6. Joins(S, seqs, ends, g[m], m)
  <2>1. m - 1 \in P /\ (m - 1) + 1 = m
    BY <1>5
  <2> QED BY <2>1 DEF P
<1> QED BY <1>1, <1>6

-----------------------------------------------------------------------------
(* A list of fields is written and read back.                               *)

(* No field comes twice.                                                    *)
Layout(fields) ==
  /\ fields \in Seq(Value) /\ fields # <<>>
  /\ \A i, j \in 1..Len(fields) : fields[i] = fields[j] => i = j

LEMMA LayoutFacts ==
  ASSUME NEW fields, Layout(fields)
  PROVE  /\ Len(fields) \in Nat \ {0} /\ DOMAIN fields = 1..Len(fields)
         /\ ToSet(fields) = {fields[i] : i \in 1..Len(fields)}
         /\ ToSet(fields) \subseteq Value
<1>1. Len(fields) \in Nat \ {0} /\ fields \in [1..Len(fields) -> Value]
  BY LenProperties, EmptySeq DEF Layout
<1> QED BY <1>1 DEF ToSet

LEMMA WidthFacts == \A f : Width(f) \in Nat \ {0}
  BY DEF Width

LEMMA EndsFacts ==
  ASSUME NEW fields, Layout(fields)
  PROVE  /\ Ends(fields)[0] = 0
         /\ \A i \in 0..Len(fields) : Ends(fields)[i] \in Nat /\ Ends(fields)[i] <= Size(fields)
         /\ \A i \in 1..Len(fields) :
              Ends(fields)[i] = Ends(fields)[i - 1] + Width(fields[i])
         /\ Size(fields) \in Nat
<1> DEFINE m == Len(fields)
           w == [i \in 1..m |-> Width(fields[i])]
<1>1. m \in Nat \ {0} /\ Ends(fields) = Total(w) /\ Size(fields) = Ends(fields)[m]
  BY LayoutFacts DEF Ends, Size
<1>2. \A i \in 1..m : w[i] = Width(fields[i]) /\ w[i] \in Nat
  BY WidthFacts
<1> HIDE DEF m, w
<1>3. \A i \in 0..m : Ends(fields)[i] \in Nat /\ Ends(fields)[i] <= Ends(fields)[m]
  <2>1. \A i \in 0..m : Ends(fields)[i] \in Nat
    BY <1>1, <1>2, TotalOfNumbers
  <2>2. \A i \in 0..m, j \in 0..m : i <= j => Ends(fields)[i] <= Ends(fields)[j]
    BY <1>1, <1>2, TotalGrows
  <2>3. m \in 0..m /\ \A i \in 0..m : i <= m
    BY <1>1
  <2> QED BY <2>1, <2>2, <2>3
<1>4. ASSUME NEW i \in 1..m PROVE Ends(fields)[i] = Ends(fields)[i - 1] + Width(fields[i])
  <2>1. i - 1 \in Nat /\ (i - 1) + 1 = i
    BY <1>1
  <2>2. Total(w)[(i - 1) + 1] = Total(w)[i - 1] + w[(i - 1) + 1]
    BY <2>1, TotalIs
  <2> QED BY <1>1, <1>2, <2>1, <2>2
<1>5. Ends(fields)[0] = 0 /\ m \in 0..m
  BY <1>1, TotalIs
<1> QED BY <1>1, <1>3, <1>4, <1>5 DEF m

LEMMA BytesFacts ==
  ASSUME NEW v \in Value, NEW n \in Nat
  PROVE  Bytes(v, n) \in Seq(Byte) /\ Len(Bytes(v, n)) = n
         /\ \A i \in 1..n : Bytes(v, n)[i] = <<v, i>>
<1> DEFINE bytes == Bytes(v, n)
<1>1. bytes \in [1..n -> Byte] /\ \A i \in 1..n : bytes[i] = <<v, i>>
  <2>1. ASSUME NEW i \in 1..n PROVE <<v, i>> \in Byte
    <3>1. i \in Nat
      OBVIOUS
    <3> QED BY ONLY v \in Value, <3>1 DEF Byte
  <2> HIDE DEF Byte
  <2>2. bytes = [i \in 1..n |-> <<v, i>>]
    BY DEF Bytes
  <2> HIDE DEF bytes
  <2> QED BY <2>1, <2>2
<1> HIDE DEF bytes
<1>2. bytes \in Seq(Byte) /\ Len(bytes) = n
  <2> HIDE DEF Byte
  <2> QED BY <1>1
<1> QED BY <1>1, <1>2 DEF bytes

LEMMA ValueOfBytes ==
  ASSUME NEW v \in Value, NEW n \in Nat \ {0}
  PROVE  ValueOf(Bytes(v, n)) = v
<1>1. Bytes(v, n)[1] = <<v, 1>> /\ Len(Bytes(v, n)) = n
  <2>1. n \in Nat /\ 1 \in 1..n
    OBVIOUS
  <2> QED BY <2>1, BytesFacts
<1>2. Bytes(v, n)[1][1] = v
  BY <1>1
<1> QED BY <1>1, <1>2 DEF ValueOf

LEMMA WriteFacts ==
  ASSUME NEW fields, Layout(fields),
         NEW value, \A f \in ToSet(fields) : value[f] \in Value
  PROVE  /\ Write(fields, value) \in Seq(Byte)
         /\ Len(Write(fields, value)) = Size(fields)
         /\ \A i \in 1..Len(fields), j \in Nat \ {0} : j <= Width(fields[i]) =>
              Write(fields, value)[Ends(fields)[i - 1] + j] = <<value[fields[i]], j>>
<1> DEFINE m    == Len(fields)
           seqs == [i \in 1..m |-> Bytes(value[fields[i]], Width(fields[i]))]
<1>1. /\ m \in Nat \ {0} /\ Write(fields, value) = FlattenSeq(seqs)
      /\ Size(fields) = Ends(fields)[m]
      /\ Ends(fields) = Total([i \in 1..m |-> Width(fields[i])])
  BY LayoutFacts DEF Write, Size, Ends
<1>2. \A i \in 1..m : fields[i] \in ToSet(fields) /\ Width(fields[i]) \in Nat
  BY LayoutFacts, WidthFacts
<1>3. /\ \A i \in 1..m : /\ seqs[i] \in Seq(Byte) /\ Len(seqs[i]) = Width(fields[i])
                         /\ \A j \in 1..Width(fields[i]) : seqs[i][j] = <<value[fields[i]], j>>
  BY <1>2, BytesFacts
<1>4. Len(seqs) = m
  BY <1>1
<1> HIDE DEF seqs, m
<1>5. Ends(fields) = Total([i \in 1..m |-> Len(seqs[i])])
  <2>1. [i \in 1..m |-> Len(seqs[i])] = [i \in 1..m |-> Width(fields[i])]
    BY <1>3
  <2> QED BY <1>1, <2>1
<1>6. Joins(Byte, seqs, Ends(fields), Write(fields, value), m)
  <2>1. \A i \in 1..m : seqs[i] \in Seq(Byte)
    BY <1>3
  <2>2. Joins(Byte, seqs, Ends(fields), FlattenSeq(seqs), m)
    BY <1>1, <1>4, <1>5, <2>1, FlattenIs
  <2> QED BY <1>1, <2>2
<1>7. ASSUME NEW i \in 1..m, NEW j \in Nat \ {0}, j <= Width(fields[i])
      PROVE  Write(fields, value)[Ends(fields)[i - 1] + j] = <<value[fields[i]], j>>
  <2>1. j \in 1..Width(fields[i]) /\ j <= Len(seqs[i])
    BY <1>2, <1>3, <1>7
  <2> QED BY <1>3, <1>6, <2>1 DEF Joins
<1> QED BY <1>1, <1>6, <1>7 DEF Joins, m

(* What is read where a list of fields was written.                         *)
LEMMA ReadWhatWasWritten ==
  ASSUME NEW fields, Layout(fields),
         NEW value, \A f \in ToSet(fields) : value[f] \in Value,
         NEW rest \in Seq(Byte)
  PROVE  Read(fields, Write(fields, value) \o rest) = [f \in ToSet(fields) |-> value[f]]
<1> DEFINE bytes == Write(fields, value) \o rest
           index == [f \in ToSet(fields) |-> CHOOSE i \in DOMAIN fields : fields[i] = f]
           part(f) == SubSeq(bytes, Ends(fields)[index[f]] - Width(f) + 1, Ends(fields)[index[f]])
<1>1. Read(fields, bytes) = [f \in ToSet(fields) |-> ValueOf(part(f))]
  BY DEF Read
<1>2. /\ bytes \in Seq(Byte)
      /\ \A x \in 1..Size(fields) : bytes[x] = Write(fields, value)[x]
      /\ Len(bytes) \in Nat /\ Len(bytes) >= Size(fields) /\ Size(fields) \in Nat
  <2> DEFINE written == Write(fields, value)
  <2>1. written \in Seq(Byte) /\ Len(written) = Size(fields) /\ Size(fields) \in Nat
        /\ Len(rest) \in Nat
    BY WriteFacts, EndsFacts
  <2> HIDE DEF written
  <2>2. /\ written \o rest \in Seq(Byte)
        /\ Len(written \o rest) = Len(written) + Len(rest)
        /\ \A x \in 1..Len(written) + Len(rest) : (written \o rest)[x] =
             IF x <= Len(written) THEN written[x] ELSE rest[x - Len(written)]
    BY <2>1, ConcatProperties
  <2>3. bytes = written \o rest
    BY DEF written
  <2> HIDE DEF bytes
  <2> QED BY <2>1, <2>2, <2>3 DEF written
<1> HIDE DEF bytes
<1>3. ASSUME NEW f \in ToSet(fields) PROVE ValueOf(part(f)) = value[f]
  <2>1. PICK i \in 1..Len(fields) : fields[i] = f
    BY LayoutFacts
  <2>2. index[f] = i
    BY <2>1, LayoutFacts DEF Layout
  <2> DEFINE from == Ends(fields)[i - 1]
             n    == Width(f)
  <2>3. /\ from \in Nat /\ n \in Nat \ {0} /\ Ends(fields)[i] = from + n
        /\ from + n <= Size(fields)
    <3>1. i \in 0..Len(fields) /\ i - 1 \in 0..Len(fields)
      BY LayoutFacts
    <3> QED BY <2>1, <3>1, EndsFacts, WidthFacts
  <2>4. \A j \in 1..n : bytes[from + j] = <<value[f], j>>
    <3>1. ASSUME NEW j \in 1..n PROVE bytes[from + j] = <<value[f], j>>
      <4>1. j \in Nat \ {0} /\ j <= Width(fields[i]) /\ from + j \in 1..Size(fields)
        BY <1>2, <2>1, <2>3
      <4>2. Write(fields, value)[from + j] = <<value[f], j>>
        BY <2>1, <4>1, WriteFacts
      <4> QED BY <1>2, <4>1, <4>2
    <3> QED BY <3>1
  <2>5. part(f) = SubSeq(bytes, from + 1, from + n)
    <3>1. (from + n) - n + 1 = from + 1
      BY <2>3
    <3> QED BY <2>2, <2>3, <3>1
  <2> HIDE DEF from, n, part
  <2>6. SubSeq(bytes, from + 1, from + n) = Bytes(value[f], n)
    <3>1. /\ SubSeq(bytes, from + 1, from + n) \in Seq(Byte)
          /\ Len(SubSeq(bytes, from + 1, from + n)) = n
          /\ \A j \in 1..n : SubSeq(bytes, from + 1, from + n)[j] = bytes[from + j]
      <4>1. from + 1 \in Int /\ from + n \in Int /\ from + 1 <= from + n
            /\ (from + n) - (from + 1) + 1 = n
        BY <2>3
      <4>2. \A x \in from + 1..from + n : bytes[x] \in Byte
        BY <1>2, <2>3, ElementOfSeq
      <4>3. /\ SubSeq(bytes, from + 1, from + n) \in Seq(Byte)
            /\ Len(SubSeq(bytes, from + 1, from + n)) = n
            /\ \A j \in 1..(from + n) - (from + 1) + 1 :
                 SubSeq(bytes, from + 1, from + n)[j] = bytes[(from + 1) + j - 1]
        BY <4>1, <4>2, SubSeqProperties
      <4>4. \A j \in 1..n : (from + 1) + j - 1 = from + j
        BY <2>3
      <4> QED BY <4>1, <4>3, <4>4
    <3>2. /\ Bytes(value[f], n) \in Seq(Byte) /\ Len(Bytes(value[f], n)) = n
          /\ \A j \in 1..n : Bytes(value[f], n)[j] = <<value[f], j>>
      BY <2>3, BytesFacts
    <3> DEFINE a == SubSeq(bytes, from + 1, from + n)
               b == Bytes(value[f], n)
    <3>3. /\ a \in Seq(Byte) /\ b \in Seq(Byte) /\ Len(a) = Len(b)
          /\ \A j \in 1..Len(a) : a[j] = b[j]
      BY <2>4, <3>1, <3>2
    <3> HIDE DEF a, b
    <3>4. a = b
      BY <3>3, SeqEqual
    <3> QED BY <3>4 DEF a, b
  <2>7. ValueOf(Bytes(value[f], n)) = value[f]
    BY <2>3, ValueOfBytes
  <2> QED BY <2>5, <2>6, <2>7
<1> HIDE DEF part
<1>4. [f \in ToSet(fields) |-> ValueOf(part(f))] = [f \in ToSet(fields) |-> value[f]]
  BY <1>3
<1> QED BY <1>1, <1>4 DEF bytes

-----------------------------------------------------------------------------
(* The tables of the fields.                                                *)

LEMMA TuplesAreSequences ==
  ASSUME NEW S, NEW a \in S, NEW b \in S, NEW c \in S, NEW d \in S, NEW e \in S
  PROVE  /\ <<a>> \in Seq(S) /\ <<a, b>> \in Seq(S) /\ <<a, b, c>> \in Seq(S)
         /\ <<a, b, c, d, e>> \in Seq(S)
<1>1. <<a>> \in Seq(S) /\ <<a, b>> \in Seq(S)
  OBVIOUS
<1>2. <<a, b, c>> \in Seq(S)
  OBVIOUS
<1>3. <<a, b, c, d, e>> \in Seq(S)
  OBVIOUS
<1> QED BY <1>1, <1>2, <1>3

LEMMA SizeOfList ==
  ASSUME NEW fields, Layout(fields)
  PROVE  /\ Len(fields) = 1 => Size(fields) = Width(fields[1])
         /\ Len(fields) = 2 => Size(fields) = Width(fields[1]) + Width(fields[2])
         /\ Len(fields) = 3 =>
              Size(fields) = Width(fields[1]) + Width(fields[2]) + Width(fields[3])
         /\ Len(fields) = 5 =>
              Size(fields) = Width(fields[1]) + Width(fields[2]) + Width(fields[3])
                               + Width(fields[4]) + Width(fields[5])
<1> DEFINE end == Ends(fields)
           w(i) == Width(fields[i])
<1>1. /\ end[0] = 0 /\ \A i \in 1..Len(fields) : end[i] = end[i - 1] + w(i)
      /\ Len(fields) \in Nat /\ Size(fields) = end[Len(fields)]
  BY EndsFacts, LayoutFacts DEF Size
<1>2. \A i : w(i) \in Nat
  BY WidthFacts
<1> HIDE DEF end, w
<1>3. /\ Len(fields) >= 1 => end[1] = w(1)
      /\ Len(fields) >= 2 => end[2] = end[1] + w(2)
      /\ Len(fields) >= 3 => end[3] = end[2] + w(3)
      /\ Len(fields) >= 4 => end[4] = end[3] + w(4)
      /\ Len(fields) >= 5 => end[5] = end[4] + w(5)
  <2>1. Len(fields) >= 1 => end[1] = w(1)
    <3>1. Len(fields) >= 1 => 1 \in 1..Len(fields) /\ 1 - 1 = 0
      BY <1>1
    <3> QED BY <1>1, <1>2, <3>1
  <2>2. \A n \in {2, 3, 4, 5} : Len(fields) >= n => end[n] = end[n - 1] + w(n)
    <3>1. \A n \in {2, 3, 4, 5} : Len(fields) >= n => n \in 1..Len(fields)
      BY <1>1
    <3> QED BY <1>1, <3>1
  <2>3. 2 - 1 = 1 /\ 3 - 1 = 2 /\ 4 - 1 = 3 /\ 5 - 1 = 4
    OBVIOUS
  <2> QED BY <2>1, <2>2, <2>3
<1>4. CASE Len(fields) = 1
  BY <1>1, <1>3, <1>4 DEF w
<1>5. CASE Len(fields) = 2
  BY <1>1, <1>3, <1>5 DEF w
<1>6. CASE Len(fields) = 3
  BY <1>1, <1>3, <1>6 DEF w
<1>7. CASE Len(fields) = 5
  BY <1>1, <1>3, <1>7 DEF w
<1> QED BY <1>4, <1>5, <1>6, <1>7

LEMMA LayoutOfOne ==
  ASSUME NEW a \in Value
  PROVE  Layout(<<a>>)
<1> DEFINE list == <<a>>
<1>1. list \in Seq(Value)
  BY TuplesAreSequences
<1>2. Len(list) = 1 /\ list # <<>>
  OBVIOUS
<1>3. \A i, j \in 1..1 : list[i] = list[j] => i = j
  OBVIOUS
<1> HIDE DEF list
<1>4. Layout(list)
  BY <1>1, <1>2, <1>3 DEF Layout
<1> QED BY <1>4 DEF list

LEMMA LayoutOfTwo ==
  ASSUME NEW a \in Value, NEW b \in Value, a # b
  PROVE  Layout(<<a, b>>)
<1> DEFINE list == <<a, b>>
<1>1. list \in Seq(Value)
  BY TuplesAreSequences
<1>2. Len(list) = 2 /\ list # <<>>
  OBVIOUS
<1>3. \A i, j \in 1..2 : list[i] = list[j] => i = j
  <2>1. 1..2 = {1, 2} /\ list[1] = a /\ list[2] = b
    OBVIOUS
  <2> HIDE DEF list
  <2> QED BY <2>1
<1> HIDE DEF list
<1>4. Layout(list)
  BY <1>1, <1>2, <1>3 DEF Layout
<1> QED BY <1>4 DEF list

LEMMA LayoutOfThree ==
  ASSUME NEW a \in Value, NEW b \in Value, NEW c \in Value, a # b, a # c, b # c
  PROVE  Layout(<<a, b, c>>)
<1> DEFINE list == <<a, b, c>>
<1>1. list \in Seq(Value)
  BY TuplesAreSequences
<1>2. Len(list) = 3 /\ list # <<>>
  OBVIOUS
<1>3. \A i, j \in 1..3 : list[i] = list[j] => i = j
  <2>1. 1..3 = {1, 2, 3} /\ list[1] = a /\ list[2] = b /\ list[3] = c
    OBVIOUS
  <2> HIDE DEF list
  <2> QED BY <2>1
<1> HIDE DEF list
<1>4. Layout(list)
  BY <1>1, <1>2, <1>3 DEF Layout
<1> QED BY <1>4 DEF list

LEMMA WidthsAre ==
  /\ \A f \in IdField : Width(f) = 16
  /\ \A f \in IpField : Width(f) = 4
  /\ \A f \in PortField : Width(f) = 2
  /\ \A f \in MetaField : Width(f) = 8
  /\ Width("path_present") = 1 /\ Width("path_id") = 1
<1>1. ASSUME NEW f \in IdField PROVE Width(f) = 16
  <2>1. f \notin IpField /\ f \notin PortField /\ f \notin MetaField
    BY DEF IdField, IpField, PortField, MetaField
  <2> QED BY <2>1 DEF Width
<1>2. ASSUME NEW f \in IpField PROVE Width(f) = 4
  <2>1. f \notin IdField /\ f \notin PortField /\ f \notin MetaField
    BY DEF IdField, IpField, PortField, MetaField
  <2> QED BY <2>1 DEF Width
<1>3. ASSUME NEW f \in PortField PROVE Width(f) = 2
  <2>1. f \notin IdField /\ f \notin IpField /\ f \notin MetaField
    BY DEF IdField, IpField, PortField, MetaField
  <2> QED BY <2>1 DEF Width
<1>4. ASSUME NEW f \in MetaField PROVE Width(f) = 8
  <2>1. f \notin IdField /\ f \notin IpField /\ f \notin PortField
    BY DEF IdField, IpField, PortField, MetaField
  <2> QED BY <2>1 DEF Width
<1>5. ASSUME NEW f \in {"path_present", "path_id"} PROVE Width(f) = 1
  <2>1. f \notin IdField /\ f \notin IpField /\ f \notin PortField /\ f \notin MetaField
    BY DEF IdField, IpField, PortField, MetaField
  <2> QED BY <2>1 DEF Width
<1> QED BY <1>1, <1>2, <1>3, <1>4, <1>5

LEMMA MetaLayout == Layout(MetaFields) /\ Size(MetaFields) = 26
<1>1. /\ MetaFields[1] = "sequence" /\ MetaFields[2] = "connection_epoch"
      /\ MetaFields[3] = "sent_at_ms" /\ MetaFields[4] = "path_present"
      /\ MetaFields[5] = "path_id" /\ Len(MetaFields) = 5 /\ MetaFields # <<>>
  BY DEF MetaFields
<1>2. MetaFields \in Seq(Value)
  <2>1. {"sequence", "connection_epoch", "sent_at_ms", "path_present", "path_id"}
          \subseteq Value
    BY DEF Value, MetaField
  <2> QED BY <2>1, TuplesAreSequences DEF MetaFields
<1>3. \A i, j \in 1..5 : MetaFields[i] = MetaFields[j] => i = j
  <2>1. 1..5 = {1, 2, 3, 4, 5}
    OBVIOUS
  <2> QED BY <1>1, <2>1
<1>4. Layout(MetaFields)
  BY <1>1, <1>2, <1>3 DEF Layout
<1>5. Size(MetaFields) = Width("sequence") + Width("connection_epoch") + Width("sent_at_ms")
                           + Width("path_present") + Width("path_id")
  BY <1>1, <1>4, SizeOfList
<1> QED BY <1>4, <1>5, WidthsAre DEF MetaField

LEMMA Tables ==
  ASSUME NEW k \in Kind
  PROVE  /\ Layout(WrittenFields[k]) /\ Size(WrittenFields[k]) <= 34
         /\ ReadFields[k] = WrittenFields[k]
<1>1. ReadFields[k] = WrittenFields[k]
  BY DEF ReadFields, WrittenFields
<1>2. /\ IdField \subseteq Value /\ IpField \subseteq Value /\ PortField \subseteq Value
      /\ \A a \in IdField, b \in IdField \cup IpField, c \in PortField : a # c /\ b # c
  BY DEF Value, IdField, IpField, PortField
<1> DEFINE fields == WrittenFields[k]
<1>3. CASE \E a \in IdField, b \in PortField : fields = <<a, b>>
  <2> PICK a \in IdField, b \in PortField : fields = <<a, b>>
    BY <1>3
  <2> HIDE DEF fields
  <2>1. Layout(fields)
    <3>1. a # b /\ a \in Value /\ b \in Value
      BY <1>2
    <3> QED BY <3>1, LayoutOfTwo
  <2>2. Len(fields) = 2 /\ fields[1] = a /\ fields[2] = b
    OBVIOUS
  <2>3. Size(fields) = 16 + 2
    BY <2>1, <2>2, SizeOfList, WidthsAre
  <2> QED BY <1>1, <2>1, <2>3 DEF fields
<1>4. CASE \E a \in IdField, b \in IdField \cup IpField, c \in PortField :
             a # b /\ fields = <<a, b, c>>
  <2> PICK a \in IdField, b \in IdField \cup IpField, c \in PortField :
             a # b /\ fields = <<a, b, c>>
    BY <1>4
  <2> HIDE DEF fields
  <2>1. Layout(fields)
    <3>1. a # c /\ b # c /\ a \in Value /\ b \in Value /\ c \in Value
      BY <1>2
    <3> QED BY <3>1, LayoutOfThree
  <2>2. Len(fields) = 3 /\ fields[1] = a /\ fields[2] = b /\ fields[3] = c
    OBVIOUS
  <2>3. Size(fields) = 16 + Width(b) + 2 /\ Width(b) \in {4, 16}
    BY <2>1, <2>2, SizeOfList, WidthsAre
  <2> QED BY <1>1, <2>1, <2>3 DEF fields
<1>5. CASE fields = <<"request_id">>
  <2> HIDE DEF fields
  <2>1. Layout(fields)
    <3>1. "request_id" \in Value
      BY DEF Value, IdField
    <3> QED BY <1>5, <3>1, LayoutOfOne
  <2>2. Len(fields) = 1 /\ fields[1] \in IdField
    BY <1>5 DEF IdField
  <2>3. Size(fields) = 16
    BY <2>1, <2>2, SizeOfList, WidthsAre
  <2> QED BY <1>1, <2>1, <2>3 DEF fields
<1>6. \/ k \in {"DiscoveryRequest", "GameplayPacket"}
      \/ k \in {"DiscoveryToHost", "DiscoveryResponse", "DiscoveryToClient", "GameplayToPeer"}
      \/ k \in {"RelayProbe", "RelayProbeAck"}
  BY DEF Kind, WrittenFields
<1>7. CASE k \in {"DiscoveryRequest", "GameplayPacket"}
  <2>1. fields \in {<<"request_id", "destination_port">>, <<"session_id", "source_port">>}
    BY <1>7 DEF WrittenFields
  <2> HIDE DEF fields
  <2> QED BY <1>3, <2>1 DEF IdField, PortField
<1>8. CASE k \in {"DiscoveryToHost", "DiscoveryResponse", "DiscoveryToClient", "GameplayToPeer"}
  <2>1. fields \in {<<"request_id", "source_virtual_ip", "destination_port">>,
                    <<"request_id", "host_session_id", "source_port">>,
                    <<"request_id", "host_virtual_ip", "source_port">>,
                    <<"session_id", "source_virtual_ip", "destination_port">>}
    BY <1>8 DEF WrittenFields
  <2> HIDE DEF fields
  <2> QED BY <1>4, <2>1 DEF IdField, IpField, PortField
<1>9. CASE k \in {"RelayProbe", "RelayProbeAck"}
  <2>1. fields = <<"request_id">>
    BY <1>9 DEF WrittenFields
  <2> HIDE DEF fields
  <2> QED BY <1>5, <2>1
<1> QED BY <1>6, <1>7, <1>8, <1>9

-----------------------------------------------------------------------------
(* The codec.                                                               *)

LEMMA TailOfJoin ==
  ASSUME NEW S, NEW s \in Seq(S), NEW t \in Seq(S)
  PROVE  SubSeq(s \o t, Len(s) + 1, Len(s \o t)) = t
<1>1. Len(s \o t) = Len(s) + Len(t) /\ Len(s) \in Nat /\ Len(t) \in Nat
  BY ConcatProperties, LenProperties
<1>2. CASE t = <<>>
  <2>1. Len(t) = 0
    BY <1>2
  <2>2. Len(s \o t) < Len(s) + 1 /\ Len(s) + 1 \in Int /\ Len(s \o t) \in Int
    BY <1>1, <2>1
  <2>3. SubSeq(s \o t, Len(s) + 1, Len(s \o t)) = <<>>
    BY <2>2, SubSeqEmpty
  <2> QED BY <1>2, <2>3
<1>3. CASE t # <<>>
  <2>1. Len(t) \in Nat \ {0}
    BY <1>3, EmptySeq
  <2>2. /\ Len(s) + 1 \in Len(s) + 1..Len(s) + Len(t)
        /\ Len(s) + Len(t) \in Len(s) + 1..Len(s) + Len(t)
        /\ Len(s) + 1 - Len(s) = 1 /\ Len(s) + Len(t) - Len(s) = Len(t)
    BY <1>1, <2>1
  <2>3. SubSeq(s \o t, Len(s) + 1, Len(s) + Len(t)) = SubSeq(t, 1, Len(t))
    BY <2>2, SubSeqOfConcat2
  <2> QED BY <1>1, <2>3, SubSeqFull
<1> QED BY <1>2, <1>3

LEMMA ReadIsTyped ==
  ASSUME NEW fields, Layout(fields), NEW bytes \in Seq(Byte), Len(bytes) >= Size(fields)
  PROVE  Read(fields, bytes) \in [ToSet(fields) -> Value]
<1> DEFINE index == [f \in ToSet(fields) |-> CHOOSE i \in DOMAIN fields : fields[i] = f]
           part(f) == SubSeq(bytes, Ends(fields)[index[f]] - Width(f) + 1, Ends(fields)[index[f]])
<1>1. Read(fields, bytes) = [f \in ToSet(fields) |-> ValueOf(part(f))]
  BY DEF Read
<1>2. ASSUME NEW f \in ToSet(fields) PROVE ValueOf(part(f)) \in Value
  <2>1. PICK i \in 1..Len(fields) : fields[i] = f
    BY LayoutFacts
  <2>2. index[f] = i
    BY <2>1, LayoutFacts DEF Layout
  <2> DEFINE to == Ends(fields)[i]
             n  == Width(f)
  <2>3. /\ to \in Nat /\ n \in Nat \ {0} /\ to - n \in Nat /\ to <= Len(bytes)
        /\ Len(bytes) \in Nat
    <3>1. i \in 0..Len(fields) /\ i - 1 \in 0..Len(fields) /\ Len(bytes) \in Nat
      BY LayoutFacts
    <3>2. /\ to \in Nat /\ to <= Size(fields) /\ Ends(fields)[i - 1] \in Nat
          /\ to = Ends(fields)[i - 1] + n /\ n \in Nat \ {0} /\ Size(fields) \in Nat
      BY <2>1, <3>1, EndsFacts, WidthFacts
    <3> HIDE DEF to, n
    <3> QED BY <3>1, <3>2
  <2>4. part(f) = SubSeq(bytes, to - n + 1, to)
    BY <2>2
  <2> HIDE DEF part, to, n
  <2>5. part(f) \in Seq(Byte) /\ part(f)[1] \in Byte
    <3>1. to - n + 1 \in Int /\ to \in Int /\ to - n + 1 <= to
          /\ to - (to - n + 1) + 1 = n
      BY <2>3
    <3>2. \A x \in to - n + 1..to : bytes[x] \in Byte
      <4>1. \A x \in to - n + 1..to : x \in 1..Len(bytes)
        BY <2>3
      <4> QED BY <4>1, ElementOfSeq
    <3>3. part(f) \in Seq(Byte) /\ Len(part(f)) = n
      BY <2>4, <3>1, <3>2, SubSeqProperties
    <3>4. 1 \in 1..Len(part(f))
      BY <2>3, <3>3
    <3> QED BY <3>3, <3>4, ElementOfSeq
  <2>6. part(f)[1][1] \in Value /\ "garbled" \in Value
    <3>1. part(f)[1][1] \in Value
      BY <2>5 DEF Byte
    <3> QED BY <3>1 DEF Value
  <2> QED BY <2>6 DEF ValueOf
<1> HIDE DEF part
<1> QED BY <1>1, <1>2

Metadata == [sequence : Value, connection_epoch : Value, sent_at_ms : Value, path : Value]

(* read_meta reads what write_meta wrote.                                   *)
LEMMA MetaRoundTrip ==
  ASSUME NEW meta \in Metadata, NEW rest \in Seq(Byte)
  PROVE  /\ WriteMeta(meta) \in Seq(Byte) /\ Len(WriteMeta(meta)) = 26
         /\ ReadMeta(WriteMeta(meta) \o rest) = {meta}
<1> DEFINE value == [sequence |-> meta.sequence, connection_epoch |-> meta.connection_epoch,
                     sent_at_ms |-> meta.sent_at_ms,
                     path_present |-> IF meta.path = "none" THEN "0" ELSE "1",
                     path_id |-> IF meta.path = "none" THEN "0" ELSE meta.path]
<1>1. /\ value["sequence"] = meta.sequence
      /\ value["connection_epoch"] = meta.connection_epoch
      /\ value["sent_at_ms"] = meta.sent_at_ms
      /\ value["path_present"] = IF meta.path = "none" THEN "0" ELSE "1"
      /\ value["path_id"] = IF meta.path = "none" THEN "0" ELSE meta.path
  OBVIOUS
<1>2. ToSet(MetaFields) = {"sequence", "connection_epoch", "sent_at_ms", "path_present",
                           "path_id"}
  <2>1. /\ MetaFields[1] = "sequence" /\ MetaFields[2] = "connection_epoch"
        /\ MetaFields[3] = "sent_at_ms" /\ MetaFields[4] = "path_present"
        /\ MetaFields[5] = "path_id" /\ Len(MetaFields) = 5
    BY DEF MetaFields
  <2>2. 1..5 = {1, 2, 3, 4, 5}
    OBVIOUS
  <2> QED BY <2>1, <2>2, MetaLayout, LayoutFacts
<1>3. WriteMeta(meta) = Write(MetaFields, value)
  BY DEF WriteMeta
<1>4. \A f \in ToSet(MetaFields) : value[f] \in Value
  <2>1. "0" \in Value /\ "1" \in Value
    BY DEF Value
  <2> HIDE DEF value
  <2> QED BY <1>1, <1>2, <2>1 DEF Metadata
<1> HIDE DEF value
<1>5. WriteMeta(meta) \in Seq(Byte) /\ Len(WriteMeta(meta)) = 26
  BY <1>3, <1>4, MetaLayout, WriteFacts
<1>6. Read(MetaFields, WriteMeta(meta) \o rest) = [f \in ToSet(MetaFields) |-> value[f]]
  BY <1>3, <1>4, MetaLayout, ReadWhatWasWritten
<1>7. ReadMeta(WriteMeta(meta) \o rest) = {meta}
  <2> DEFINE read == Read(MetaFields, WriteMeta(meta) \o rest)
             of(p) == [sequence |-> read.sequence, connection_epoch |-> read.connection_epoch,
                       sent_at_ms |-> read.sent_at_ms,
                       path |-> IF p = "1" THEN read.path_id ELSE "none"]
  <2>1. ReadMeta(WriteMeta(meta) \o rest) = {of(p) : p \in {read.path_present} \cap {"0", "1"}}
    BY DEF ReadMeta
  <2>2. /\ read.sequence = meta.sequence /\ read.connection_epoch = meta.connection_epoch
        /\ read.sent_at_ms = meta.sent_at_ms
        /\ read.path_present = IF meta.path = "none" THEN "0" ELSE "1"
        /\ read.path_id = IF meta.path = "none" THEN "0" ELSE meta.path
    BY <1>1, <1>2, <1>6
  <2> HIDE DEF read
  <2>3. of(read.path_present) = meta
    BY <2>2 DEF Metadata
  <2>4. read.path_present \in {"0", "1"}
    BY <2>2
  <2> HIDE DEF of
  <2> QED BY <2>1, <2>3, <2>4
<1> QED BY <1>5, <1>7

MetaSize(version) == IF version = 2 THEN 26 ELSE 0

IsMessage(m) ==
  /\ m = [kind |-> m.kind, fields |-> m.fields, payload |-> m.payload]
  /\ m.kind \in Kind /\ m.fields \in [ToSet(WrittenFields[m.kind]) -> Value]
  /\ m.payload \in Seq(Byte) /\ (m.kind \in ProbeKind => m.payload = <<>>)

IsEnvelope(e) ==
  /\ e = [meta |-> e.meta, message |-> e.message]
  /\ e.meta \in Metadata /\ IsMessage(e.message)

(* What version 1 cannot say.                                               *)
Fits(e, version) == version \in {1, 2} /\ (version = 1 => e.meta = DefaultMeta)

Datagram == [magic : BOOLEAN, version : Nat, kind : Kind \cup {"none"}, declared : Nat,
             body : Seq(Byte)]

LEMMA DefaultMetaIsTyped == DefaultMeta \in Metadata
<1>1. "0" \in Value /\ "none" \in Value
  BY DEF Value
<1> QED BY <1>1 DEF DefaultMeta, Metadata

LEMMA PayloadBound == MaxPayload \in Nat /\ SafePayload \in Nat /\ Slack \in Nat
  BY EnvelopeAssumption

(* The metadata in front of the fields: none in version 1.                  *)
HeadOf(e, version) == IF version = 2 THEN WriteMeta(e.meta) ELSE <<>>

LEMMA HeadFacts ==
  ASSUME NEW e, IsEnvelope(e), NEW version \in {1, 2}
  PROVE  HeadOf(e, version) \in Seq(Byte) /\ Len(HeadOf(e, version)) = MetaSize(version)
<1>1. /\ WriteMeta(e.meta) \in Seq(Byte) /\ Len(WriteMeta(e.meta)) = 26
  <2>1. e.meta \in Metadata /\ <<>> \in Seq(Byte)
    BY EmptySeq DEF IsEnvelope
  <2> QED BY <2>1, MetaRoundTrip
<1>2. <<>> \in Seq(Byte) /\ Len(<<>>) = 0
  BY EmptySeq
<1>3. CASE version = 2
  <2>1. HeadOf(e, version) = WriteMeta(e.meta) /\ MetaSize(version) = 26
    BY <1>3 DEF HeadOf, MetaSize
  <2> QED BY ONLY <1>1, <2>1
<1>4. CASE version # 2
  <2>1. HeadOf(e, version) = <<>> /\ MetaSize(version) = 0
    BY <1>4 DEF HeadOf, MetaSize
  <2> QED BY ONLY <1>2, <2>1
<1> QED BY <1>3, <1>4

(* What encode_packet makes: metadata, fields, payload.                     *)
LEMMA EncodeFacts ==
  ASSUME NEW e, IsEnvelope(e), NEW version \in {1, 2}, NEW d \in Encode(e, version)
  PROVE  LET message == e.message
             head    == IF version = 2 THEN WriteMeta(e.meta) ELSE <<>>
             fields  == Write(WrittenFields[message.kind], message.fields)
         IN  /\ d \in Datagram /\ d.magic /\ d.version = version /\ d.kind = message.kind
             /\ d.declared = Len(d.body)
             /\ head \in Seq(Byte) /\ Len(head) = MetaSize(version)
             /\ fields \in Seq(Byte) /\ Len(fields) = Size(WrittenFields[message.kind])
             /\ d.body = head \o (fields \o message.payload)
             /\ Len(d.body) = MetaSize(version) + Size(WrittenFields[message.kind])
                                + Len(message.payload)
             /\ Len(message.payload) <= MaxPayload
<1> DEFINE message == e.message
           head    == IF version = 2 THEN WriteMeta(e.meta) ELSE <<>>
           fields  == Write(WrittenFields[message.kind], message.fields)
           payload == message.payload
           body    == head \o fields \o payload
<1>1. /\ d = [magic |-> TRUE, version |-> version, kind |-> message.kind,
              declared |-> Len(body), body |-> body]
      /\ Len(message.payload) <= MaxPayload
  BY DEF Encode
<1>2. head \in Seq(Byte) /\ Len(head) = MetaSize(version)
  BY HeadFacts DEF HeadOf
<1>3. fields \in Seq(Byte) /\ Len(fields) = Size(WrittenFields[message.kind])
  <2>1. /\ message.kind \in Kind
        /\ message.fields \in [ToSet(WrittenFields[message.kind]) -> Value]
    BY DEF IsEnvelope, IsMessage
  <2>2. \A f \in ToSet(WrittenFields[message.kind]) : message.fields[f] \in Value
    BY <2>1
  <2> QED BY <2>1, <2>2, Tables, WriteFacts
<1>4. payload \in Seq(Byte) /\ message.kind \in Kind
  BY DEF IsEnvelope, IsMessage
<1> HIDE DEF head, fields, payload
<1>5. /\ body = head \o (fields \o payload) /\ body \in Seq(Byte)
      /\ Len(body) = Len(head) + Len(fields) + Len(payload)
  <2>1. (head \o fields) \o payload = head \o (fields \o payload)
    BY <1>2, <1>3, <1>4, ConcatAssociative
  <2>2. head \o fields \in Seq(Byte) /\ Len(head \o fields) = Len(head) + Len(fields)
    BY <1>2, <1>3, ConcatProperties
  <2>3. /\ (head \o fields) \o payload \in Seq(Byte)
        /\ Len((head \o fields) \o payload) = Len(head \o fields) + Len(payload)
    BY <2>2, <1>4, ConcatProperties
  <2> QED BY <2>1, <2>2, <2>3
<1> HIDE DEF body
<1>6. Len(body) \in Nat
  BY <1>5
<1>7. d \in Datagram /\ d.body = body /\ d.declared = Len(body)
  <2>1. version \in Nat
    OBVIOUS
  <2> QED BY <1>1, <1>4, <1>5, <1>6, <2>1 DEF Datagram
<1>8. d.magic /\ d.version = version /\ d.kind = message.kind
  BY <1>1
<1> QED BY <1>1, <1>2, <1>3, <1>5, <1>7, <1>8 DEF head, fields, payload

LEMMA EncodeSize ==
  ASSUME NEW e, IsEnvelope(e), NEW version \in {1, 2}, NEW d \in Encode(e, version)
  PROVE  /\ d.declared = Len(d.body)
         /\ Len(d.body) = MetaSize(version) + Size(WrittenFields[e.message.kind])
                            + Len(e.message.payload)
  BY EncodeFacts

LEMMA RestOfSequence ==
  ASSUME NEW S, NEW s \in Seq(S), NEW n \in 0..Len(s)
  PROVE  /\ SubSeq(s, n + 1, Len(s)) \in Seq(S)
         /\ Len(SubSeq(s, n + 1, Len(s))) = Len(s) - n
<1>1. Len(s) \in Nat /\ n + 1 \in Int /\ Len(s) \in Int
  BY LenProperties
<1>2. \A i \in n + 1..Len(s) : s[i] \in S
  <2>1. \A i \in n + 1..Len(s) : i \in 1..Len(s)
    BY <1>1
  <2> QED BY <2>1, ElementOfSeq
<1>3. /\ SubSeq(s, n + 1, Len(s)) \in Seq(S)
      /\ Len(SubSeq(s, n + 1, Len(s))) = IF n + 1 <= Len(s) THEN Len(s) - (n + 1) + 1 ELSE 0
  BY <1>1, <1>2, SubSeqProperties
<1> QED BY <1>1, <1>3

LEMMA ReadMetaIsTyped ==
  ASSUME NEW bytes \in Seq(Byte), Len(bytes) >= 26
  PROVE  ReadMeta(bytes) \subseteq Metadata
<1> DEFINE read == Read(MetaFields, bytes)
<1>1. read \in [ToSet(MetaFields) -> Value]
  BY MetaLayout, ReadIsTyped
<1>2. {"sequence", "connection_epoch", "sent_at_ms", "path_present", "path_id"}
        \subseteq ToSet(MetaFields)
  <2>1. /\ MetaFields[1] = "sequence" /\ MetaFields[2] = "connection_epoch"
        /\ MetaFields[3] = "sent_at_ms" /\ MetaFields[4] = "path_present"
        /\ MetaFields[5] = "path_id" /\ Len(MetaFields) = 5
    BY DEF MetaFields
  <2>2. 1..5 = {1, 2, 3, 4, 5}
    OBVIOUS
  <2> QED BY <2>1, <2>2, MetaLayout, LayoutFacts
<1>3. /\ read.sequence \in Value /\ read.connection_epoch \in Value
      /\ read.sent_at_ms \in Value /\ read.path_id \in Value /\ "none" \in Value
  <2>1. "none" \in Value
    BY DEF Value
  <2> HIDE DEF read
  <2> QED BY <1>1, <1>2, <2>1
<1> QED BY <1>3 DEF ReadMeta, Metadata

(* What decode_packet accepts: it takes all the bytes.                      *)
LEMMA DecodeFacts ==
  ASSUME NEW d \in Datagram, NEW e \in Decode(d)
  PROVE  /\ IsEnvelope(e) /\ Fits(e, d.version) /\ e.message.kind = d.kind
         /\ d.declared = Len(d.body)
         /\ Len(d.body) = MetaSize(d.version) + Size(WrittenFields[d.kind])
                            + Len(e.message.payload)
         /\ Len(e.message.payload) <= MaxPayload
<1> DEFINE metaSize == MetaSize(d.version)
           metas    == IF d.version = 2 THEN ReadMeta(d.body) ELSE {DefaultMeta}
           fields   == WrittenFields[d.kind]
           rest     == SubSeq(d.body, metaSize + 1, Len(d.body))
           payload  == SubSeq(rest, Size(fields) + 1, Len(rest))
<1>1. /\ d.kind \in Kind /\ d.version \in {1, 2} /\ d.declared = Len(d.body)
      /\ Len(d.body) >= metaSize + Size(fields)
      /\ PayloadFits(d.kind, payload)
      /\ \E m \in metas : e = [meta |-> m, message |-> [kind |-> d.kind,
                                fields |-> Read(fields, rest), payload |-> payload]]
  <2>1. d.kind \in Kind
    BY DEF Decode
  <2>2. ReadFields[d.kind] = fields /\ Size(MetaFields) = 26
    BY <2>1, Tables, MetaLayout
  <2> QED BY <2>1, <2>2 DEF Decode, WellFramed, MetaSize
<1>2. /\ d.body \in Seq(Byte) /\ Len(d.body) \in Nat
      /\ Size(fields) \in Nat /\ Layout(fields) /\ metaSize \in {0, 26}
  <2>1. d.body \in Seq(Byte)
    BY DEF Datagram
  <2>2. Layout(fields)
    BY <1>1, Tables
  <2> QED BY <2>1, <2>2, EndsFacts, LenProperties DEF MetaSize
<1>3. metas \subseteq Metadata
  <2>1. CASE d.version = 2
    <3>1. Len(d.body) >= 26
      BY <1>1, <1>2, <2>1 DEF MetaSize
    <3> QED BY <1>2, <2>1, <3>1, ReadMetaIsTyped
  <2>2. CASE d.version # 2
    BY <2>2, DefaultMetaIsTyped
  <2> QED BY <2>1, <2>2
<1> HIDE DEF metaSize, fields
<1>4. rest \in Seq(Byte) /\ Len(rest) = Len(d.body) - metaSize
  <2>1. metaSize \in 0..Len(d.body)
    BY <1>1, <1>2
  <2> QED BY <1>2, <2>1, RestOfSequence
<1> HIDE DEF rest
<1>5. payload \in Seq(Byte) /\ Len(payload) = Len(rest) - Size(fields)
  <2>1. Size(fields) \in 0..Len(rest)
    BY <1>1, <1>2, <1>4
  <2> QED BY <1>4, <2>1, RestOfSequence
<1>6. Read(fields, rest) \in [ToSet(fields) -> Value]
  <2>1. Len(rest) >= Size(fields)
    BY <1>1, <1>2, <1>4
  <2> QED BY <1>2, <1>4, <2>1, ReadIsTyped
<1> HIDE DEF payload, metas
<1>7. Len(payload) <= MaxPayload /\ (d.kind \in ProbeKind => payload = <<>>)
  <2>1. Len(<<>>) = 0 /\ MaxPayload \in Nat
    BY PayloadBound
  <2> QED BY <1>1, <2>1 DEF PayloadFits
<1>8. PICK m \in metas : e = [meta |-> m, message |-> [kind |-> d.kind,
                                fields |-> Read(fields, rest), payload |-> payload]]
  BY <1>1
<1>9. IsEnvelope(e)
  BY <1>1, <1>3, <1>5, <1>6, <1>7, <1>8 DEF IsEnvelope, IsMessage, fields
<1>10. Fits(e, d.version)
  BY <1>1, <1>8 DEF Fits, metas
<1>11. Len(d.body) = metaSize + Size(fields) + Len(payload)
  BY <1>2, <1>4, <1>5
<1> QED BY <1>1, <1>7, <1>8, <1>9, <1>10, <1>11 DEF fields, metaSize

-----------------------------------------------------------------------------
(* There is room for the ids and the metadata: the metadata has 26 bytes,   *)
(* the fields have at most 34, and the length of the body is a u16.  In the *)
(* code the payload has 4096 bytes and the room is 64.                      *)
RoomForIds == Slack > 60 /\ MaxPayload + Slack <= MaxBody

LEMMA EnvelopeSize ==
  ASSUME NEW k \in Kind, NEW version
  PROVE  MetaSize(version) + Size(WrittenFields[k]) \in 0..60
<1>1. Size(WrittenFields[k]) \in Nat /\ Size(WrittenFields[k]) <= 34
  BY Tables, EndsFacts
<1> QED BY <1>1 DEF MetaSize

LEMMA EncodeSucceeds ==
  ASSUME RoomForIds, NEW e, IsEnvelope(e), NEW version \in {1, 2},
         Len(e.message.payload) <= MaxPayload
  PROVE  Encode(e, version) # {}
<1> DEFINE message == e.message
           head    == IF version = 2 THEN WriteMeta(e.meta) ELSE <<>>
           fields  == Write(WrittenFields[message.kind], message.fields)
           body    == head \o fields \o message.payload
<1>1. head \in Seq(Byte) /\ Len(head) = MetaSize(version)
  BY HeadFacts DEF HeadOf
<1>2. /\ message.kind \in Kind /\ message.payload \in Seq(Byte)
      /\ \A f \in ToSet(WrittenFields[message.kind]) : message.fields[f] \in Value
  BY DEF IsEnvelope, IsMessage
<1>3. fields \in Seq(Byte) /\ Len(fields) = Size(WrittenFields[message.kind])
  BY <1>2, Tables, WriteFacts
<1> DEFINE payload == message.payload
<1>4. payload \in Seq(Byte) /\ Len(payload) \in Nat /\ Len(payload) <= MaxPayload
  BY <1>2, LenProperties
<1>5. MetaSize(version) + Size(WrittenFields[message.kind]) \in 0..60
  BY <1>2, EnvelopeSize
<1>6. body = head \o fields \o payload
  OBVIOUS
<1> HIDE DEF head, fields, payload, body
<1>7. Len(body) <= MaxBody
  <2>1. head \o fields \in Seq(Byte) /\ Len(head \o fields) = Len(head) + Len(fields)
    BY <1>1, <1>3, ConcatProperties
  <2>2. Len(body) = Len(head \o fields) + Len(payload)
    BY <1>4, <1>6, <2>1, ConcatProperties
  <2>3. Len(head \o fields) \in 0..60
    BY <1>1, <1>3, <1>5, <2>1
  <2>4. Len(body) <= 60 + MaxPayload /\ Len(body) \in Nat
    <3> DEFINE before == Len(head \o fields)
               n      == Len(payload)
    <3>1. Len(body) = before + n /\ before \in 0..60 /\ n \in Nat /\ n <= MaxPayload
      BY <1>4, <2>2, <2>3
    <3> HIDE DEF before, n
    <3> QED BY <3>1, PayloadBound
  <2> QED BY <2>4, PayloadBound DEF RoomForIds, MaxBody
<1>8. \E b \in {body} : Len(message.payload) <= MaxPayload /\ Len(b) <= MaxBody
  BY <1>7
<1> QED BY <1>8 DEF Encode, body, head, fields

(* What fits is taken whole, and what does not fit is never read: with a    *)
(* full buffer there would be more payload than there may be.               *)
LEMMA BufferTakesAll ==
  ASSUME NEW d \in Datagram, Len(d.body) <= MaxPayload + Slack
  PROVE  Buffered(d) = d
<1>1. MaxRelayDatagram - HeaderSize = MaxPayload + Slack
  BY PayloadBound DEF MaxRelayDatagram, HeaderSize
<1>2. d.body \in Seq(Byte) /\ Len(d.body) \in Nat
  BY LenProperties DEF Datagram
<1>3. Min({Len(d.body), MaxPayload + Slack}) = Len(d.body)
  BY <1>2, PayloadBound DEF Min
<1>4. SubSeq(d.body, 1, Len(d.body)) = d.body
  BY <1>2, SubSeqFull
<1>5. [d EXCEPT !.body = d.body] = d
  BY DEF Datagram
<1> QED BY <1>1, <1>3, <1>4, <1>5 DEF Buffered

LEMMA BufferIsTyped ==
  ASSUME NEW d \in Datagram
  PROVE  /\ Buffered(d) \in Datagram /\ Buffered(d).kind = d.kind
         /\ Buffered(d).version = d.version
         /\ Len(d.body) > MaxPayload + Slack => Len(Buffered(d).body) = MaxPayload + Slack
<1> DEFINE room == MaxPayload + Slack
           cut  == SubSeq(d.body, 1, Min({Len(d.body), room}))
<1>1. MaxRelayDatagram - HeaderSize = room
  BY PayloadBound DEF MaxRelayDatagram, HeaderSize
<1>2. d.body \in Seq(Byte) /\ Len(d.body) \in Nat /\ room \in Nat
  BY LenProperties, PayloadBound DEF Datagram
<1>3. Buffered(d) = [d EXCEPT !.body = cut]
  BY <1>1 DEF Buffered
<1> HIDE DEF room
<1>4. /\ Min({Len(d.body), room}) \in 0..Len(d.body)
      /\ Len(d.body) > room => Min({Len(d.body), room}) = room
  BY <1>2 DEF Min
<1> DEFINE m == Min({Len(d.body), room})
<1> HIDE DEF m
<1>5. SubSeq(d.body, 1, m) \in Seq(Byte) /\ Len(SubSeq(d.body, 1, m)) = m
  <2>1. \A i \in 1..m : d.body[i] \in Byte
    <3>1. \A i \in 1..m : i \in 1..Len(d.body)
      BY <1>2, <1>4 DEF m
    <3> QED BY <1>2, <3>1, ElementOfSeq
  <2>2. 1 \in Int /\ m \in Nat
    BY <1>2, <1>4 DEF m
  <2>3. SubSeq(d.body, 1, m) \in Seq(Byte)
        /\ Len(SubSeq(d.body, 1, m)) = IF 1 <= m THEN m - 1 + 1 ELSE 0
    BY <2>1, <2>2, SubSeqProperties
  <2> QED BY <2>2, <2>3
<1>6. cut \in Seq(Byte) /\ (Len(d.body) > room => Len(cut) = room)
  BY <1>4, <1>5 DEF m
<1> HIDE DEF cut
<1> QED BY <1>3, <1>6 DEF Datagram, room

LEMMA NothingReadIsCut ==
  ASSUME RoomForIds, NEW d \in Datagram, NEW e \in Decode(Buffered(d))
  PROVE  Buffered(d) = d
<1>1. CASE Len(d.body) <= MaxPayload + Slack
  BY <1>1, BufferTakesAll
<1>2. CASE ~(Len(d.body) <= MaxPayload + Slack)
  <2>1. Len(d.body) > MaxPayload + Slack
    <3>1. Len(d.body) \in Nat
      BY LenProperties DEF Datagram
    <3> QED BY <1>2, <3>1, PayloadBound
  <2>2. Buffered(d) \in Datagram /\ Len(Buffered(d).body) = MaxPayload + Slack
    BY <2>1, BufferIsTyped
  <2>3. /\ Len(Buffered(d).body) = MetaSize(d.version) + Size(WrittenFields[d.kind])
                                     + Len(e.message.payload)
        /\ Len(e.message.payload) <= MaxPayload /\ e.message.kind = d.kind /\ IsEnvelope(e)
    BY <2>2, BufferIsTyped, DecodeFacts
  <2>4. /\ d.kind \in Kind /\ Len(e.message.payload) \in Nat
    BY <2>3, LenProperties DEF IsEnvelope, IsMessage
  <2>5. MetaSize(d.version) + Size(WrittenFields[d.kind]) \in 0..60
    BY <2>4, EnvelopeSize
  <2> DEFINE before == MetaSize(d.version) + Size(WrittenFields[d.kind])
             n      == Len(e.message.payload)
  <2>6. MaxPayload + Slack = before + n /\ n <= MaxPayload /\ n \in Nat /\ before \in 0..60
    BY <2>2, <2>3, <2>4, <2>5
  <2> HIDE DEF before, n
  <2> QED BY <2>6, PayloadBound DEF RoomForIds
<1> QED BY <1>1, <1>2

(* decode_packet reads what encode_packet wrote, through a buffer.          *)
LEMMA RoundTrip ==
  ASSUME RoomForIds, NEW e, IsEnvelope(e), NEW version, Fits(e, version),
         NEW d \in Encode(e, version)
  PROVE  Decode(Buffered(d)) = {e}
<1> DEFINE message == e.message
           layout  == WrittenFields[message.kind]
           head    == IF version = 2 THEN WriteMeta(e.meta) ELSE <<>>
           fields  == Write(layout, message.fields)
           payload == message.payload
<1>1. version \in {1, 2}
  BY DEF Fits
<1>2. /\ d \in Datagram /\ d.magic /\ d.version = version /\ d.kind = message.kind
      /\ d.declared = Len(d.body)
      /\ head \in Seq(Byte) /\ Len(head) = MetaSize(version)
      /\ fields \in Seq(Byte) /\ Len(fields) = Size(layout)
      /\ d.body = head \o (fields \o payload)
      /\ Len(d.body) = MetaSize(version) + Size(layout) + Len(payload)
      /\ Len(payload) <= MaxPayload
  BY <1>1, EncodeFacts
<1>3. /\ message.kind \in Kind /\ payload \in Seq(Byte)
      /\ message.fields \in [ToSet(layout) -> Value] /\ e.meta \in Metadata
      /\ (message.kind \in ProbeKind => payload = <<>>)
      /\ e = [meta |-> e.meta, message |-> message]
      /\ message = [kind |-> message.kind, fields |-> message.fields, payload |-> payload]
  BY DEF IsEnvelope, IsMessage
<1>4. Layout(layout) /\ ReadFields[message.kind] = layout /\ Size(layout) \in Nat
  BY <1>3, Tables, EndsFacts
<1>5. Len(payload) \in Nat /\ Len(d.body) \in Nat /\ Len(d.body) <= MaxPayload + Slack
  <2>1. MetaSize(version) + Size(layout) \in 0..60
    BY <1>3, EnvelopeSize
  <2>2. Len(payload) \in Nat
    BY <1>3, LenProperties
  <2> DEFINE before == MetaSize(version) + Size(layout)
             n      == Len(payload)
  <2>3. Len(d.body) = before + n /\ n <= MaxPayload /\ before \in 0..60 /\ n \in Nat
    BY <1>2, <2>1, <2>2
  <2> HIDE DEF before, n
  <2>4. Len(d.body) \in Nat /\ Len(d.body) <= MaxPayload + Slack
    BY <2>3, PayloadBound DEF RoomForIds
  <2> QED BY <2>2, <2>4
<1>6. Buffered(d) = d
  BY <1>2, <1>5, BufferTakesAll
<1>7. WellFramed(d) /\ PayloadFits(d.kind, payload)
  <2>1. HeaderSize + Len(d.body) <= MaxRelayDatagram
    BY <1>5, PayloadBound DEF HeaderSize, MaxRelayDatagram
  <2> QED BY <1>1, <1>2, <1>3, <2>1 DEF WellFramed, PayloadFits
<1> DEFINE join == fields \o payload
<1>8. join \in Seq(Byte) /\ Len(join) = Size(layout) + Len(payload)
  <2>1. fields \in Seq(Byte) /\ payload \in Seq(Byte) /\ Len(fields) = Size(layout)
    BY <1>2, <1>3
  <2> HIDE DEF fields, payload, layout
  <2> QED BY <2>1, ConcatProperties
<1>9. SubSeq(d.body, MetaSize(version) + 1, Len(d.body)) = join
  <2> HIDE DEF head, join
  <2>1. SubSeq(head \o join, Len(head) + 1, Len(head \o join)) = join
    BY <1>2, <1>8, TailOfJoin
  <2> QED BY <1>2, <2>1 DEF join
<1>10. SubSeq(join, Size(layout) + 1, Len(join)) = payload
  <2> HIDE DEF fields, payload
  <2>1. SubSeq(fields \o payload, Len(fields) + 1, Len(fields \o payload)) = payload
    BY <1>2, <1>3, TailOfJoin
  <2> QED BY <1>2, <2>1
<1>11. Read(layout, join) = message.fields
  <2>1. \A f \in ToSet(layout) : message.fields[f] \in Value
    BY <1>3
  <2>2. Read(layout, join) = [f \in ToSet(layout) |-> message.fields[f]]
    BY <1>3, <1>4, <2>1, ReadWhatWasWritten
  <2> QED BY <1>3, <2>2
<1>12. (IF d.version = 2 THEN ReadMeta(d.body) ELSE {DefaultMeta}) = {e.meta}
  <2>1. CASE version = 2
    <3>1. d.body = WriteMeta(e.meta) \o join
      BY <1>2, <2>1
    <3> HIDE DEF join
    <3>2. ReadMeta(d.body) = {e.meta}
      BY <1>3, <1>8, <3>1, MetaRoundTrip
    <3> QED BY <1>2, <2>1, <3>2
  <2>2. CASE version # 2
    BY <1>1, <1>2, <2>2 DEF Fits
  <2> QED BY <2>1, <2>2
<1>13. MetaSize(version) = IF d.version = 2 THEN Size(MetaFields) ELSE 0
  BY <1>2, MetaLayout DEF MetaSize
<1>14. Len(d.body) >= MetaSize(version) + Size(layout)
  <2> DEFINE m == MetaSize(version)
             n == Size(layout)
             p == Len(payload)
  <2>1. Len(d.body) = m + n + p /\ m \in Nat /\ n \in Nat /\ p \in Nat
    BY <1>2, <1>4, <1>5 DEF MetaSize
  <2> HIDE DEF m, n, p
  <2>2. Len(d.body) >= m + n
    BY <2>1
  <2> QED BY <2>2 DEF m, n
<1> HIDE DEF head, fields, payload, join, layout
<1>15. Decode(d) = {[meta |-> m, message |-> [kind |-> d.kind, fields |-> Read(layout, join),
                                             payload |-> payload]] : m \in {e.meta}}
  <2> DEFINE rest == SubSeq(d.body, MetaSize(version) + 1, Len(d.body))
  <2>1. rest = join /\ SubSeq(rest, Size(layout) + 1, Len(rest)) = payload
    BY <1>9, <1>10
  <2>2. ReadFields[d.kind] = layout /\ d.kind \in Kind
    BY <1>2, <1>3, <1>4
  <2> QED BY <1>7, <1>9, <1>12, <1>13, <1>14, <2>1, <2>2 DEF Decode
<1>16. Decode(d) = {e}
  BY <1>2, <1>3, <1>11, <1>15
<1> QED BY <1>6, <1>16

-----------------------------------------------------------------------------
(* What is sent and what is forwarded.                                      *)

LEMMA SetOfOne == \A a : ToSet(<<a>>) = {a}
  BY DEF ToSet

LEMMA SetOfTwo == \A a, b : ToSet(<<a, b>>) = {a, b}
<1> SUFFICES ASSUME NEW a, NEW b PROVE ToSet(<<a, b>>) = {a, b}
  OBVIOUS
<1>1. DOMAIN <<a, b>> = {1, 2}
  OBVIOUS
<1> QED BY <1>1 DEF ToSet

LEMMA SetOfThree == \A a, b, c : ToSet(<<a, b, c>>) = {a, b, c}
<1> SUFFICES ASSUME NEW a, NEW b, NEW c PROVE ToSet(<<a, b, c>>) = {a, b, c}
  OBVIOUS
<1>1. DOMAIN <<a, b, c>> = {1, 2, 3}
  OBVIOUS
<1> QED BY <1>1 DEF ToSet

LEMMA FieldSets ==
  /\ ToSet(WrittenFields["DiscoveryRequest"]) = {"request_id", "destination_port"}
  /\ ToSet(WrittenFields["DiscoveryToHost"])
       = {"request_id", "source_virtual_ip", "destination_port"}
  /\ ToSet(WrittenFields["DiscoveryResponse"])
       = {"request_id", "host_session_id", "source_port"}
  /\ ToSet(WrittenFields["DiscoveryToClient"])
       = {"request_id", "host_virtual_ip", "source_port"}
  /\ ToSet(WrittenFields["GameplayPacket"]) = {"session_id", "source_port"}
  /\ ToSet(WrittenFields["GameplayToPeer"])
       = {"session_id", "source_virtual_ip", "destination_port"}
  /\ ToSet(WrittenFields["RelayProbe"]) = {"request_id"}
  /\ ToSet(WrittenFields["RelayProbeAck"]) = {"request_id"}
<1>1. /\ WrittenFields["DiscoveryRequest"] = <<"request_id", "destination_port">>
      /\ WrittenFields["DiscoveryToHost"]
           = <<"request_id", "source_virtual_ip", "destination_port">>
      /\ WrittenFields["DiscoveryResponse"]
           = <<"request_id", "host_session_id", "source_port">>
      /\ WrittenFields["DiscoveryToClient"]
           = <<"request_id", "host_virtual_ip", "source_port">>
      /\ WrittenFields["GameplayPacket"] = <<"session_id", "source_port">>
      /\ WrittenFields["GameplayToPeer"]
           = <<"session_id", "source_virtual_ip", "destination_port">>
      /\ WrittenFields["RelayProbe"] = <<"request_id">>
      /\ WrittenFields["RelayProbeAck"] = <<"request_id">>
  BY DEF WrittenFields
<1>2. /\ ToSet(WrittenFields["DiscoveryRequest"]) = {"request_id", "destination_port"}
      /\ ToSet(WrittenFields["GameplayPacket"]) = {"session_id", "source_port"}
  BY <1>1, SetOfTwo, Zenon
<1>3. /\ ToSet(WrittenFields["RelayProbe"]) = {"request_id"}
      /\ ToSet(WrittenFields["RelayProbeAck"]) = {"request_id"}
  BY <1>1, SetOfOne, Zenon
<1>4. /\ ToSet(WrittenFields["DiscoveryToHost"])
           = {"request_id", "source_virtual_ip", "destination_port"}
      /\ ToSet(WrittenFields["DiscoveryResponse"])
           = {"request_id", "host_session_id", "source_port"}
  BY <1>1, SetOfThree, Zenon
<1>5. /\ ToSet(WrittenFields["DiscoveryToClient"])
           = {"request_id", "host_virtual_ip", "source_port"}
      /\ ToSet(WrittenFields["GameplayToPeer"])
           = {"session_id", "source_virtual_ip", "destination_port"}
  BY <1>1, SetOfThree, Zenon
<1> QED BY <1>2, <1>3, <1>4, <1>5

Forwarded(e) == [e EXCEPT !.message = Rewritten(@)]

LEMMA ForwardedIsEnvelope ==
  ASSUME NEW e, IsEnvelope(e), e.message.kind \in FromClient
  PROVE  IsEnvelope(Forwarded(e)) /\ Forwarded(e).message.payload = e.message.payload
<1> DEFINE message == e.message
           f       == message.fields
           to(kind, fields) == [kind |-> kind, fields |-> fields, payload |-> message.payload]
<1>1. /\ message.kind \in FromClient /\ message.payload \in Seq(Byte)
      /\ (message.kind \in ProbeKind => message.payload = <<>>)
      /\ f \in [ToSet(WrittenFields[message.kind]) -> Value]
      /\ e = [meta |-> e.meta, message |-> message] /\ e.meta \in Metadata
  BY DEF IsEnvelope, IsMessage
<1>2. "source_virtual_ip" \in Value /\ "host_virtual_ip" \in Value
  BY DEF Value, IpField
<1>3. {"DiscoveryToHost", "DiscoveryToClient", "GameplayToPeer", "RelayProbeAck"} \subseteq Kind
      /\ {"DiscoveryToHost", "DiscoveryToClient", "GameplayToPeer"} \cap ProbeKind = {}
      /\ "RelayProbe" \in ProbeKind
  BY DEF Kind, WrittenFields, ProbeKind
<1>4. IsMessage(Rewritten(message)) /\ Rewritten(message).payload = message.payload
  <2>1. CASE message.kind = "DiscoveryRequest"
    <3> DEFINE out == [request_id |-> f.request_id, source_virtual_ip |-> "source_virtual_ip",
                       destination_port |-> f.destination_port]
    <3>1. Rewritten(message) = to("DiscoveryToHost", out)
      BY <2>1 DEF Rewritten
    <3>2. f.request_id \in Value /\ f.destination_port \in Value
      BY <1>1, <2>1, FieldSets
    <3>3. out \in [ToSet(WrittenFields["DiscoveryToHost"]) -> Value]
      BY <1>2, <3>2, FieldSets
    <3> HIDE DEF out
    <3> QED BY <1>1, <1>3, <3>1, <3>3 DEF IsMessage
  <2>2. CASE message.kind = "DiscoveryResponse"
    <3> DEFINE out == [request_id |-> f.request_id, host_virtual_ip |-> "host_virtual_ip",
                       source_port |-> f.source_port]
    <3>1. Rewritten(message) = to("DiscoveryToClient", out)
      BY <2>2 DEF Rewritten
    <3>2. f.request_id \in Value /\ f.source_port \in Value
      BY <1>1, <2>2, FieldSets
    <3>3. out \in [ToSet(WrittenFields["DiscoveryToClient"]) -> Value]
      BY <1>2, <3>2, FieldSets
    <3> HIDE DEF out
    <3> QED BY <1>1, <1>3, <3>1, <3>3 DEF IsMessage
  <2>3. CASE message.kind = "GameplayPacket"
    <3> DEFINE out == [session_id |-> f.session_id, source_virtual_ip |-> "source_virtual_ip",
                       destination_port |-> f.source_port]
    <3>1. Rewritten(message) = to("GameplayToPeer", out)
      BY <2>3 DEF Rewritten
    <3>2. f.session_id \in Value /\ f.source_port \in Value
      BY <1>1, <2>3, FieldSets
    <3>3. out \in [ToSet(WrittenFields["GameplayToPeer"]) -> Value]
      BY <1>2, <3>2, FieldSets
    <3> HIDE DEF out
    <3> QED BY <1>1, <1>3, <3>1, <3>3 DEF IsMessage
  <2>4. CASE message.kind = "RelayProbe"
    <3> DEFINE out == [request_id |-> f.request_id]
    <3>1. Rewritten(message) = to("RelayProbeAck", out)
      BY <2>4 DEF Rewritten
    <3>2. f.request_id \in Value
      BY <1>1, <2>4, FieldSets
    <3>3. out \in [ToSet(WrittenFields["RelayProbeAck"]) -> Value]
      BY <3>2, FieldSets
    <3> HIDE DEF out
    <3> QED BY <1>1, <1>3, <2>4, <3>1, <3>3 DEF IsMessage
  <2> QED BY <1>1, <2>1, <2>2, <2>3, <2>4 DEF FromClient
<1>5. Forwarded(e) = [meta |-> e.meta, message |-> Rewritten(message)]
  BY <1>1 DEF Forwarded
<1> QED BY <1>1, <1>4, <1>5 DEF IsEnvelope

-----------------------------------------------------------------------------
(* The way of a datagram.  A genuine one is the encoding of what was        *)
(* composed; what was accepted is read from the datagram, and what is       *)
(* forwarded is the encoding of what was accepted.                          *)
EnvelopeIInv ==
  /\ datagram \in Datagram
  /\ genuine => /\ IsEnvelope(composed)
                /\ \E version \in {1, 2} :
                     Fits(composed, version) /\ datagram \in Encode(composed, version)
  /\ stage \in {"to_client", "received"} =>
       /\ accepted \in Decode(Buffered(datagram)) /\ accepted.message.kind \in FromClient
       /\ forwarded \in Encode(Forwarded(accepted), 2)
  /\ stage = "received" => received = Forwarded(accepted)
  /\ RelayOutputIsReadable
  /\ SafeIsForwarded

LEMMA NamedFieldsAreTyped ==
  ASSUME NEW k \in Kind
  PROVE  NamedFields(WrittenFields[k]) \in [ToSet(WrittenFields[k]) -> Value]
<1>1. ToSet(WrittenFields[k]) \subseteq Value
  BY Tables, LayoutFacts
<1> QED BY <1>1 DEF NamedFields

LEMMA MessagesAreTyped ==
  ASSUME NEW message \in Messages
  PROVE  IsMessage(message)
<1>1. "payload" \in Value /\ <<>> \in Seq(Byte)
  BY EmptySeq DEF Value
<1>2. \A n \in 0..MaxPayload + 1 : Bytes("payload", n) \in Seq(Byte)
  <2> SUFFICES ASSUME NEW n \in 0..MaxPayload + 1 PROVE Bytes("payload", n) \in Seq(Byte)
    OBVIOUS
  <2>1. n \in Nat
    BY PayloadBound
  <2> QED BY <1>1, <2>1, BytesFacts
<1>3. \E k \in Kind, payload \in Seq(Byte) :
        /\ k \in ProbeKind => payload = <<>>
        /\ message = [kind |-> k, fields |-> NamedFields(WrittenFields[k]),
                      payload |-> payload]
  <2>1. CASE \E k \in Kind \ ProbeKind, n \in 0..MaxPayload + 1 :
               message = [kind |-> k, fields |-> NamedFields(WrittenFields[k]),
                          payload |-> Bytes("payload", n)]
    BY <1>2, <2>1
  <2>2. CASE \E k \in ProbeKind :
               message = [kind |-> k, fields |-> NamedFields(WrittenFields[k]),
                          payload |-> <<>>]
    <3>1. ProbeKind \subseteq Kind
      BY DEF ProbeKind, Kind, WrittenFields
    <3> QED BY <1>1, <2>2, <3>1
  <2> QED BY <2>1, <2>2 DEF Messages
<1> QED BY <1>3, NamedFieldsAreTyped DEF IsMessage

LEMMA MetasAreTyped ==
  ASSUME NEW meta \in Metas \cup {DefaultMeta}
  PROVE  meta \in Metadata
<1>1. {"sequence", "connection_epoch", "sent_at_ms", "none", "wireguard"} \subseteq Value
  BY DEF Value, MetaField
<1>2. CASE meta \in Metas
  BY <1>1, <1>2 DEF Metas, Metadata
<1> QED BY <1>2, DefaultMetaIsTyped

LEMMA VariantsAreDatagrams ==
  ASSUME NEW d \in Datagram, NEW v \in Variants(d)
  PROVE  v \in Datagram
<1>1. d.body \in Seq(Byte) /\ Len(d.body) \in Nat /\ d.declared \in Nat
  BY LenProperties DEF Datagram
<1>2. \A n \in 0..Len(d.body) - 1 : n \in Nat /\ SubSeq(d.body, 1, n) \in Seq(Byte)
  <2> SUFFICES ASSUME NEW n \in 0..Len(d.body) - 1
               PROVE  n \in Nat /\ SubSeq(d.body, 1, n) \in Seq(Byte)
    OBVIOUS
  <2>1. n \in Nat /\ n \in Int /\ 1 \in Int /\ \A i \in 1..n : i \in 1..Len(d.body)
    BY <1>1
  <2>2. \A i \in 1..n : d.body[i] \in Byte
    BY <1>1, <2>1, ElementOfSeq
  <2> QED BY <2>1, <2>2, SubSeqProperties
<1>3. \A n \in 1..Slack + 2 : /\ d.body \o Bytes("padding", n) \in Seq(Byte)
                              /\ d.declared + n \in Nat
  <2> SUFFICES ASSUME NEW n \in 1..Slack + 2
               PROVE  d.body \o Bytes("padding", n) \in Seq(Byte) /\ d.declared + n \in Nat
    OBVIOUS
  <2>1. n \in Nat /\ "padding" \in Value
    BY PayloadBound DEF Value
  <2>2. Bytes("padding", n) \in Seq(Byte)
    BY <2>1, BytesFacts
  <2> QED BY <1>1, <2>1, <2>2, ConcatProperties
<1>4. CASE \E n \in 0..Len(d.body) - 1 : v = [d EXCEPT !.body = SubSeq(@, 1, n)]
  BY <1>2, <1>4 DEF Datagram
<1>5. CASE \E n \in 0..Len(d.body) - 1 :
             v = [d EXCEPT !.body = SubSeq(@, 1, n), !.declared = n]
  BY <1>2, <1>5 DEF Datagram
<1>6. CASE \E n \in 1..Slack + 2 : v = [d EXCEPT !.body = @ \o Bytes("padding", n)]
  BY <1>3, <1>6 DEF Datagram
<1>7. CASE \E n \in 1..Slack + 2 :
             v = [d EXCEPT !.body = @ \o Bytes("padding", n), !.declared = @ + n]
  BY <1>3, <1>7 DEF Datagram
<1>8. CASE \E k \in Kind \cup {"none"} : v = [d EXCEPT !.kind = k]
  BY <1>8 DEF Datagram
<1>9. CASE \E version \in 0..3 : v = [d EXCEPT !.version = version]
  <2>1. 0..3 \subseteq Nat
    OBVIOUS
  <2> QED BY <1>9, <2>1 DEF Datagram
<1>10. CASE v = [d EXCEPT !.magic = FALSE]
  BY <1>10 DEF Datagram
<1> QED BY <1>4, <1>5, <1>6, <1>7, <1>8, <1>9, <1>10 DEF Variants

-----------------------------------------------------------------------------
LEMMA EnvelopeStart == EnvelopeInit => EnvelopeIInv
<1> SUFFICES ASSUME EnvelopeInit PROVE EnvelopeIInv
  OBVIOUS
<1>1. datagram \in Datagram
  <2>1. <<>> \in Seq(Byte)
    BY EmptySeq
  <2> QED BY <2>1 DEF EnvelopeInit, Silence, Datagram
<1> QED BY <1>1 DEF EnvelopeInit, EnvelopeIInv, RelayOutputIsReadable, SafeIsForwarded

LEMMA ComposeStep == EnvelopeIInv /\ Compose => EnvelopeIInv'
<1> SUFFICES ASSUME EnvelopeIInv, Compose PROVE EnvelopeIInv'
  OBVIOUS
<1>1. PICK message \in Messages, meta \in Metas \cup {DefaultMeta}, version \in {1, 2} :
        /\ version = 1 <=> meta = DefaultMeta
        /\ composed' = [meta |-> meta, message |-> message]
        /\ datagram' \in Encode([meta |-> meta, message |-> message], version)
  BY DEF Compose
<1> DEFINE envelope == [meta |-> meta, message |-> message]
<1>2. IsEnvelope(envelope) /\ Fits(envelope, version)
  <2>1. IsMessage(message) /\ meta \in Metadata
    BY MessagesAreTyped, MetasAreTyped
  <2> QED BY <1>1, <2>1 DEF IsEnvelope, Fits
<1> HIDE DEF envelope
<1>3. datagram' \in Datagram
  <2>1. \A d \in Encode(envelope, version) : d \in Datagram
    BY <1>2, EncodeFacts
  <2> QED BY <1>1, <2>1 DEF envelope
<1>4. stage' = "to_relay" /\ genuine' = TRUE
  BY DEF Compose
<1> QED BY <1>1, <1>2, <1>3, <1>4
        DEF EnvelopeIInv, RelayOutputIsReadable, SafeIsForwarded, envelope

LEMMA OtherStep == EnvelopeIInv /\ Other => EnvelopeIInv'
<1> SUFFICES ASSUME EnvelopeIInv, Other PROVE EnvelopeIInv'
  OBVIOUS
<1>1. datagram' \in Datagram
  <2>1. \A d \in Datagram : \A v \in Variants(d) : v \in Datagram
    BY VariantsAreDatagrams
  <2> QED BY <2>1 DEF Other, EnvelopeIInv
<1> QED BY <1>1 DEF Other, EnvelopeIInv, RelayOutputIsReadable, SafeIsForwarded

(* The relay reads a genuine datagram as it was composed.                   *)
LEMMA GenuineIsRead ==
  ASSUME RoomForIds, EnvelopeIInv, genuine
  PROVE  Decode(Buffered(datagram)) = {composed}
<1>1. PICK version \in {1, 2} :
        Fits(composed, version) /\ datagram \in Encode(composed, version)
  BY DEF EnvelopeIInv
<1>2. IsEnvelope(composed)
  BY DEF EnvelopeIInv
<1> QED BY <1>1, <1>2, RoundTrip

LEMMA RelayDropsStep ==
  ASSUME RoomForIds, EnvelopeIInv, RelayDrops
  PROVE  EnvelopeIInv'
<1>1. SafeIsForwarded'
  <2> SUFFICES ASSUME genuine
               PROVE  \/ composed.message.kind \notin FromClient
                      \/ Len(composed.message.payload) > SafePayload
    BY DEF SafeIsForwarded, RelayDrops
  <2>1. composed.message.kind \notin FromClient \/ ~MayForward(composed.message)
    BY GenuineIsRead DEF RelayDrops
  <2>2. Len(composed.message.payload) <= MaxPayload /\ Len(composed.message.payload) \in Nat
    <3>1. PICK version \in {1, 2} : datagram \in Encode(composed, version)
      BY DEF EnvelopeIInv
    <3>2. IsEnvelope(composed)
      BY DEF EnvelopeIInv
    <3> QED BY <3>1, <3>2, EncodeFacts, LenProperties DEF IsEnvelope, IsMessage
  <2> QED BY <2>1, <2>2, PayloadBound DEF MayForward
<1> QED BY <1>1 DEF RelayDrops, EnvelopeIInv, RelayOutputIsReadable

LEMMA RouterRefusesStep == EnvelopeIInv /\ RouterRefuses => EnvelopeIInv'
  BY DEF EnvelopeIInv, RouterRefuses, RelayOutputIsReadable, SafeIsForwarded

LEMMA ForwardStep ==
  ASSUME RoomForIds, EnvelopeIInv, Forward
  PROVE  EnvelopeIInv'
<1>1. PICK e \in Decode(Buffered(datagram)) :
        /\ e.message.kind \in FromClient /\ accepted' = e
        /\ \/ forwarded' \in Encode(Forwarded(e), 2) /\ stage' = "to_client"
           \/ Encode(Forwarded(e), 2) = {} /\ stage' = "ended"
  BY DEF Forward, Forwarded
<1>2. Encode(Forwarded(e), 2) # {}
  <2>1. Buffered(datagram) \in Datagram
    BY BufferIsTyped DEF EnvelopeIInv
  <2>2. IsEnvelope(e) /\ Len(e.message.payload) <= MaxPayload
    BY <2>1, DecodeFacts
  <2>3. IsEnvelope(Forwarded(e)) /\ Len(Forwarded(e).message.payload) <= MaxPayload
    BY <1>1, <2>2, ForwardedIsEnvelope
  <2> QED BY <2>3, EncodeSucceeds
<1>3. UNCHANGED <<datagram, genuine, composed, received>>
  BY DEF Forward
<1> QED BY <1>1, <1>2, <1>3 DEF EnvelopeIInv, RelayOutputIsReadable, SafeIsForwarded

(* The other client reads what the relay has made of the datagram.          *)
LEMMA ForwardedIsRead ==
  ASSUME RoomForIds, EnvelopeIInv, stage \in {"to_client", "received"}
  PROVE  Decode(Buffered(forwarded)) = {Forwarded(accepted)}
<1>1. /\ accepted \in Decode(Buffered(datagram)) /\ accepted.message.kind \in FromClient
      /\ forwarded \in Encode(Forwarded(accepted), 2) /\ datagram \in Datagram
  BY DEF EnvelopeIInv
<1>2. IsEnvelope(accepted)
  BY <1>1, BufferIsTyped, DecodeFacts
<1>3. IsEnvelope(Forwarded(accepted)) /\ Fits(Forwarded(accepted), 2)
  BY <1>1, <1>2, ForwardedIsEnvelope DEF Fits
<1> QED BY <1>1, <1>3, RoundTrip

LEMMA ClientReceivesStep ==
  ASSUME RoomForIds, EnvelopeIInv, ClientReceives
  PROVE  EnvelopeIInv'
<1>1. Decode(Buffered(forwarded)) = {Forwarded(accepted)}
  BY ForwardedIsRead DEF ClientReceives
<1>2. stage' = "received" /\ received' = Forwarded(accepted)
  BY <1>1 DEF ClientReceives
<1>3. stage = "to_client" /\ UNCHANGED <<datagram, genuine, composed, accepted, forwarded>>
  BY DEF ClientReceives
<1> QED BY <1>2, <1>3 DEF EnvelopeIInv, RelayOutputIsReadable, SafeIsForwarded

LEMMA NextDatagramStep == EnvelopeIInv /\ NextDatagram => EnvelopeIInv'
<1> SUFFICES ASSUME EnvelopeIInv, NextDatagram PROVE EnvelopeIInv'
  OBVIOUS
<1>1. datagram' \in Datagram
  <2>1. Silence \in Datagram
    <3>1. <<>> \in Seq(Byte)
      BY EmptySeq
    <3> QED BY <3>1 DEF Silence, Datagram
  <2> QED BY <2>1 DEF NextDatagram
<1> QED BY <1>1 DEF NextDatagram, EnvelopeIInv, RelayOutputIsReadable, SafeIsForwarded

(* The invariant of the way of a datagram.                                  *)
THEOREM EnvelopeInvariant ==
  ASSUME RoomForIds
  PROVE  EnvelopeSpec => []EnvelopeIInv
<1>1. EnvelopeInit => EnvelopeIInv
  BY EnvelopeStart
<1>2. EnvelopeIInv /\ [EnvelopeNext]_envelopeVars => EnvelopeIInv'
  <2> SUFFICES ASSUME EnvelopeIInv, [EnvelopeNext]_envelopeVars PROVE EnvelopeIInv'
    OBVIOUS
  <2>1. CASE Compose
    BY <2>1, ComposeStep
  <2>2. CASE Other
    BY <2>2, OtherStep
  <2>3. CASE RelayDrops
    BY <2>3, RoomForIds, RelayDropsStep
  <2>4. CASE RouterRefuses
    BY <2>4, RouterRefusesStep
  <2>5. CASE Forward
    BY <2>5, RoomForIds, ForwardStep
  <2>6. CASE ClientReceives
    BY <2>6, RoomForIds, ClientReceivesStep
  <2>7. CASE NextDatagram
    BY <2>7, NextDatagramStep
  <2>8. CASE UNCHANGED envelopeVars
    BY <2>8 DEF envelopeVars, EnvelopeIInv, RelayOutputIsReadable, SafeIsForwarded
  <2> QED BY <2>1, <2>2, <2>3, <2>4, <2>5, <2>6, <2>7, <2>8 DEF EnvelopeNext
<1> QED BY <1>1, <1>2, PTL DEF EnvelopeSpec

(* What a client has sent in either version reaches the other client with   *)
(* its metadata, ids, ports and payload as the relay rewrites them, for     *)
(* every payload the codec takes: encode_packet and decode_packet agree.    *)
THEOREM EnvelopesArriveAsSent ==
  ASSUME RoomForIds
  PROVE  EnvelopeSpec => []ArrivesAsSent
<1>1. EnvelopeIInv => ArrivesAsSent
  <2> SUFFICES ASSUME EnvelopeIInv, stage = "received", genuine
               PROVE  received = [composed EXCEPT !.message = Rewritten(@)]
    BY DEF ArrivesAsSent
  <2>1. accepted \in Decode(Buffered(datagram)) /\ received = Forwarded(accepted)
    BY DEF EnvelopeIInv
  <2>2. accepted = composed
    BY <2>1, RoomForIds, GenuineIsRead
  <2> QED BY <2>1, <2>2 DEF Forwarded
<1> QED BY <1>1, RoomForIds, EnvelopeInvariant, PTL

(* No datagram ends run() of the relay: whatever decode_packet accepts,     *)
(* rewritten, can be encoded, and fits the buffer of the client.            *)
THEOREM RelayCanAlwaysEncode ==
  ASSUME RoomForIds
  PROVE  EnvelopeSpec => []RelayOutputIsReadable
<1>1. EnvelopeIInv => RelayOutputIsReadable
  BY DEF EnvelopeIInv
<1> QED BY <1>1, RoomForIds, EnvelopeInvariant, PTL

(* Of the envelopes of clients the codec and the buffer lose none: dropped  *)
(* are the kinds only a server sends and payloads unsafe for the tunnel.    *)
THEOREM SafeEnvelopesAreForwarded ==
  ASSUME RoomForIds
  PROVE  EnvelopeSpec => []SafeIsForwarded
<1>1. EnvelopeIInv => SafeIsForwarded
  BY DEF EnvelopeIInv
<1> QED BY <1>1, RoomForIds, EnvelopeInvariant, PTL

(* What the relay forwards it has read from all the bytes that were sent    *)
(* and declared: a datagram cut on its way or by the buffer never passes.   *)
THEOREM ForwardedIsUncut ==
  ASSUME RoomForIds
  PROVE  EnvelopeSpec => []NothingCut
<1>1. EnvelopeIInv => NothingCut
  <2> SUFFICES ASSUME EnvelopeIInv, stage \in {"to_client", "received"}
               PROVE  \E d \in Encode(accepted, datagram.version) :
                        /\ Len(d.body) = Len(datagram.body)
                        /\ d.declared = datagram.declared
    BY DEF NothingCut
  <2>1. datagram \in Datagram /\ accepted \in Decode(Buffered(datagram))
    BY DEF EnvelopeIInv
  <2>2. Buffered(datagram) = datagram
    BY <2>1, RoomForIds, NothingReadIsCut
  <2>3. /\ IsEnvelope(accepted) /\ Fits(accepted, datagram.version)
        /\ accepted.message.kind = datagram.kind
        /\ datagram.declared = Len(datagram.body)
        /\ Len(datagram.body) = MetaSize(datagram.version)
                                  + Size(WrittenFields[datagram.kind])
                                  + Len(accepted.message.payload)
        /\ Len(accepted.message.payload) <= MaxPayload
    BY <2>1, <2>2, DecodeFacts
  <2>4. datagram.version \in {1, 2}
    BY <2>3 DEF Fits
  <2>5. PICK d : d \in Encode(accepted, datagram.version)
    BY <2>3, <2>4, RoomForIds, EncodeSucceeds
  <2>6. /\ d.declared = Len(d.body)
        /\ Len(d.body) = MetaSize(datagram.version)
                           + Size(WrittenFields[accepted.message.kind])
                           + Len(accepted.message.payload)
    BY <2>3, <2>4, <2>5, EncodeSize
  <2> QED BY <2>3, <2>5, <2>6
<1> QED BY <1>1, RoomForIds, EnvelopeInvariant, PTL
=============================================================================
