-------------------------- MODULE JsonParserProofs --------------------------
(***************************************************************************)
(* Proofs about JsonParser for any characters, any limits of the nesting   *)
(* and of the field id, and whatever the callback makes of the field id:   *)
(* the parser never uses an array index it does not have, its field id is  *)
(* as good as a stack, the indices are the places in the arrays, and a     *)
(* message ends with its last brace.                                       *)
(*                                                                         *)
(* The parser keeps its depth twice: as arrayDepth and as the "^"s of      *)
(* fieldId.  The latter never outnumber the former, stated without         *)
(* counting: the "^"s can be numbered in their order with numbers up to    *)
(* arrayDepth (Backed).  Unless the callback has erased a "^", more holds: *)
(* the separators of fieldId are the open objects and arrays (Nests) and   *)
(* arrayIndices their counts (Placed).                                     *)
(***************************************************************************)
EXTENDS JsonParser, FiniteSetTheorems, SequenceTheorems, TLAPS

Part == Names \cup Separators

\* The places of the arrays in a field id.
Carets(id) == {i \in 1 .. Len(id) : id[i] = "^"}

Backed(id, depth) ==
    \E g \in [Carets(id) -> 1 .. depth] :
        \A i, j \in Carets(id) : i < j => g[i] < g[j]

-----------------------------------------------------------------------------
(* Sequences.                                                              *)

\* The first n elements of a sequence.
LEMMA Prefix ==
    ASSUME NEW S, NEW s \in Seq(S), NEW n \in Nat, n <= Len(s)
    PROVE  /\ SubSeq(s, 1, n) \in Seq(S)
           /\ Len(SubSeq(s, 1, n)) = n
           /\ \A i \in 1 .. n : SubSeq(s, 1, n)[i] = s[i]
<1>1. \A i \in 1 .. n : s[i] \in S
  BY ElementOfSeq
<1>2. /\ SubSeq(s, 1, n) \in Seq(S)
      /\ Len(SubSeq(s, 1, n)) = IF 1 <= n THEN n - 1 + 1 ELSE 0
      /\ \A i \in 1 .. n - 1 + 1 : SubSeq(s, 1, n)[i] = s[1 + i - 1]
  BY <1>1, SubSeqProperties
<1> QED
  BY <1>2

\* What Front leaves.
LEMMA FrontParts ==
    ASSUME NEW S, NEW s \in Seq(S), s # <<>>
    PROVE  /\ Len(s) \in Nat \ {0}
           /\ Front(s) \in Seq(S)
           /\ Len(Front(s)) = Len(s) - 1
           /\ \A i \in 1 .. Len(s) - 1 : Front(s)[i] = s[i]
<1>1. Len(s) \in Nat \ {0}
  OBVIOUS
<1>2. Len(s) - 1 \in Nat /\ Len(s) - 1 <= Len(s)
  BY <1>1
<1> QED
  BY <1>1, <1>2, Prefix DEF Front

\* What Append adds.
LEMMA AppendParts ==
    ASSUME NEW S, NEW s \in Seq(S), NEW e \in S
    PROVE  /\ Append(s, e) \in Seq(S)
           /\ Len(s) \in Nat
           /\ Len(Append(s, e)) = Len(s) + 1
           /\ \A i \in 1 .. Len(s) : Append(s, e)[i] = s[i]
           /\ Append(s, e)[Len(s) + 1] = e
OBVIOUS

\* A part of a sequence from its third element on.
LEMMA ThirdOn ==
    ASSUME NEW S, NEW s \in Seq(S)
    PROVE  /\ SubSeq(s, 3, Len(s)) \in Seq(S)
           /\ Len(s) \in Nat
           /\ Len(SubSeq(s, 3, Len(s))) = IF 3 <= Len(s) THEN Len(s) - 2 ELSE 0
           /\ \A i \in 1 .. Len(s) - 2 : SubSeq(s, 3, Len(s))[i] = s[i + 2]
<1>1. Len(s) \in Nat
  OBVIOUS
<1>2. \A i \in 3 .. Len(s) : s[i] \in S
  BY <1>1, ElementOfSeq
<1>3. /\ SubSeq(s, 3, Len(s)) \in Seq(S)
      /\ Len(SubSeq(s, 3, Len(s))) =
            IF 3 <= Len(s) THEN Len(s) - 3 + 1 ELSE 0
      /\ \A i \in 1 .. Len(s) - 3 + 1 :
            SubSeq(s, 3, Len(s))[i] = s[3 + i - 1]
  BY <1>1, <1>2, SubSeqProperties
<1> QED
  BY <1>1, <1>3

\* A sequence with another first element.
LEMMA OtherHead ==
    ASSUME NEW S, NEW s \in Seq(S), s # <<>>, NEW e \in S
    PROVE  /\ <<e>> \o Tail(s) \in Seq(S)
           /\ Len(s) \in Nat \ {0}
           /\ Len(<<e>> \o Tail(s)) = Len(s)
           /\ (<<e>> \o Tail(s))[1] = e
           /\ \A i \in 2 .. Len(s) : (<<e>> \o Tail(s))[i] = s[i]
<1>1. /\ Len(s) \in Nat \ {0}
      /\ Tail(s) \in Seq(S)
      /\ Len(Tail(s)) = Len(s) - 1
      /\ \A i \in 1 .. Len(Tail(s)) : Tail(s)[i] = s[i + 1]
  OBVIOUS
<1>2. <<e>> \in Seq(S) /\ Len(<<e>>) = 1 /\ <<e>>[1] = e
  OBVIOUS
<1>3. /\ <<e>> \o Tail(s) \in Seq(S)
      /\ Len(<<e>> \o Tail(s)) = Len(<<e>>) + Len(Tail(s))
      /\ \A i \in 1 .. Len(<<e>>) + Len(Tail(s)) : (<<e>> \o Tail(s))[i] =
            IF i <= Len(<<e>>) THEN <<e>>[i] ELSE Tail(s)[i - Len(<<e>>)]
  BY <1>1, <1>2, ConcatProperties
<1>4. Len(<<e>> \o Tail(s)) = Len(s)
  BY <1>1, <1>2, <1>3
<1>5. (<<e>> \o Tail(s))[1] = e
  BY <1>1, <1>2, <1>3
<1>6. ASSUME NEW i \in 2 .. Len(s)
      PROVE  (<<e>> \o Tail(s))[i] = s[i]
  <2>1. i \in 1 .. Len(<<e>>) + Len(Tail(s)) /\ ~(i <= Len(<<e>>))
    BY <1>1, <1>2
  <2>2. (<<e>> \o Tail(s))[i] = Tail(s)[i - 1]
    BY <1>2, <1>3, <2>1
  <2>3. i - 1 \in 1 .. Len(Tail(s)) /\ (i - 1) + 1 = i
    BY <1>1
  <2> QED
    BY <1>1, <2>2, <2>3
<1> QED
  BY <1>1, <1>3, <1>4, <1>5, <1>6

-----------------------------------------------------------------------------
(* Numbering the arrays of a field id.                                     *)

\* An id whose arrays are all among those of another, k places further on, is
\* backed if the other is.
LEMMA Embedded ==
    ASSUME NEW id, NEW new, NEW d \in Nat, NEW k \in Nat, Backed(id, d),
           \A i \in Carets(new) : i + k \in Carets(id)
    PROVE  Backed(new, d)
<1>1. PICK g \in [Carets(id) -> 1 .. d] :
         \A i, j \in Carets(id) : i < j => g[i] < g[j]
  BY DEF Backed
<1> DEFINE h == [i \in Carets(new) |-> g[i + k]]
<1>2. h \in [Carets(new) -> 1 .. d]
  BY <1>1
<1>3. ASSUME NEW i \in Carets(new), NEW j \in Carets(new), i < j
      PROVE  h[i] < h[j]
  <2>1. i \in Int /\ j \in Int
    BY DEF Carets
  <2>2. i + k < j + k
    BY <1>3, <2>1
  <2> QED
    BY <1>1, <2>2
<1> QED
  BY <1>2, <1>3 DEF Backed

\* It needs one number less if one of the other's arrays comes after them all.
LEMMA EmbeddedBelow ==
    ASSUME NEW id, NEW new, NEW d \in Nat, NEW k \in Nat, Backed(id, d),
           NEW m \in Carets(id),
           \A i \in Carets(new) : i + k \in Carets(id) /\ i + k < m
    PROVE  d # 0 /\ Backed(new, d - 1)
<1>1. PICK g \in [Carets(id) -> 1 .. d] :
         \A i, j \in Carets(id) : i < j => g[i] < g[j]
  BY DEF Backed
<1>2. g[m] \in 1 .. d
  BY <1>1
<1> DEFINE h == [i \in Carets(new) |-> g[i + k]]
<1>3. ASSUME NEW i \in Carets(new)
      PROVE  h[i] \in 1 .. d - 1
  <2>1. g[i + k] \in 1 .. d /\ g[i + k] < g[m]
    BY <1>1
  <2> QED
    BY <1>2, <2>1
<1>4. ASSUME NEW i \in Carets(new), NEW j \in Carets(new), i < j
      PROVE  h[i] < h[j]
  <2>1. i \in Int /\ j \in Int
    BY DEF Carets
  <2>2. i + k < j + k
    BY <1>4, <2>1
  <2> QED
    BY <1>1, <2>2
<1>5. h \in [Carets(new) -> 1 .. d - 1]
  BY <1>3
<1>6. Backed(new, d - 1)
  BY <1>4, <1>5 DEF Backed
<1> QED
  BY <1>2, <1>6
-----------------------------------------------------------------------------
(* What the operations on the field id do to it.                           *)

Id == Seq(Part)

\* The empty id needs no numbers.
LEMMA EmptyBacked ==
    ASSUME NEW d \in Nat
    PROVE  <<>> \in Id /\ Backed(<<>>, d)
<1>1. Carets(<<>>) = {}
  BY DEF Carets
<1>2. [x \in {} |-> x] \in [Carets(<<>>) -> 1 .. d]
  BY <1>1
<1>3. Backed(<<>>, d)
  <2>1. PICK g : g \in [{} -> 1 .. d]
    BY <1>1, <1>2
  <2> QED
    BY <1>1, <2>1 DEF Backed
<1>4. <<>> \in Id
  BY DEF Id
<1> QED
  BY <1>3, <1>4

\* The last element goes: no number more is needed ...
LEMMA FrontBacked ==
    ASSUME NEW id \in Id, NEW d \in Nat, Backed(id, d), id # <<>>
    PROVE  Front(id) \in Id /\ Backed(Front(id), d)
<1>1. /\ Len(id) \in Nat \ {0}
      /\ Front(id) \in Seq(Part)
      /\ Len(Front(id)) = Len(id) - 1
      /\ \A i \in 1 .. Len(id) - 1 : Front(id)[i] = id[i]
  BY FrontParts DEF Id
<1>2. \A i \in Carets(Front(id)) : i + 0 \in Carets(id)
  BY <1>1 DEF Carets
<1> QED
  BY <1>1, <1>2, Embedded DEF Id

\* ... and one less if it was an array.
LEMMA FrontBelow ==
    ASSUME NEW id \in Id, NEW d \in Nat, Backed(id, d), InArray(id)
    PROVE  /\ d # 0
           /\ Front(id) \in Id
           /\ Backed(Front(id), d - 1)
<1>1. /\ Len(id) \in Nat \ {0}
      /\ Front(id) \in Seq(Part)
      /\ Len(Front(id)) = Len(id) - 1
      /\ \A i \in 1 .. Len(id) - 1 : Front(id)[i] = id[i]
  BY FrontParts DEF Id, InArray
<1>2. Len(id) \in Carets(id)
  BY <1>1 DEF Carets, InArray
<1>3. \A i \in Carets(Front(id)) : i + 0 \in Carets(id) /\ i + 0 < Len(id)
  BY <1>1 DEF Carets
<1> QED
  BY <1>1, <1>2, <1>3, EmbeddedBelow DEF Id

\* Removing the last name.
LEMMA RemoveLastIdBacked ==
    ASSUME NEW id \in Id, NEW d \in Nat, Backed(id, d)
    PROVE  RemoveLastId(id) \in Id /\ Backed(RemoveLastId(id), d)
<1>1. RemoveLastId(id) = id \/ (id # <<>> /\ RemoveLastId(id) = Front(id))
  BY DEF RemoveLastId
<1> QED
  BY <1>1, FrontBacked

\* Removing the last character.
LEMMA RemoveLastIdCharBacked ==
    ASSUME NEW id \in Id, NEW d \in Nat, Backed(id, d)
    PROVE  RemoveLastIdChar(id) \in Id /\ Backed(RemoveLastIdChar(id), d)
<1>1. RemoveLastIdChar(id) = id \/ (id # <<>> /\ RemoveLastIdChar(id) = Front(id))
  BY DEF RemoveLastIdChar
<1> QED
  BY <1>1, FrontBacked

\* A part that is not an array comes in addition.
LEMMA ExtendBacked ==
    ASSUME NEW id \in Id, NEW d \in Nat, Backed(id, d), NEW e \in Part, e # "^"
    PROVE  Append(id, e) \in Id /\ Backed(Append(id, e), d)
<1>1. /\ Append(id, e) \in Seq(Part)
      /\ Len(id) \in Nat
      /\ Len(Append(id, e)) = Len(id) + 1
      /\ \A i \in 1 .. Len(id) : Append(id, e)[i] = id[i]
      /\ Append(id, e)[Len(id) + 1] = e
  BY AppendParts DEF Id
<1>2. ASSUME NEW i \in Carets(Append(id, e))
      PROVE  i + 0 \in Carets(id)
  <2>1. i \in 1 .. Len(id) + 1 /\ Append(id, e)[i] = "^"
    BY <1>1 DEF Carets
  <2>2. i # Len(id) + 1
    BY <1>1, <2>1
  <2> QED
    BY <1>1, <2>1, <2>2 DEF Carets
<1> QED
  BY <1>1, <1>2, Embedded DEF Id

\* An array comes in addition: so does a number.
LEMMA NestBacked ==
    ASSUME NEW id \in Id, NEW d \in Nat, Backed(id, d)
    PROVE  Append(id, "^") \in Id /\ Backed(Append(id, "^"), d + 1)
<1>1. /\ Append(id, "^") \in Seq(Part)
      /\ Len(id) \in Nat
      /\ Len(Append(id, "^")) = Len(id) + 1
      /\ \A i \in 1 .. Len(id) : Append(id, "^")[i] = id[i]
  BY AppendParts DEF Id, Part, Separators
<1>2. PICK g \in [Carets(id) -> 1 .. d] :
         \A i, j \in Carets(id) : i < j => g[i] < g[j]
  BY DEF Backed
<1> DEFINE new == Carets(Append(id, "^"))
           h == [i \in new |-> IF i \in Carets(id) THEN g[i] ELSE d + 1]
<1>3. \A i \in new : i \in Carets(id) \/ i = Len(id) + 1
  BY <1>1 DEF Carets
<1>4. \A i \in Carets(id) : i \in Nat /\ i <= Len(id)
  BY <1>1 DEF Carets
<1>5. \A i \in Carets(id) : g[i] \in 1 .. d
  BY <1>2
<1>6. h \in [new -> 1 .. d + 1]
  BY <1>5
<1>7. ASSUME NEW i \in new, NEW j \in new, i < j
      PROVE  h[i] < h[j]
  <2>1. i \in Carets(id)
    BY <1>1, <1>3, <1>4, <1>7
  <2>2. h[i] = g[i]
    BY <2>1
  <2>3. CASE j \in Carets(id)
    BY <1>2, <1>7, <2>1, <2>2, <2>3
  <2>4. CASE j \notin Carets(id)
    BY <1>5, <2>1, <2>2, <2>4
  <2> QED
    BY <2>3, <2>4
<1> HIDE DEF h
<1> QED
  BY <1>1, <1>6, <1>7 DEF Backed, Id

\* What the callback makes of the id has no more arrays than the id.
LEMMA RewrittenBacked ==
    ASSUME NEW id \in Id, NEW d \in Nat, Backed(id, d)
    PROVE  Rewritten(id) \in Id /\ Backed(Rewritten(id), d)
<1>1. CASE ~(id # <<>> /\ id[1] = "result")
  BY <1>1 DEF Rewritten
<1>2. CASE id # <<>> /\ id[1] = "result" /\ keyed
  <2>1. Rewritten(id) = <<"name">> \o Tail(id)
    BY <1>2 DEF Rewritten
  <2>2. /\ <<"name">> \o Tail(id) \in Seq(Part)
        /\ Len(id) \in Nat \ {0}
        /\ Len(<<"name">> \o Tail(id)) = Len(id)
        /\ (<<"name">> \o Tail(id))[1] = "name"
        /\ \A i \in 2 .. Len(id) : (<<"name">> \o Tail(id))[i] = id[i]
    BY <1>2, OtherHead DEF Id, Part, Names
  <2>3. ASSUME NEW i \in Carets(<<"name">> \o Tail(id))
        PROVE  i + 0 \in Carets(id)
    <3>1. i \in 1 .. Len(id) /\ (<<"name">> \o Tail(id))[i] = "^"
      BY <2>2 DEF Carets
    <3>2. i # 1
      BY <2>2, <3>1
    <3> QED
      BY <2>2, <3>1, <3>2 DEF Carets
  <2> QED
    BY <2>1, <2>2, <2>3, Embedded DEF Id
<1>3. CASE id # <<>> /\ id[1] = "result" /\ ~keyed
  <2>1. Rewritten(id) = SubSeq(id, 3, Len(id))
    BY <1>3 DEF Rewritten
  <2>2. /\ SubSeq(id, 3, Len(id)) \in Seq(Part)
        /\ Len(id) \in Nat
        /\ Len(SubSeq(id, 3, Len(id))) =
              IF 3 <= Len(id) THEN Len(id) - 2 ELSE 0
        /\ \A i \in 1 .. Len(id) - 2 : SubSeq(id, 3, Len(id))[i] = id[i + 2]
    BY ThirdOn DEF Id
  <2>3. \A i \in Carets(SubSeq(id, 3, Len(id))) : i + 2 \in Carets(id)
    BY <2>2 DEF Carets
  <2> QED
    BY <2>1, <2>2, <2>3, Embedded DEF Id
<1> QED
  BY <1>1, <1>2, <1>3

\* The end of an array, after the callback.
LEMMA EndArrayBacked ==
    ASSUME NEW id \in Id, NEW d \in Nat, Backed(id, d), InArray(id)
    PROVE  /\ d # 0
           /\ RemoveLastIdChar(Rewritten(id)) \in Id
           /\ Backed(RemoveLastIdChar(Rewritten(id)), d - 1)
<1>1. Rewritten(id) \in Id /\ Backed(Rewritten(id), d)
  BY RewrittenBacked
<1>2. d # 0
  BY FrontBelow
<1>3. Len(id) \in Nat \ {0} /\ id[Len(id)] = "^"
  BY DEF InArray, Id
<1>4. Rewritten(id) = <<>> \/ InArray(Rewritten(id))
  <2>1. CASE id[1] # "result"
    BY <2>1 DEF Rewritten
  <2>2. CASE id[1] = "result" /\ keyed
    <3>1. Rewritten(id) = <<"name">> \o Tail(id)
      BY <2>2 DEF Rewritten, InArray
    <3>2. /\ Len(<<"name">> \o Tail(id)) = Len(id)
          /\ \A i \in 2 .. Len(id) : (<<"name">> \o Tail(id))[i] = id[i]
      BY OtherHead DEF Id, Part, Names, InArray
    <3>3. Len(id) \in 2 .. Len(id)
      BY <1>3, <2>2
    <3>4. <<"name">> \o Tail(id) # <<>>
      BY <1>1, <1>3, <3>1, <3>2 DEF Id
    <3> QED
      BY <1>3, <3>1, <3>2, <3>3, <3>4 DEF InArray
  <2>3. CASE id[1] = "result" /\ ~keyed
    <3>1. Rewritten(id) = SubSeq(id, 3, Len(id))
      BY <2>3 DEF Rewritten, InArray
    <3>2. /\ SubSeq(id, 3, Len(id)) \in Seq(Part)
          /\ Len(SubSeq(id, 3, Len(id))) =
                IF 3 <= Len(id) THEN Len(id) - 2 ELSE 0
          /\ \A i \in 1 .. Len(id) - 2 : SubSeq(id, 3, Len(id))[i] = id[i + 2]
      BY ThirdOn DEF Id
    <3>3. CASE 3 <= Len(id)
      <4>1. Len(id) - 2 \in 1 .. Len(id) - 2 /\ (Len(id) - 2) + 2 = Len(id)
        BY <1>3, <3>3
      <4>2. Len(Rewritten(id)) = Len(id) - 2
        BY <3>1, <3>2, <3>3
      <4>3. Rewritten(id)[Len(id) - 2] = "^"
        BY <1>3, <3>1, <3>2, <4>1
      <4>4. Rewritten(id) # <<>>
        BY <1>1, <1>3, <3>3, <4>2 DEF Id
      <4> QED
        BY <4>2, <4>3, <4>4 DEF InArray
    <3>4. CASE ~(3 <= Len(id))
      <4>1. Len(Rewritten(id)) = 0
        BY <3>1, <3>2, <3>4
      <4> QED
        BY <1>1, <4>1 DEF Id
    <3> QED
      BY <3>3, <3>4
  <2> QED
    BY <2>1, <2>2, <2>3
<1>5. CASE Rewritten(id) = <<>>
  <2>1. RemoveLastIdChar(Rewritten(id)) = <<>>
    BY <1>5 DEF RemoveLastIdChar
  <2>2. d - 1 \in Nat
    BY <1>2
  <2> QED
    BY <1>2, <2>1, <2>2, EmptyBacked
<1>6. CASE InArray(Rewritten(id))
  <2>1. RemoveLastIdChar(Rewritten(id)) = Front(Rewritten(id))
    BY <1>6 DEF RemoveLastIdChar, InArray
  <2> QED
    BY <1>1, <1>2, <1>6, <2>1, FrontBelow
<1> QED
  BY <1>4, <1>5, <1>6

-----------------------------------------------------------------------------
(* Every action keeps the field id backed by the depth.                    *)

IdOK(id, depth) ==
    /\ id \in Id
    /\ depth \in 0 .. MaxArrayNesting
    /\ Backed(id, depth)

\* The end of an object.
LEMMA EndObjectKeeps ==
    ASSUME NEW id, NEW keys, IdOK(id, arrayDepth), EndObject(id, keys)
    PROVE  IdOK(fieldId', arrayDepth')
<1>1. arrayDepth' = arrayDepth /\ arrayDepth \in Nat
  BY JsonAssumption DEF EndObject, IdOK
<1>2. fieldId' = <<>> \/ fieldId' = RemoveLastIdChar(id)
  BY DEF EndObject
<1>3. <<>> \in Id /\ Backed(<<>>, arrayDepth)
  BY <1>1, EmptyBacked
<1>4. RemoveLastIdChar(id) \in Id /\ Backed(RemoveLastIdChar(id), arrayDepth)
  BY <1>1, RemoveLastIdCharBacked DEF IdOK
<1> QED
  BY <1>1, <1>2, <1>3, <1>4 DEF IdOK

\* The end of an array; the callback may have been at the id.
LEMMA EndArrayKeeps ==
    ASSUME NEW id \in {fieldId, Rewritten(fieldId)}, IdOK(fieldId, arrayDepth),
           InArray(fieldId), EndArray(id)
    PROVE  IdOK(fieldId', arrayDepth')
<1>1. arrayDepth \in Nat
  BY JsonAssumption DEF IdOK
<1>2. /\ arrayDepth # 0
      /\ RemoveLastIdChar(id) \in Id
      /\ Backed(RemoveLastIdChar(id), arrayDepth - 1)
  <2>1. CASE id = fieldId
    <3>1. RemoveLastIdChar(fieldId) = Front(fieldId)
      BY DEF RemoveLastIdChar, InArray
    <3> QED
      BY <1>1, <2>1, <3>1, FrontBelow DEF IdOK
  <2>2. CASE id = Rewritten(fieldId)
    BY <1>1, <2>2, EndArrayBacked DEF IdOK
  <2> QED
    BY <2>1, <2>2
<1>3. fieldId' = RemoveLastIdChar(id) /\ arrayDepth' = arrayDepth - 1
  BY <1>2 DEF EndArray
<1>4. arrayDepth - 1 \in 0 .. MaxArrayNesting
  BY <1>2, JsonAssumption DEF IdOK
<1> QED
  BY <1>2, <1>3, <1>4 DEF IdOK

\* The end of any value.
LEMMA CheckValueCompletedKeeps ==
    ASSUME NEW c, NEW keys, NEW id \in {fieldId, Rewritten(fieldId)},
           IdOK(fieldId, arrayDepth), CheckValueCompleted(c, id, keys)
    PROVE  IdOK(fieldId', arrayDepth')
<1>1. arrayDepth \in Nat
  BY JsonAssumption DEF IdOK
<1>2. id \in Id /\ Backed(id, arrayDepth)
  BY <1>1, RewrittenBacked DEF IdOK
<1>3. RemoveLastId(id) \in Id /\ Backed(RemoveLastId(id), arrayDepth)
  BY <1>1, <1>2, RemoveLastIdBacked
<1>4. CASE c = ","
  <2>1. arrayDepth' = arrayDepth /\ fieldId' \in {id, RemoveLastId(id)}
    BY <1>4 DEF CheckValueCompleted
  <2> QED
    BY <1>2, <1>3, <2>1 DEF IdOK
<1>5. CASE c = "]"
  <2>1. InArray(fieldId) /\ EndArray(id)
    BY <1>5 DEF CheckValueCompleted
  <2> QED
    BY <2>1, EndArrayKeeps
<1>6. CASE c = "}"
  <2>1. EndObject(RemoveLastId(id), keys)
    BY <1>6 DEF CheckValueCompleted
  <2>2. IdOK(RemoveLastId(id), arrayDepth)
    BY <1>3 DEF IdOK
  <2> QED
    BY <2>1, <2>2, EndObjectKeeps
<1> QED
  BY <1>4, <1>5, <1>6 DEF CheckValueCompleted

\* A new part of the id that is no array.
LEMMA ExtendKeeps ==
    ASSUME NEW e \in Part, e # "^", IdOK(fieldId, arrayDepth),
           fieldId' = Append(fieldId, e), arrayDepth' = arrayDepth
    PROVE  IdOK(fieldId', arrayDepth')
<1>1. arrayDepth \in Nat
  BY JsonAssumption DEF IdOK
<1>2. Append(fieldId, e) \in Id /\ Backed(Append(fieldId, e), arrayDepth)
  BY <1>1, ExtendBacked DEF IdOK
<1> QED
  BY <1>2 DEF IdOK

\* Every step.
LEMMA NextKeeps ==
    ASSUME IdOK(fieldId, arrayDepth), Next
    PROVE  IdOK(fieldId', arrayDepth')
<1>0. ASSUME NEW s, Goto(s)
      PROVE  IdOK(fieldId', arrayDepth')
  BY <1>0 DEF Goto
<1>1. CASE Newline
  BY <1>0, <1>1 DEF Newline
<1>2. ASSUME NEW c \in Chars, CheckInput(c)
      PROVE  IdOK(fieldId', arrayDepth')
  <2>0. arrayDepth \in Nat
    BY JsonAssumption DEF IdOK
  <2>1. CASE JsBegin(c)
    <3>1. CASE c = "{"
      <4>1. fieldId' = <<>> /\ arrayDepth' = 0
        BY <2>1, <3>1 DEF JsBegin
      <4>2. <<>> \in Id /\ Backed(<<>>, 0) /\ 0 \in 0 .. MaxArrayNesting
        BY EmptyBacked, JsonAssumption
      <4> QED
        BY <4>1, <4>2 DEF IdOK
    <3>2. CASE c # "{"
      BY <1>0, <2>1, <3>2 DEF JsBegin
    <3> QED
      BY <3>1, <3>2
  <2>2. CASE JsExpectId(c)
    <3>1. CASE EndObject(RemoveLastId(fieldId), {keyed})
      <4>1. IdOK(RemoveLastId(fieldId), arrayDepth)
        BY <2>0, RemoveLastIdBacked DEF IdOK
      <4> QED
        BY <3>1, <4>1, EndObjectKeeps
    <3> QED
      BY <1>0, <2>2, <3>1 DEF JsExpectId
  <2>3. CASE JsId(c)
    <3>1. ASSUME NEW e \in {"name", "result"}, Extend(e, "jsId")
          PROVE  IdOK(fieldId', arrayDepth')
      <4>1. CASE fieldId' = Append(fieldId, e) /\ arrayDepth' = arrayDepth
        <5>1. e \in Part /\ e # "^"
          BY DEF Part, Names
        <5> QED
          BY <4>1, <5>1, ExtendKeeps
      <4> QED
        BY <1>0, <3>1, <4>1 DEF Extend
    <3>2. \/ \E s \in JsonState : Goto(s)
          \/ \E e \in {"name", "result"} : Extend(e, "jsId")
      BY <2>3 DEF JsId, GotoIfFits, JsonState
    <3> QED
      BY <1>0, <3>1, <3>2
  <2>4. CASE JsHadId(c)
    BY <1>0, <2>4 DEF JsHadId
  <2>5. CASE JsVal(c)
    <3>1. CASE StartArray
      <4>1. CASE /\ CanNest
                 /\ fieldId' = Append(fieldId, "^")
                 /\ arrayDepth' = arrayDepth + 1
        <5>1. /\ Append(fieldId, "^") \in Id
              /\ Backed(Append(fieldId, "^"), arrayDepth + 1)
          BY <2>0, NestBacked DEF IdOK
        <5>2. arrayDepth + 1 \in 0 .. MaxArrayNesting
          BY <2>0, <4>1, JsonAssumption DEF CanNest
        <5> QED
          BY <4>1, <5>1, <5>2 DEF IdOK
      <4> QED
        BY <1>0, <3>1, <4>1 DEF StartArray
    <3>2. CASE StartObject
      <4>1. CASE fieldId' = Append(fieldId, ":") /\ arrayDepth' = arrayDepth
        <5>1. ":" \in Part
          BY DEF Part, Separators
        <5> QED
          BY <4>1, <5>1, ExtendKeeps
      <4> QED
        BY <1>0, <3>2, <4>1 DEF StartObject
    <3>3. CASE InArray(fieldId) /\ EndArray(fieldId)
      BY <3>3, EndArrayKeeps
    <3> QED
      BY <1>0, <2>5, <3>1, <3>2, <3>3 DEF JsVal
  <2>6. CASE JsStringVal(c)
    <3>1. CASE fieldId' = Rewritten(fieldId) /\ arrayDepth' = arrayDepth
      <4>1. Rewritten(fieldId) \in Id /\ Backed(Rewritten(fieldId), arrayDepth)
        BY <2>0, RewrittenBacked DEF IdOK
      <4> QED
        BY <3>1, <4>1 DEF IdOK
    <3> QED
      BY <1>0, <2>6, <3>1 DEF JsStringVal
  <2>7. CASE JsStringEscape(c)
    BY <1>0, <2>7 DEF JsStringEscape
  <2>8. CASE JsNumberOrWord(c)
    <3>1. CASE CheckValueCompleted(c, Rewritten(fieldId), KeyAfter(fieldId))
      BY <3>1, CheckValueCompletedKeeps
    <3> QED
      BY <1>0, <2>8, <3>1 DEF JsNumberOrWord
  <2>9. CASE JsEndVal(c)
    <3>1. CASE CheckValueCompleted(c, fieldId, {keyed})
      BY <3>1, CheckValueCompletedKeeps
    <3> QED
      BY <1>0, <2>9, <3>1 DEF JsEndVal
  <2>10. CASE JsError(c)
    BY <1>0, <2>10 DEF JsError
  <2> QED
    BY <1>2, <2>1, <2>2, <2>3, <2>4, <2>5, <2>6, <2>7, <2>8, <2>9, <2>10
       DEF CheckInput
<1> QED
  BY <1>1, <1>2 DEF Next

-----------------------------------------------------------------------------
(* The types of the other variables.                                       *)

\* One more in some place of a function to numbers.
LEMMA OneMore ==
    ASSUME NEW D, NEW f \in [D -> Nat], NEW k
    PROVE  [f EXCEPT ![k] = f[k] + 1] \in [D -> Nat]
<1>1. CASE k \in D
  <2>1. f[k] + 1 \in Nat
    BY <1>1
  <2> QED
    BY <2>1
<1>2. CASE k \notin D
  <2>1. [f EXCEPT ![k] = f[k] + 1] = f
    BY <1>2
  <2> QED
    BY <2>1
<1> QED
  BY <1>1, <1>2

\* One is less than two.
LEMMA NotTwo ==
    ASSUME NEW S, NEW s \in Seq(S), Len(s) = 1
    PROVE  ~(2 <= Len(s))
OBVIOUS

\* A sequence of one.
LEMMA Singleton ==
    ASSUME NEW S, NEW e \in S
    PROVE  <<e>> \in Seq(S)
OBVIOUS

RestOK ==
    /\ state \in JsonState
    /\ arrayIndices \in [Depths -> Nat]
    /\ keyed \in BOOLEAN
    /\ open \in Seq(Frame)
    /\ erased \in {""} \cup Names \cup Separators
    /\ ended \in BOOLEAN

\* The bookkeeping of the nesting.
LEMMA NestingType ==
    ASSUME open \in Seq(Frame)
    PROVE  /\ \A kind : Closed(kind) \in Seq(Frame)
           /\ Counted \in Seq(Frame)
           /\ \A kind \in {"obj", "arr"} : Opened(kind) \in Seq(Frame)
<1>1. ASSUME NEW kind \in {"obj", "arr", "bad"}
      PROVE  [kind |-> kind, count |-> 0] \in Frame
  BY DEF Frame
<1>2. <<>> \in Seq(Frame)
  OBVIOUS
<1>3. ASSUME NEW kind
      PROVE  Closed(kind) \in Seq(Frame)
  <2>1. open # <<>> => Front(open) \in Seq(Frame)
    BY FrontParts
  <2>2. <<[kind |-> "bad", count |-> 0]>> \in Seq(Frame)
    BY <1>1, Singleton
  <2> QED
    BY <1>2, <2>1, <2>2 DEF Closed
<1>4. Counted \in Seq(Frame)
  <2>1. CASE open # <<>>
    <3>1. Len(open) \in 1 .. Len(open)
      BY <2>1
    <3>2. open[Len(open)] \in Frame
      BY <3>1, ElementOfSeq
    <3>3. [kind |-> "arr", count |-> open[Len(open)].count + 1] \in Frame
      BY <3>2 DEF Frame
    <3>4. [open EXCEPT ![Len(open)] =
             [kind |-> "arr", count |-> open[Len(open)].count + 1]] \in Seq(Frame)
      BY <3>1, <3>3, ExceptSeq
    <3> QED
      BY <1>2, <3>4 DEF Counted
  <2>2. CASE open = <<>>
    BY <1>2, <2>2 DEF Counted
  <2> QED
    BY <2>1, <2>2
<1>5. ASSUME NEW kind \in {"obj", "arr"}
      PROVE  Opened(kind) \in Seq(Frame)
  <2>1. Append(open, [kind |-> kind, count |-> 0]) \in Seq(Frame)
    BY <1>1, AppendParts
  <2> QED
    BY <1>2, <2>1 DEF Opened
<1> QED
  BY <1>3, <1>4, <1>5

\* What the callback leaves in erased and keyed.
LEMMA CallbackType ==
    ASSUME RestOK, fieldId \in Id
    PROVE  /\ Erased(fieldId) \in {""} \cup Names \cup Separators
           /\ KeyAfter(fieldId) \subseteq BOOLEAN
<1>1. CASE Len(fieldId) > 1
  <2>1. fieldId[2] \in Part
    BY <1>1, ElementOfSeq DEF Id
  <2> QED
    BY <2>1 DEF Erased, KeyAfter, RestOK, Part
<1>2. CASE ~(Len(fieldId) > 1)
  BY <1>2 DEF Erased, KeyAfter, RestOK
<1> QED
  BY <1>1, <1>2

\* The end of a value, but for erased.
LEMMA CheckValueCompletedType ==
    ASSUME NEW c, NEW id, NEW keys \in SUBSET BOOLEAN, RestOK,
           CheckValueCompleted(c, id, keys)
    PROVE  /\ state' \in JsonState
           /\ arrayIndices' \in [Depths -> Nat]
           /\ keyed' \in BOOLEAN
           /\ open' \in Seq(Frame)
           /\ ended' \in BOOLEAN
<1>1. /\ \A kind : Closed(kind) \in Seq(Frame)
      /\ Counted \in Seq(Frame)
  BY NestingType DEF RestOK
<1>2. ASSUME EndElement
      PROVE  arrayIndices' \in [Depths -> Nat]
  <2>1. arrayIndices \in [Depths -> Nat]
    BY DEF RestOK
  <2>2. arrayIndices' =
           [arrayIndices EXCEPT ![arrayDepth - 1] = arrayIndices[arrayDepth - 1] + 1]
    BY <1>2 DEF EndElement, CountElement
  <2> QED
    BY <2>1, <2>2, OneMore
<1>3. CASE c = ","
  <2>1. /\ state' \in {"jsVal", "jsExpectId"}
        /\ keyed' \in keys
        /\ open' = Counted
        /\ ended' = FALSE
        /\ EndElement \/ arrayIndices' = arrayIndices
    BY <1>3 DEF CheckValueCompleted
  <2> QED
    BY <1>1, <1>2, <2>1 DEF RestOK, JsonState
<1>4. CASE c = "]"
  <2>1. /\ EndElement
        /\ state' = "jsEndVal"
        /\ open' = Closed("arr")
        /\ ended' = FALSE
        /\ keyed' = keyed
    BY <1>4 DEF CheckValueCompleted, EndArray
  <2> QED
    BY <1>1, <1>2, <2>1 DEF RestOK, JsonState
<1>5. CASE c = "}"
  <2>1. EndObject(RemoveLastId(id), keys)
    BY <1>5 DEF CheckValueCompleted
  <2>2. /\ state' \in {"jsBegin", "jsEndVal"}
        /\ open' = Closed("obj")
        /\ ended' \in BOOLEAN
        /\ keyed' = FALSE \/ keyed' \in keys
        /\ arrayIndices' = arrayIndices
    BY <2>1 DEF EndObject
  <2> QED
    BY <1>1, <2>2 DEF RestOK, JsonState
<1> QED
  BY <1>3, <1>4, <1>5 DEF CheckValueCompleted

\* Every step.
LEMMA NextType ==
    ASSUME RestOK, fieldId \in Id, arrayDepth \in 0 .. MaxArrayNesting, Next
    PROVE  RestOK'
<1>0. ASSUME NEW s \in JsonState, Goto(s)
      PROVE  RestOK'
  BY <1>0 DEF Goto, RestOK
<1>n. /\ \A kind : Closed(kind) \in Seq(Frame)
      /\ \A kind \in {"obj", "arr"} : Opened(kind) \in Seq(Frame)
  BY NestingType DEF RestOK
<1>k. /\ Erased(fieldId) \in {""} \cup Names \cup Separators
      /\ KeyAfter(fieldId) \in SUBSET BOOLEAN
      /\ {keyed} \in SUBSET BOOLEAN
  BY CallbackType DEF RestOK
<1>1. CASE Newline
  BY <1>0, <1>1 DEF Newline, JsonState
<1>2. ASSUME NEW c \in Chars, CheckInput(c)
      PROVE  RestOK'
  <2>1. CASE JsBegin(c)
    <3>1. CASE c = "{"
      <4>1. /\ state' = "jsExpectId"
            /\ open' = <<[kind |-> "obj", count |-> 0]>>
            /\ erased' = ""
            /\ ended' = FALSE
            /\ arrayIndices' = arrayIndices /\ keyed' = keyed
        BY <2>1, <3>1 DEF JsBegin
      <4>2. [kind |-> "obj", count |-> 0] \in Frame
        BY DEF Frame
      <4>3. open' \in Seq(Frame)
        BY <4>1, <4>2, Singleton
      <4> QED
        BY <4>1, <4>3 DEF RestOK, JsonState
    <3>2. CASE c # "{"
      BY <1>0, <2>1, <3>2 DEF JsBegin, JsonState
    <3> QED
      BY <3>1, <3>2
  <2>2. CASE JsExpectId(c)
    <3>1. CASE EndObject(RemoveLastId(fieldId), {keyed}) /\ UNCHANGED erased
      <4>1. /\ state' \in {"jsBegin", "jsEndVal"}
            /\ open' = Closed("obj")
            /\ ended' \in BOOLEAN
            /\ keyed' \in {FALSE, keyed}
            /\ arrayIndices' = arrayIndices /\ erased' = erased
        BY <3>1 DEF EndObject
      <4> QED
        BY <1>n, <4>1 DEF RestOK, JsonState
    <3> QED
      BY <1>0, <2>2, <3>1 DEF JsExpectId, JsonState
  <2>3. CASE JsId(c)
    <3>1. ASSUME NEW e, Extend(e, "jsId")
          PROVE  RestOK'
      <4>1. CASE /\ state' = "jsId" /\ ended' = FALSE
                 /\ UNCHANGED <<arrayIndices, keyed, open, erased>>
        BY <4>1 DEF RestOK, JsonState
      <4> QED
        BY <1>0, <3>1, <4>1 DEF Extend, JsonState
    <3>2. \/ \E s \in JsonState : Goto(s)
          \/ \E e \in {"name", "result"} : Extend(e, "jsId")
      BY <2>3 DEF JsId, GotoIfFits, JsonState
    <3> QED
      BY <1>0, <3>1, <3>2
  <2>4. CASE JsHadId(c)
    BY <1>0, <2>4 DEF JsHadId, JsonState
  <2>5. CASE JsVal(c)
    <3>1. CASE StartArray
      <4>1. CASE /\ arrayIndices' = StartIndex
                 /\ open' = Opened("arr")
                 /\ ended' = FALSE
                 /\ UNCHANGED <<state, keyed, erased>>
        <5>1. arrayIndices' \in [Depths -> Nat]
          BY <4>1 DEF StartIndex, RestOK
        <5> QED
          BY <1>n, <4>1, <5>1 DEF RestOK
      <4> QED
        BY <1>0, <3>1, <4>1 DEF StartArray, JsonState
    <3>2. CASE StartObject
      <4>1. CASE /\ state' = "jsExpectId"
                 /\ open' = Opened("obj")
                 /\ ended' = FALSE
                 /\ UNCHANGED <<arrayIndices, keyed, erased>>
        BY <1>n, <4>1 DEF RestOK, JsonState
      <4> QED
        BY <1>0, <3>2, <4>1 DEF StartObject, JsonState
    <3>3. CASE EndArray(fieldId) /\ UNCHANGED <<arrayIndices, keyed, erased>>
      BY <1>n, <3>3 DEF EndArray, RestOK, JsonState
    <3> QED
      BY <1>0, <2>5, <3>1, <3>2, <3>3 DEF JsVal, JsonState
  <2>6. CASE JsStringVal(c)
    <3>1. CASE /\ state' = "jsEndVal"
               /\ keyed' \in KeyAfter(fieldId)
               /\ erased' = Erased(fieldId)
               /\ ended' = FALSE
               /\ UNCHANGED <<arrayIndices, open>>
      BY <1>k, <3>1 DEF RestOK, JsonState
    <3> QED
      BY <1>0, <2>6, <3>1 DEF JsStringVal, JsonState
  <2>7. CASE JsStringEscape(c)
    BY <1>0, <2>7 DEF JsStringEscape, JsonState
  <2>8. CASE JsNumberOrWord(c)
    <3>1. CASE /\ CheckValueCompleted(c, Rewritten(fieldId), KeyAfter(fieldId))
               /\ erased' = Erased(fieldId)
      BY <1>k, <3>1, CheckValueCompletedType DEF RestOK
    <3>2. CASE \E s \in Following(c) : Goto(s)
      BY <1>0, <3>2 DEF Following
    <3> QED
      BY <1>0, <2>8, <3>1, <3>2 DEF JsNumberOrWord, JsonState
  <2>9. CASE JsEndVal(c)
    <3>1. CASE CheckValueCompleted(c, fieldId, {keyed}) /\ UNCHANGED erased
      BY <1>k, <3>1, CheckValueCompletedType DEF RestOK
    <3> QED
      BY <1>0, <2>9, <3>1 DEF JsEndVal, JsonState
  <2>10. CASE JsError(c)
    BY <1>0, <2>10 DEF JsError, JsonState
  <2> QED
    BY <1>2, <2>1, <2>2, <2>3, <2>4, <2>5, <2>6, <2>7, <2>8, <2>9, <2>10
       DEF CheckInput
<1> QED
  BY <1>1, <1>2 DEF Next

-----------------------------------------------------------------------------
(* The theorems.                                                           *)

Inv == IdOK(fieldId, arrayDepth) /\ RestOK

\* The invariant holds from the start and is kept.
LEMMA Inductive == Spec => []Inv
<1>1. Init => Inv
  <2> SUFFICES ASSUME Init PROVE Inv
    OBVIOUS
  <2>1. <<>> \in Id /\ Backed(<<>>, 0) /\ 0 \in 0 .. MaxArrayNesting
    BY EmptyBacked, JsonAssumption
  <2>2. IdOK(fieldId, arrayDepth)
    BY <2>1 DEF Init, IdOK
  <2>3. arrayIndices \in [Depths -> Nat]
    BY DEF Init
  <2>4. open \in Seq(Frame)
    <3>1. open = <<>>
      BY DEF Init
    <3> QED
      BY <3>1, EmptySeq
  <2>5. RestOK
    BY <2>3, <2>4 DEF Init, RestOK, JsonState
  <2> QED
    BY <2>2, <2>5 DEF Inv
<1>2. Inv /\ [Next]_vars => Inv'
  <2> SUFFICES ASSUME Inv, [Next]_vars PROVE Inv'
    OBVIOUS
  <2>1. CASE Next
    <3>1. IdOK(fieldId', arrayDepth')
      BY <2>1, NextKeeps DEF Inv
    <3>2. RestOK'
      BY <2>1, NextType DEF Inv, IdOK
    <3> QED
      BY <3>1, <3>2 DEF Inv
  <2>2. CASE UNCHANGED vars
    BY <2>2 DEF vars, Inv, IdOK, RestOK
  <2> QED
    BY <2>1, <2>2
<1> QED
  BY <1>1, <1>2, PTL DEF Spec

\* Every variable of the parser keeps its type; arrayDepth in particular never
\* exceeds the number of indices there are.
THEOREM TypeCorrect == Spec => []TypeOK
<1>1. Inv => TypeOK
  BY DEF Inv, IdOK, RestOK, TypeOK, Id, Part
<1> QED
  BY <1>1, Inductive, PTL

\* Wherever the parser takes itself to be in an array it has an index for it,
\* whatever characters arrive and whatever the callback does to the field id.
THEOREM IndexSafety == Spec => []IndexInBounds
<1>1. Inv => IndexInBounds
  <2> SUFFICES ASSUME Inv, InArray(fieldId)
               PROVE  arrayDepth \in 1 .. MaxArrayNesting
    BY DEF IndexInBounds
  <2>1. arrayDepth \in Nat /\ arrayDepth \in 0 .. MaxArrayNesting
    BY JsonAssumption DEF Inv, IdOK
  <2>2. arrayDepth # 0
    BY <2>1, FrontBelow DEF Inv, IdOK
  <2> QED
    BY <2>1, <2>2
<1> QED
  BY <1>1, Inductive, PTL

-----------------------------------------------------------------------------
(* Counting places.                                                        *)

\* The first place counts if it is one of them, and so does every next one.
LEMMA UpToNext ==
    ASSUME NEW S, NEW i \in Nat
    PROVE  /\ UpTo(S, i) \in Nat
           /\ UpTo(S, 0) = 0
           /\ UpTo(S, i + 1) = UpTo(S, i) + IF i + 1 \in S THEN 1 ELSE 0
<1>1. \A n \in Nat : IsFiniteSet(S \cap (1 .. n)) /\ UpTo(S, n) \in Nat
  <2> TAKE n \in Nat
  <2>1. IsFiniteSet(1 .. n)
    BY FS_Interval
  <2>2. IsFiniteSet(S \cap (1 .. n))
    BY <2>1, FS_Subset
  <2> QED
    BY <2>2, FS_CardinalityType DEF UpTo
<1>2. UpTo(S, 0) = 0
  <2>1. S \cap (1 .. 0) = {}
    OBVIOUS
  <2> QED
    BY <2>1, FS_EmptySet DEF UpTo
<1>3. CASE i + 1 \in S
  <2>1. S \cap (1 .. i + 1) = (S \cap (1 .. i)) \cup {i + 1}
    BY <1>3
  <2>2. i + 1 \notin S \cap (1 .. i)
    OBVIOUS
  <2>3. Cardinality((S \cap (1 .. i)) \cup {i + 1}) = Cardinality(S \cap (1 .. i)) + 1
    BY <1>1, <2>2, FS_AddElement
  <2> QED
    BY <1>1, <1>2, <1>3, <2>1, <2>3 DEF UpTo
<1>4. CASE i + 1 \notin S
  <2>1. S \cap (1 .. i + 1) = S \cap (1 .. i)
    BY <1>4
  <2> QED
    BY <1>1, <1>2, <1>4, <2>1 DEF UpTo
<1> QED
  BY <1>3, <1>4

\* The more places are looked at, the more are counted: a place counts more
\* than those before it.
LEMMA UpToGrows ==
    ASSUME NEW S, NEW i \in Nat, NEW j \in Nat
    PROVE  /\ i <= j => UpTo(S, i) <= UpTo(S, j)
           /\ i < j /\ j \in S => UpTo(S, i) < UpTo(S, j)
           /\ j \in S /\ j # 0 => UpTo(S, j) \in Nat \ {0}
<1>1. ASSUME NEW m \in Nat, NEW n \in Nat, m <= n
      PROVE  UpTo(S, m) <= UpTo(S, n)
  <2>1. IsFiniteSet(1 .. n)
    BY FS_Interval
  <2>2. IsFiniteSet(S \cap (1 .. n))
    BY <2>1, FS_Subset
  <2>3. S \cap (1 .. m) \in SUBSET (S \cap (1 .. n))
    BY <1>1
  <2> QED
    BY <2>2, <2>3, FS_Subset DEF UpTo
<1>2. ASSUME NEW m \in Nat, m < j, j \in S
      PROVE  UpTo(S, m) < UpTo(S, j)
  <2>1. /\ j - 1 \in Nat /\ (j - 1) + 1 = j /\ m <= j - 1
    BY <1>2
  <2>2. UpTo(S, j) = UpTo(S, j - 1) + 1 /\ UpTo(S, j - 1) \in Nat
    BY <1>2, <2>1, UpToNext
  <2>3. UpTo(S, m) <= UpTo(S, j - 1) /\ UpTo(S, m) \in Nat
    BY <1>1, <2>1, UpToNext
  <2> QED
    BY <2>2, <2>3
<1>3. j \in S /\ j # 0 => UpTo(S, j) \in Nat \ {0}
  <2> SUFFICES ASSUME j \in S, j # 0 PROVE UpTo(S, j) \in Nat \ {0}
    OBVIOUS
  <2>1. UpTo(S, 0) < UpTo(S, j) /\ UpTo(S, 0) = 0 /\ UpTo(S, j) \in Nat
    BY <1>2, UpToNext
  <2> QED
    BY <2>1
<1> QED
  BY <1>1, <1>2, <1>3

\* Only the places looked at matter.
LEMMA UpToSame ==
    ASSUME NEW S, NEW T, NEW i \in Nat,
           \A j \in 1 .. i : j \in S <=> j \in T
    PROVE  UpTo(S, i) = UpTo(T, i)
<1>1. S \cap (1 .. i) = T \cap (1 .. i)
  OBVIOUS
<1> QED
  BY <1>1 DEF UpTo

\* Places that all move up by two leave behind what was counted below them.
LEMMA UpToShift ==
    ASSUME NEW S, NEW T, NEW i \in Nat,
           \A j \in 1 .. i : j \in T <=> j + 2 \in S
    PROVE  UpTo(S, i + 2) = UpTo(T, i) + UpTo(S, 2)
<1> DEFINE A == T \cap (1 .. i)
           B == S \cap (3 .. i + 2)
           C == S \cap (1 .. 2)
           f == [j \in A |-> j + 2]
<1>1. IsFiniteSet(A) /\ IsFiniteSet(B) /\ IsFiniteSet(C)
  <2>1. A \in SUBSET (1 .. i) /\ IsFiniteSet(1 .. i)
    BY FS_Interval
  <2>2. B \in SUBSET (1 .. i + 2) /\ C \in SUBSET (1 .. i + 2)
    OBVIOUS
  <2>3. IsFiniteSet(1 .. i + 2)
    BY FS_Interval
  <2> HIDE DEF A, B, C
  <2>4. IsFiniteSet(A)
    BY <2>1, FS_Subset
  <2>5. IsFiniteSet(B) /\ IsFiniteSet(C)
    BY <2>2, <2>3, FS_Subset
  <2> QED
    BY <2>4, <2>5
<1>2. f \in Bijection(A, B)
  <2>1. f \in [A -> B]
    OBVIOUS
  <2>2. \A a, b \in A : f[a] = f[b] => a = b
    OBVIOUS
  <2>3. \A b \in B : \E a \in A : f[a] = b
    <3> SUFFICES ASSUME NEW b \in B PROVE \E a \in A : f[a] = b
      OBVIOUS
    <3>1. b - 2 \in 1 .. i /\ (b - 2) + 2 = b /\ b \in S
      OBVIOUS
    <3>2. b - 2 \in A
      BY <3>1
    <3> QED
      BY <3>1, <3>2
  <2> QED
    BY <2>1, <2>2, <2>3 DEF Bijection, Injection, IsInjective, Surjection
<1>3. Cardinality(A) = Cardinality(B)
  BY <1>1, <1>2, FS_Bijection DEF ExistsBijection
<1>4. S \cap (1 .. i + 2) = B \cup C /\ B \cap C = {}
  OBVIOUS
<1>5. Cardinality(B \cup C) = Cardinality(B) + Cardinality(C)
  <2>1. /\ Cardinality(B \cup C) =
              Cardinality(B) + Cardinality(C) - Cardinality(B \cap C)
        /\ Cardinality(B) \in Nat /\ Cardinality(C) \in Nat
    BY <1>1, FS_Union, FS_CardinalityType
  <2>2. Cardinality(B \cap C) = 0
    BY <1>4, FS_EmptySet
  <2> QED
    BY <2>1, <2>2
<1> QED
  BY <1>3, <1>4, <1>5 DEF UpTo

-----------------------------------------------------------------------------
(* The field id as a stack.                                                *)

\* A name stands at the beginning or after an object's separator.
Shaped(id) == \A i \in 2 .. Len(id) : id[i] \in Names => id[i - 1] = ":"

\* The separators of the id are the open objects and arrays, except for the
\* first n, which are objects.
Nests(id, frames, n) ==
    /\ id \in Id
    /\ frames \in Seq(Frame)
    /\ Shaped(id)
    /\ n \in {1, 2}
    /\ n <= Len(frames)
    /\ \A i \in 1 .. n : frames[i].kind = "obj"
    /\ Len(frames) = n + UpTo(SeparatorsOf(id), Len(id))
    /\ \A i \in SeparatorsOf(id) :
          frames[n + UpTo(SeparatorsOf(id), i)].kind = KindOf(id[i])

\* Parts are names or separators, not both.
LEMMA Parts ==
    ASSUME NEW id \in Id
    PROVE  /\ Len(id) \in Nat
           /\ DOMAIN id = 1 .. Len(id)
           /\ \A i \in 1 .. Len(id) :
                 /\ id[i] \in Part
                 /\ id[i] \in Names <=> id[i] \notin Separators
           /\ SeparatorsOf(id) \subseteq 1 .. Len(id)
<1>1. /\ id \in Seq(Part)
      /\ Len(id) \in Nat /\ DOMAIN id = 1 .. Len(id)
  BY DEF Id
<1>2. \A i \in 1 .. Len(id) : id[i] \in Part
  BY <1>1, ElementOfSeq
<1> QED
  BY <1>1, <1>2 DEF Part, Names, Separators, SeparatorsOf

\* What a separator counts is the place of its frame.
LEMMA Depth ==
    ASSUME NEW id, NEW frames, NEW n, Nests(id, frames, n),
           NEW i \in SeparatorsOf(id)
    PROVE  /\ UpTo(SeparatorsOf(id), i) \in Nat \ {0}
           /\ n + UpTo(SeparatorsOf(id), i) \in n + 1 .. Len(frames)
<1>1. i \in Nat \ {0} /\ Len(id) \in Nat /\ i <= Len(id)
  BY Parts DEF Nests
<1>2. /\ UpTo(SeparatorsOf(id), i) \in Nat \ {0}
      /\ UpTo(SeparatorsOf(id), Len(id)) \in Nat
      /\ UpTo(SeparatorsOf(id), i) <= UpTo(SeparatorsOf(id), Len(id))
  BY <1>1, UpToNext, UpToGrows
<1> QED
  BY <1>1, <1>2 DEF Nests

\* The kinds of the frames are all that matters of them.
LEMMA OtherFrames ==
    ASSUME NEW id, NEW frames, NEW n, NEW others \in Seq(Frame),
           Nests(id, frames, n), Len(others) = Len(frames),
           \A i \in 1 .. Len(frames) : others[i].kind = frames[i].kind
    PROVE  Nests(id, others, n)
<1>1. \A i \in SeparatorsOf(id) :
         n + UpTo(SeparatorsOf(id), i) \in 1 .. Len(frames)
  BY Depth DEF Nests
<1>2. \A i \in 1 .. n : i \in 1 .. Len(frames)
  BY DEF Nests
<1> QED
  BY <1>1, <1>2 DEF Nests

\* An object or array is opened.
LEMMA OpenNests ==
    ASSUME NEW id, NEW frames, NEW n, NEW sep \in Separators,
           Nests(id, frames, n)
    PROVE  Nests(Append(id, sep),
                 Append(frames, [kind |-> KindOf(sep), count |-> 0]), n)
<1> DEFINE frame == [kind |-> KindOf(sep), count |-> 0]
           new == Append(id, sep)
           more == Append(frames, frame)
<1>1. frame \in Frame /\ sep \in Part /\ frame.kind = KindOf(sep)
  BY DEF Frame, KindOf, Part
<1>2. /\ new \in Seq(Part) /\ Len(id) \in Nat /\ Len(new) = Len(id) + 1
      /\ \A i \in 1 .. Len(id) : new[i] = id[i]
      /\ new[Len(id) + 1] = sep
  BY <1>1, AppendParts DEF Nests, Id
<1>3. /\ more \in Seq(Frame) /\ Len(frames) \in Nat
      /\ Len(more) = Len(frames) + 1
      /\ \A i \in 1 .. Len(frames) : more[i] = frames[i]
      /\ more[Len(frames) + 1] = frame
  BY <1>1, AppendParts DEF Nests
<1> HIDE DEF frame, new, more
<1>4. new \in Id /\ id \in Id
  BY <1>2 DEF Id, Nests
<1>5. /\ SeparatorsOf(new) = SeparatorsOf(id) \cup {Len(id) + 1}
      /\ SeparatorsOf(id) \subseteq 1 .. Len(id)
  BY <1>2, <1>4, Parts DEF SeparatorsOf
<1>6. \A i \in 0 .. Len(id) : UpTo(SeparatorsOf(new), i) = UpTo(SeparatorsOf(id), i)
  BY <1>2, <1>5, UpToSame
<1>7. /\ UpTo(SeparatorsOf(new), Len(new)) = UpTo(SeparatorsOf(id), Len(id)) + 1
      /\ UpTo(SeparatorsOf(id), Len(id)) \in Nat
  <2>1. /\ UpTo(SeparatorsOf(new), Len(id)) \in Nat
        /\ UpTo(SeparatorsOf(new), Len(id) + 1) =
              UpTo(SeparatorsOf(new), Len(id)) + 1
    BY <1>2, <1>5, UpToNext
  <2>2. UpTo(SeparatorsOf(new), Len(id)) = UpTo(SeparatorsOf(id), Len(id))
    BY <1>2, <1>6
  <2> QED
    BY <1>2, <2>1, <2>2
<1>8. Shaped(new)
  <2>1. sep \notin Names
    BY DEF Names, Separators
  <2>2. ASSUME NEW i \in 2 .. Len(new), new[i] \in Names
        PROVE  new[i - 1] = ":"
    <3>1. i # Len(id) + 1
      BY <1>2, <2>1, <2>2
    <3>2. i \in 2 .. Len(id) /\ i - 1 \in 1 .. Len(id) /\ i \in 1 .. Len(id)
      BY <1>2, <3>1
    <3> QED
      BY <1>2, <2>2, <3>2 DEF Nests, Shaped
  <2> QED
    BY <2>2 DEF Shaped
<1>9. Len(more) = n + UpTo(SeparatorsOf(new), Len(new))
  BY <1>3, <1>7 DEF Nests
<1>10. ASSUME NEW i \in SeparatorsOf(new)
       PROVE  more[n + UpTo(SeparatorsOf(new), i)].kind = KindOf(new[i])
  <2>1. CASE i \in SeparatorsOf(id)
    <3>1. i \in 0 .. Len(id) /\ i \in 1 .. Len(id)
      BY <1>2, <1>5, <2>1
    <3>2. n + UpTo(SeparatorsOf(id), i) \in 1 .. Len(frames)
      BY <2>1, Depth DEF Nests
    <3> QED
      BY <1>2, <1>3, <1>6, <2>1, <3>1, <3>2 DEF Nests
  <2>2. CASE i = Len(id) + 1
    <3>1. n + UpTo(SeparatorsOf(new), i) = Len(frames) + 1
      BY <1>2, <1>3, <1>9, <2>2
    <3> QED
      BY <1>1, <1>2, <1>3, <2>2, <3>1
  <2> QED
    BY <1>5, <2>1, <2>2
<1>11. n <= Len(more) /\ \A i \in 1 .. n : more[i].kind = "obj"
  BY <1>3 DEF Nests
<1>12. Nests(new, more, n)
  BY <1>3, <1>4, <1>8, <1>9, <1>10, <1>11 DEF Nests
<1> QED
  BY <1>12 DEF new, more, frame

\* A name is written into the id.
LEMMA NameNests ==
    ASSUME NEW id, NEW frames, NEW n, NEW name \in Names,
           Nests(id, frames, n), id = <<>> \/ id[Len(id)] = ":"
    PROVE  Nests(Append(id, name), frames, n)
<1> DEFINE new == Append(id, name)
<1>1. name \in Part /\ name \notin Separators
  BY DEF Part, Names, Separators
<1>2. /\ new \in Seq(Part) /\ Len(id) \in Nat /\ Len(new) = Len(id) + 1
      /\ \A i \in 1 .. Len(id) : new[i] = id[i]
      /\ new[Len(id) + 1] = name
  BY <1>1, AppendParts DEF Nests, Id
<1> HIDE DEF new
<1>3. new \in Id /\ id \in Id
  BY <1>2 DEF Id, Nests
<1>4. /\ SeparatorsOf(new) = SeparatorsOf(id)
      /\ SeparatorsOf(id) \subseteq 1 .. Len(id)
  BY <1>1, <1>2, <1>3, Parts DEF SeparatorsOf
<1>5. UpTo(SeparatorsOf(new), Len(new)) = UpTo(SeparatorsOf(id), Len(id))
  <2>1. Len(id) + 1 \notin SeparatorsOf(id)
    BY <1>2, <1>4
  <2>2. /\ UpTo(SeparatorsOf(id), Len(id)) \in Nat
        /\ UpTo(SeparatorsOf(id), Len(id) + 1) =
              UpTo(SeparatorsOf(id), Len(id)) + 0
    BY <1>2, <2>1, UpToNext
  <2> QED
    BY <1>2, <1>4, <2>2
<1>6. Shaped(new)
  <2> SUFFICES ASSUME NEW i \in 2 .. Len(new), new[i] \in Names
               PROVE  new[i - 1] = ":"
    BY DEF Shaped
  <2>1. CASE i = Len(id) + 1
    <3>1. Len(id) # 0 /\ i - 1 = Len(id)
      BY <1>2, <2>1
    <3>2. id[Len(id)] = ":"
      BY <1>3, <3>1 DEF Id
    <3> QED
      BY <1>2, <3>1, <3>2
  <2>2. CASE i # Len(id) + 1
    <3>1. i \in 2 .. Len(id) /\ i - 1 \in 1 .. Len(id) /\ i \in 1 .. Len(id)
      BY <1>2, <2>2
    <3> QED
      BY <1>2, <3>1 DEF Nests, Shaped
  <2> QED
    BY <2>1, <2>2
<1>7. \A i \in SeparatorsOf(id) : new[i] = id[i]
  BY <1>2, <1>4
<1>8. Nests(new, frames, n)
  BY <1>3, <1>4, <1>5, <1>6, <1>7 DEF Nests
<1> QED
  BY <1>8 DEF new

\* What Front leaves of an id's separators.
LEMMA FrontSeparators ==
    ASSUME NEW id \in Id, id # <<>>
    PROVE  /\ Len(id) \in Nat \ {0}
           /\ Front(id) \in Id
           /\ Len(Front(id)) = Len(id) - 1
           /\ \A i \in 1 .. Len(id) - 1 : Front(id)[i] = id[i]
           /\ SeparatorsOf(Front(id)) = SeparatorsOf(id) \ {Len(id)}
           /\ \A i \in 0 .. Len(id) - 1 :
                 UpTo(SeparatorsOf(Front(id)), i) = UpTo(SeparatorsOf(id), i)
           /\ Shaped(id) => Shaped(Front(id))
<1>1. /\ Len(id) \in Nat \ {0}
      /\ Front(id) \in Id
      /\ Len(Front(id)) = Len(id) - 1
      /\ \A i \in 1 .. Len(id) - 1 : Front(id)[i] = id[i]
  BY FrontParts DEF Id
<1>2. DOMAIN id = 1 .. Len(id) /\ DOMAIN Front(id) = 1 .. Len(id) - 1
  BY <1>1, Parts
<1>3. SeparatorsOf(Front(id)) = SeparatorsOf(id) \ {Len(id)}
  BY <1>1, <1>2 DEF SeparatorsOf
<1>4. ASSUME NEW i \in 0 .. Len(id) - 1
      PROVE  UpTo(SeparatorsOf(Front(id)), i) = UpTo(SeparatorsOf(id), i)
  <2>1. i \in Nat /\ \A j \in 1 .. i : j # Len(id)
    BY <1>1
  <2> QED
    BY <1>3, <2>1, UpToSame
<1>5. Shaped(id) => Shaped(Front(id))
  <2> SUFFICES ASSUME Shaped(id), NEW i \in 2 .. Len(Front(id)),
                      Front(id)[i] \in Names
               PROVE  Front(id)[i - 1] = ":"
    BY DEF Shaped
  <2>1. i \in 2 .. Len(id) /\ i \in 1 .. Len(id) - 1 /\ i - 1 \in 1 .. Len(id) - 1
    BY <1>1
  <2> QED
    BY <1>1, <2>1 DEF Shaped
<1> QED
  BY <1>1, <1>3, <1>4, <1>5

\* A name is removed.
LEMMA RemoveLastIdNests ==
    ASSUME NEW id, NEW frames, NEW n, Nests(id, frames, n)
    PROVE  /\ Nests(RemoveLastId(id), frames, n)
           /\ \/ RemoveLastId(id) = <<>>
              \/ RemoveLastId(id)[Len(RemoveLastId(id))] \in Separators
           /\ ~InArray(id) => ~InArray(RemoveLastId(id))
<1>1. id \in Id /\ Shaped(id)
  BY DEF Nests
<1>2. CASE ~(id # <<>> /\ id[Len(id)] \in Names)
  <2>1. RemoveLastId(id) = id
    BY <1>2 DEF RemoveLastId
  <2>2. id # <<>> => id[Len(id)] \in Separators
    <3>1. id # <<>> => Len(id) \in 1 .. Len(id)
      BY <1>1 DEF Id
    <3> QED
      BY <1>1, <1>2, <3>1, Parts
  <2> QED
    BY <2>1, <2>2
<1>3. CASE id # <<>> /\ id[Len(id)] \in Names
  <2> DEFINE new == Front(id)
  <2>1. RemoveLastId(id) = new
    BY <1>3 DEF RemoveLastId
  <2>2. /\ Len(id) \in Nat \ {0}
        /\ new \in Id
        /\ Len(new) = Len(id) - 1
        /\ \A i \in 1 .. Len(id) - 1 : new[i] = id[i]
        /\ SeparatorsOf(new) = SeparatorsOf(id) \ {Len(id)}
        /\ \A i \in 0 .. Len(id) - 1 :
              UpTo(SeparatorsOf(new), i) = UpTo(SeparatorsOf(id), i)
        /\ Shaped(new)
    BY <1>1, <1>3, FrontSeparators
  <2> HIDE DEF new
  <2>3. Len(id) \notin SeparatorsOf(id)
    <3>1. Len(id) \in 1 .. Len(id)
      BY <2>2
    <3> QED
      BY <1>1, <1>3, <3>1, Parts DEF SeparatorsOf
  <2>4. SeparatorsOf(new) = SeparatorsOf(id) /\ SeparatorsOf(id) \subseteq 1 .. Len(new)
    BY <1>1, <2>2, <2>3, Parts
  <2>5. UpTo(SeparatorsOf(id), Len(new)) = UpTo(SeparatorsOf(id), Len(id))
    <3>1. Len(new) \in Nat /\ Len(new) + 1 = Len(id)
      BY <2>2
    <3>2. /\ UpTo(SeparatorsOf(id), Len(new)) \in Nat
          /\ UpTo(SeparatorsOf(id), Len(new) + 1) =
                UpTo(SeparatorsOf(id), Len(new)) + 0
      BY <2>3, <3>1, UpToNext
    <3> QED
      BY <3>1, <3>2
  <2>6. \A i \in SeparatorsOf(id) : new[i] = id[i]
    BY <2>2, <2>4
  <2>7. Nests(new, frames, n)
    BY <2>2, <2>4, <2>5, <2>6 DEF Nests
  <2>8. new # <<>> => new[Len(new)] = ":"
    <3> SUFFICES ASSUME new # <<>> PROVE new[Len(new)] = ":"
      OBVIOUS
    <3>1. Len(new) # 0
      BY <2>2 DEF Id
    <3>2. /\ Len(id) \in 2 .. Len(id) /\ Len(id) - 1 \in 1 .. Len(id) - 1
      BY <2>2, <3>1
    <3> QED
      BY <1>1, <1>3, <2>2, <3>2 DEF Shaped
  <2>9. ~InArray(new)
    BY <2>8 DEF InArray
  <2> QED
    BY <2>1, <2>7, <2>8, <2>9 DEF Separators
<1> QED
  BY <1>2, <1>3

\* A separator is removed, and what it stands for is the innermost frame.
LEMMA CloseNests ==
    ASSUME NEW id, NEW frames, NEW n, Nests(id, frames, n),
           id # <<>>, id[Len(id)] \in Separators
    PROVE  /\ Nests(Front(id), Front(frames), n)
           /\ frames # <<>> /\ Len(frames) > n
           /\ frames[Len(frames)].kind = KindOf(id[Len(id)])
<1> DEFINE new == Front(id)
           less == Front(frames)
<1>1. /\ id \in Id /\ Shaped(id) /\ frames \in Seq(Frame) /\ n \in {1, 2}
      /\ n <= Len(frames) /\ Len(frames) \in Nat
  BY DEF Nests
<1>2. /\ Len(id) \in Nat \ {0}
      /\ new \in Id
      /\ Len(new) = Len(id) - 1
      /\ \A i \in 1 .. Len(id) - 1 : new[i] = id[i]
      /\ SeparatorsOf(new) = SeparatorsOf(id) \ {Len(id)}
      /\ \A i \in 0 .. Len(id) - 1 :
            UpTo(SeparatorsOf(new), i) = UpTo(SeparatorsOf(id), i)
      /\ Shaped(new)
  BY <1>1, FrontSeparators
<1>3. Len(id) \in SeparatorsOf(id)
  BY <1>1, <1>2, Parts DEF SeparatorsOf
<1>4. frames # <<>>
  BY <1>1
<1>5. /\ less \in Seq(Frame)
      /\ Len(less) = Len(frames) - 1
      /\ \A i \in 1 .. Len(frames) - 1 : less[i] = frames[i]
  BY <1>1, <1>4, FrontParts
<1> HIDE DEF new, less
<1>6. /\ UpTo(SeparatorsOf(id), Len(new)) \in Nat
      /\ UpTo(SeparatorsOf(id), Len(id)) = UpTo(SeparatorsOf(id), Len(new)) + 1
  <2>1. Len(new) \in Nat /\ Len(new) + 1 = Len(id)
    BY <1>2
  <2>2. UpTo(SeparatorsOf(id), Len(new) + 1) = UpTo(SeparatorsOf(id), Len(new)) + 1
        /\ UpTo(SeparatorsOf(id), Len(new)) \in Nat
    BY <1>3, <2>1, UpToNext
  <2> QED
    BY <2>1, <2>2
<1>7. Len(frames) = n + UpTo(SeparatorsOf(id), Len(id))
  BY DEF Nests
<1>8. Len(frames) > n /\ n <= Len(less) /\ Len(less) = n + UpTo(SeparatorsOf(new), Len(new))
  <2>1. Len(new) \in 0 .. Len(id) - 1
    BY <1>2
  <2>2. UpTo(SeparatorsOf(new), Len(new)) = UpTo(SeparatorsOf(id), Len(new))
    BY <1>2, <2>1
  <2> QED
    BY <1>1, <1>5, <1>6, <1>7, <2>2
<1>9. frames[Len(frames)].kind = KindOf(id[Len(id)])
  BY <1>3, <1>7 DEF Nests
<1>10. \A i \in 1 .. n : less[i].kind = "obj"
  BY <1>1, <1>5, <1>8 DEF Nests
<1>11. ASSUME NEW i \in SeparatorsOf(new)
       PROVE  less[n + UpTo(SeparatorsOf(new), i)].kind = KindOf(new[i])
  <2>1. i \in SeparatorsOf(id) /\ i \in 1 .. Len(id) - 1 /\ i \in 0 .. Len(id) - 1
    BY <1>1, <1>2, Parts
  <2>2. UpTo(SeparatorsOf(new), i) = UpTo(SeparatorsOf(id), i)
    BY <1>2, <2>1
  <2>3. UpTo(SeparatorsOf(id), i) < UpTo(SeparatorsOf(id), Len(id))
        /\ UpTo(SeparatorsOf(id), i) \in Nat \ {0}
    BY <1>2, <1>3, <2>1, UpToGrows
  <2>4. n + UpTo(SeparatorsOf(id), i) \in 1 .. Len(frames) - 1
    BY <1>1, <1>6, <1>7, <2>3
  <2> QED
    BY <1>2, <1>5, <2>1, <2>2, <2>4 DEF Nests
<1>12. Nests(new, less, n)
  BY <1>1, <1>2, <1>5, <1>8, <1>10, <1>11 DEF Nests
<1> QED
  BY <1>4, <1>8, <1>9, <1>12 DEF new, less

\* InArray tells what is innermost: an array or an object.
LEMMA Innermost ==
    ASSUME NEW id, NEW frames, NEW n, Nests(id, frames, n)
    PROVE  /\ frames # <<>> /\ Len(frames) \in 1 .. Len(frames)
           /\ frames[Len(frames)].kind = IF InArray(id) THEN "arr" ELSE "obj"
<1>1. /\ id \in Id /\ n \in {1, 2} /\ n <= Len(frames)
      /\ frames \in Seq(Frame) /\ Len(frames) \in Nat
  BY DEF Nests
<1>2. frames # <<>> /\ Len(frames) \in 1 .. Len(frames)
  BY <1>1
<1>3. CASE id = <<>>
  <2>1. Len(id) = 0 /\ ~InArray(id)
    BY <1>3 DEF InArray
  <2>2. Len(frames) = n
    BY <1>1, <2>1, UpToNext DEF Nests
  <2> QED
    BY <1>1, <1>2, <2>1, <2>2 DEF Nests
<1>4. CASE id # <<>> /\ id[Len(id)] \in Separators
  <2>1. frames[Len(frames)].kind = KindOf(id[Len(id)])
    BY <1>4, CloseNests
  <2> QED
    BY <1>2, <1>4, <2>1 DEF InArray, KindOf
<1>5. CASE id # <<>> /\ id[Len(id)] \notin Separators
  <2> DEFINE new == RemoveLastId(id)
  <2>1. Len(id) \in 1 .. Len(id) /\ id[Len(id)] \in Names /\ ~InArray(id)
    <3>1. Len(id) \in 1 .. Len(id)
      BY <1>1, <1>5 DEF Id
    <3> QED
      BY <1>1, <1>5, <3>1, Parts DEF InArray, Separators
  <2>2. /\ Nests(new, frames, n)
        /\ new = <<>> \/ new[Len(new)] \in Separators
        /\ ~InArray(new)
    BY <2>1, RemoveLastIdNests
  <2> HIDE DEF new
  <2>3. CASE new = <<>>
    <3>1. Len(new) = 0 /\ UpTo(SeparatorsOf(new), 0) = 0
      BY <2>3, UpToNext
    <3>2. Len(frames) = n
      BY <1>1, <2>2, <3>1 DEF Nests
    <3> QED
      BY <1>1, <1>2, <2>1, <3>2 DEF Nests
  <2>4. CASE new # <<>>
    <3>1. frames[Len(frames)].kind = KindOf(new[Len(new)])
      BY <2>2, <2>4, CloseNests
    <3> QED
      BY <1>2, <2>1, <2>2, <2>4, <3>1 DEF InArray, KindOf
  <2> QED
    BY <2>3, <2>4
<1> QED
  BY <1>3, <1>4, <1>5

-----------------------------------------------------------------------------
(* The callback at the field id.                                           *)

\* "result" is the outermost name, and only until something was erased.
ResultFirst(id, gone) ==
    \A i \in 1 .. Len(id) : id[i] = "result" => i = 1 /\ gone = ""

\* An id with another name at its beginning nests in the same way.
LEMMA RenamedNests ==
    ASSUME NEW id, NEW frames, NEW n, Nests(id, frames, n),
           id # <<>>, id[1] \in Names
    PROVE  /\ Nests(<<"name">> \o Tail(id), frames, n)
           /\ InArray(<<"name">> \o Tail(id)) <=> InArray(id)
<1> DEFINE new == <<"name">> \o Tail(id)
<1>1. /\ id \in Id /\ Shaped(id)
      /\ "name" \in Part /\ "name" \notin Separators
  BY DEF Nests, Part, Names, Separators
<1>2. /\ new \in Id
      /\ Len(id) \in Nat \ {0}
      /\ Len(new) = Len(id)
      /\ new[1] = "name"
      /\ \A i \in 2 .. Len(id) : new[i] = id[i]
  BY <1>1, OtherHead DEF Id
<1> HIDE DEF new
<1>3. id[1] \notin Separators /\ "^" \notin Names
  BY DEF Names, Separators
<1>4. DOMAIN new = 1 .. Len(id) /\ DOMAIN id = 1 .. Len(id)
  BY <1>1, <1>2, Parts
<1>5. SeparatorsOf(new) = SeparatorsOf(id)
  <2>1. \A i \in 1 .. Len(id) : new[i] \in Separators <=> id[i] \in Separators
    <3> TAKE i \in 1 .. Len(id)
    <3>1. i = 1 \/ i \in 2 .. Len(id)
      OBVIOUS
    <3> QED
      BY <1>1, <1>2, <1>3, <3>1
  <2> QED
    BY <1>4, <2>1 DEF SeparatorsOf
<1>6. \A i \in SeparatorsOf(id) : new[i] = id[i]
  <2> TAKE i \in SeparatorsOf(id)
  <2>1. i \in 1 .. Len(id) /\ id[i] \in Separators
    BY <1>4 DEF SeparatorsOf
  <2>2. i \in 2 .. Len(id)
    BY <1>3, <2>1
  <2> QED
    BY <1>2, <2>2
<1>7. Shaped(new)
  <2> SUFFICES ASSUME NEW i \in 2 .. Len(new), new[i] \in Names
               PROVE  new[i - 1] = ":"
    BY DEF Shaped
  <2>1. i \in 2 .. Len(id) /\ id[i] \in Names
    BY <1>2
  <2>2. id[i - 1] = ":"
    BY <1>1, <2>1 DEF Shaped
  <2>3. i - 1 # 1
    BY <1>3, <2>1, <2>2 DEF Separators
  <2>4. i - 1 \in 2 .. Len(id)
    BY <2>1, <2>3
  <2> QED
    BY <1>2, <2>2, <2>4
<1>8. Nests(new, frames, n)
  BY <1>2, <1>5, <1>6, <1>7 DEF Nests
<1>9. InArray(new) <=> InArray(id)
  <2>1. new # <<>>
    BY <1>2
  <2>2. Len(id) = 1 \/ Len(id) \in 2 .. Len(id)
    BY <1>2
  <2>3. CASE Len(id) = 1
    BY <1>2, <1>3, <2>1, <2>3 DEF InArray
  <2>4. CASE Len(id) \in 2 .. Len(id)
    BY <1>2, <2>1, <2>4 DEF InArray
  <2> QED
    BY <2>2, <2>3, <2>4
<1> QED
  BY <1>8, <1>9 DEF new

\* Without "result" and an object's separator the id tells of an object less.
LEMMA ShortenedNests ==
    ASSUME NEW id, NEW frames, Nests(id, frames, 1), Len(id) > 1,
           id[1] \in Names, id[2] = ":"
    PROVE  /\ Nests(SubSeq(id, 3, Len(id)), frames, 2)
           /\ InArray(SubSeq(id, 3, Len(id))) <=> InArray(id)
<1> DEFINE new == SubSeq(id, 3, Len(id))
           S == SeparatorsOf(id)
           T == SeparatorsOf(new)
<1>1. /\ id \in Id /\ Shaped(id)
      /\ frames \in Seq(Frame) /\ Len(frames) \in Nat
      /\ Len(frames) = 1 + UpTo(S, Len(id))
      /\ frames[1].kind = "obj"
      /\ \A i \in S : frames[1 + UpTo(S, i)].kind = KindOf(id[i])
  BY DEF Nests
<1>2. /\ new \in Id
      /\ Len(id) \in Nat /\ Len(id) - 2 \in Nat
      /\ Len(new) = Len(id) - 2
      /\ \A i \in 1 .. Len(id) - 2 : new[i] = id[i + 2]
  <2>1. /\ new \in Id
        /\ Len(id) \in Nat
        /\ Len(new) = IF 3 <= Len(id) THEN Len(id) - 2 ELSE 0
        /\ \A i \in 1 .. Len(id) - 2 : new[i] = id[i + 2]
    BY <1>1, ThirdOn DEF Id
  <2> HIDE DEF new
  <2>2. Len(id) - 2 \in Nat
    BY <2>1
  <2>3. Len(new) = Len(id) - 2
    <3>1. CASE 3 <= Len(id)
      BY <2>1, <3>1
    <3>2. CASE ~(3 <= Len(id))
      <4>0. Len(id) \in Nat
        BY <2>1
      <4>1. Len(id) = 2
        <5>1. ASSUME NEW n \in Nat, n > 1, ~(3 <= n) PROVE n = 2
          BY <5>1
        <5> QED
          BY <3>2, <4>0, <5>1
      <4>2. Len(new) = 0
        BY <2>1, <4>1
      <4> QED
        BY <4>1, <4>2
    <3> QED
      BY <3>1, <3>2
  <2> QED
    BY <2>1, <2>2, <2>3
<1> HIDE DEF new
<1>3. DOMAIN new = 1 .. Len(id) - 2 /\ DOMAIN id = 1 .. Len(id)
  BY <1>1, <1>2, Parts
<1>4. \A i \in 1 .. Len(id) - 2 : i \in T <=> i + 2 \in S
  <2> TAKE i \in 1 .. Len(id) - 2
  <2>1. i + 2 \in 1 .. Len(id)
    BY <1>2
  <2> QED
    BY <1>2, <1>3, <2>1 DEF SeparatorsOf
<1>5. /\ UpTo(S, 1) = 0 /\ UpTo(S, 2) = 1
      /\ 2 \in S
  <2>1. 1 \notin S
    BY <1>3 DEF SeparatorsOf, Names, Separators
  <2>2. 2 \in S
    BY <1>2, <1>3 DEF SeparatorsOf, Separators
  <2> HIDE DEF S
  <2>3. UpTo(S, 0 + 1) = UpTo(S, 0) + 0 /\ UpTo(S, 0) = 0
    BY <2>1, UpToNext
  <2>4. UpTo(S, 1 + 1) = UpTo(S, 1) + 1
    BY <2>2, UpToNext
  <2> QED
    BY <2>2, <2>3, <2>4
<1>6. ASSUME NEW i \in 0 .. Len(id) - 2
      PROVE  UpTo(S, i + 2) = UpTo(T, i) + 1 /\ UpTo(T, i) \in Nat
  <2>1. i \in Nat /\ \A j \in 1 .. i : j \in 1 .. Len(id) - 2
    BY <1>2
  <2>2. \A j \in 1 .. i : j \in T <=> j + 2 \in S
    BY <1>4, <2>1
  <2> HIDE DEF S, T
  <2>3. UpTo(S, i + 2) = UpTo(T, i) + UpTo(S, 2)
    BY <2>1, <2>2, UpToShift
  <2>4. UpTo(T, i) \in Nat
    BY <2>1, UpToNext
  <2> QED
    BY <1>5, <2>3, <2>4
<1>7. UpTo(S, Len(id)) = UpTo(T, Len(new)) + 1 /\ UpTo(T, Len(new)) \in Nat
  <2>1. Len(new) \in 0 .. Len(id) - 2 /\ Len(new) + 2 = Len(id)
    BY <1>2
  <2> QED
    BY <1>6, <2>1
<1>8. Len(frames) = 2 + UpTo(T, Len(new)) /\ 2 <= Len(frames)
  BY <1>1, <1>7
<1>9. \A i \in 1 .. 2 : frames[i].kind = "obj"
  <2>1. frames[2].kind = KindOf(":")
    BY <1>1, <1>5
  <2> QED
    BY <1>1, <2>1 DEF KindOf
<1>10. ASSUME NEW i \in T
       PROVE  frames[2 + UpTo(T, i)].kind = KindOf(new[i])
  <2>1. i \in 1 .. Len(id) - 2 /\ i \in 0 .. Len(id) - 2
    BY <1>2, <1>3 DEF SeparatorsOf
  <2>2. i + 2 \in S /\ new[i] = id[i + 2]
    BY <1>2, <1>4, <2>1
  <2>3. 1 + UpTo(S, i + 2) = 2 + UpTo(T, i)
    BY <1>6, <2>1
  <2>4. frames[1 + UpTo(S, i + 2)].kind = KindOf(id[i + 2])
    BY <1>1, <2>2
  <2> QED
    BY <2>2, <2>3, <2>4
<1>11. Shaped(new)
  <2> SUFFICES ASSUME NEW i \in 2 .. Len(new), new[i] \in Names
               PROVE  new[i - 1] = ":"
    BY DEF Shaped
  <2>1. /\ i \in 1 .. Len(id) - 2 /\ i - 1 \in 1 .. Len(id) - 2
        /\ i + 2 \in 2 .. Len(id) /\ (i - 1) + 2 = (i + 2) - 1
    BY <1>2
  <2>2. id[i + 2] \in Names
    BY <1>2, <2>1
  <2>3. id[(i + 2) - 1] = ":"
    BY <1>1, <2>1, <2>2 DEF Shaped
  <2> QED
    BY <1>2, <2>1, <2>3
<1>12. Nests(new, frames, 2)
  BY <1>1, <1>2, <1>8, <1>9, <1>10, <1>11 DEF Nests
<1>13. InArray(new) <=> InArray(id)
  <2>1. id # <<>>
    BY <1>2
  <2>2. CASE Len(id) = 2
    <3>1. new = <<>>
      BY <1>2, <2>2 DEF Id
    <3> QED
      BY <2>2, <3>1 DEF InArray
  <2>3. CASE Len(id) # 2
    <3>1. Len(id) - 2 \in 1 .. Len(id) - 2 /\ (Len(id) - 2) + 2 = Len(id)
      BY <1>2, <2>3
    <3>2. new[Len(new)] = id[Len(id)]
      BY <1>2, <3>1
    <3>3. new # <<>>
      BY <1>2, <3>1
    <3> QED
      BY <2>1, <3>2, <3>3 DEF InArray
  <2> QED
    BY <2>2, <2>3
<1> QED
  BY <1>12, <1>13 DEF new

-----------------------------------------------------------------------------
(* The indices as places.                                                  *)

Placed(frames, indices, depth) ==
    /\ depth = UpTo(ArraysOf(frames), Len(frames))
    /\ \A j \in ArraysOf(frames) :
          indices[UpTo(ArraysOf(frames), j) - 1] = frames[j].count

\* An open array has a number up to the depth, in the order of the arrays.
LEMMA ArrayDepth ==
    ASSUME NEW frames \in Seq(Frame)
    PROVE  /\ Len(frames) \in Nat
           /\ DOMAIN frames = 1 .. Len(frames)
           /\ ArraysOf(frames) \subseteq 1 .. Len(frames)
           /\ UpTo(ArraysOf(frames), Len(frames)) \in Nat
           /\ \A j \in ArraysOf(frames) :
                 /\ UpTo(ArraysOf(frames), j) \in Nat \ {0}
                 /\ UpTo(ArraysOf(frames), j) <= UpTo(ArraysOf(frames), Len(frames))
           /\ \A j, k \in ArraysOf(frames) :
                 j < k => UpTo(ArraysOf(frames), j) < UpTo(ArraysOf(frames), k)
<1> DEFINE A == ArraysOf(frames)
<1>1. /\ Len(frames) \in Nat
      /\ DOMAIN frames = 1 .. Len(frames)
      /\ A \subseteq 1 .. Len(frames)
  BY DEF ArraysOf
<1> HIDE DEF A
<1>2. UpTo(A, Len(frames)) \in Nat
  BY <1>1, UpToNext
<1>3. ASSUME NEW j \in A
      PROVE  UpTo(A, j) \in Nat \ {0} /\ UpTo(A, j) <= UpTo(A, Len(frames))
  <2>1. j \in Nat /\ j # 0 /\ j <= Len(frames)
    BY <1>1
  <2> QED
    BY <1>1, <2>1, UpToGrows
<1>4. ASSUME NEW j \in A, NEW k \in A, j < k
      PROVE  UpTo(A, j) < UpTo(A, k)
  <2>1. j \in Nat /\ k \in Nat
    BY <1>1
  <2> QED
    BY <1>4, <2>1, UpToGrows
<1> QED
  BY <1>1, <1>2, <1>3, <1>4 DEF A

\* An object is opened.
LEMMA ObjectPlaced ==
    ASSUME NEW frames \in Seq(Frame), NEW indices, NEW depth,
           Placed(frames, indices, depth)
    PROVE  Placed(Append(frames, [kind |-> "obj", count |-> 0]), indices, depth)
<1> DEFINE frame == [kind |-> "obj", count |-> 0]
           more == Append(frames, frame)
<1>1. frame \in Frame /\ frame.kind # "arr"
  BY DEF Frame
<1>2. /\ more \in Seq(Frame) /\ Len(frames) \in Nat
      /\ Len(more) = Len(frames) + 1
      /\ \A i \in 1 .. Len(frames) : more[i] = frames[i]
      /\ more[Len(frames) + 1] = frame
  BY <1>1, AppendParts
<1> HIDE DEF frame, more
<1>3. DOMAIN more = 1 .. Len(frames) + 1 /\ DOMAIN frames = 1 .. Len(frames)
  BY <1>2, ArrayDepth
<1>4. /\ ArraysOf(more) = ArraysOf(frames)
      /\ ArraysOf(frames) \subseteq 1 .. Len(frames)
  BY <1>1, <1>2, <1>3 DEF ArraysOf
<1>5. UpTo(ArraysOf(frames), Len(more)) = UpTo(ArraysOf(frames), Len(frames))
  <2>1. Len(frames) + 1 \notin ArraysOf(frames)
    BY <1>2, <1>4
  <2>2. /\ UpTo(ArraysOf(frames), Len(frames)) \in Nat
        /\ UpTo(ArraysOf(frames), Len(frames) + 1) =
              UpTo(ArraysOf(frames), Len(frames)) + 0
    BY <1>2, <2>1, UpToNext
  <2> QED
    BY <1>2, <2>2
<1>6. Placed(more, indices, depth)
  BY <1>2, <1>4, <1>5 DEF Placed
<1> QED
  BY <1>6 DEF more, frame

\* An array is opened, its first element has the index 0.
LEMMA ArrayPlaced ==
    ASSUME NEW frames \in Seq(Frame), NEW indices \in [Depths -> Nat],
           NEW depth \in Depths, Placed(frames, indices, depth)
    PROVE  Placed(Append(frames, [kind |-> "arr", count |-> 0]),
                  [indices EXCEPT ![depth] = 0], depth + 1)
<1> DEFINE frame == [kind |-> "arr", count |-> 0]
           more == Append(frames, frame)
           new == [indices EXCEPT ![depth] = 0]
           A == ArraysOf(frames)
           B == ArraysOf(more)
<1>1. frame \in Frame /\ frame.kind = "arr" /\ frame.count = 0
  BY DEF Frame
<1>2. /\ more \in Seq(Frame) /\ Len(frames) \in Nat
      /\ Len(more) = Len(frames) + 1
      /\ \A i \in 1 .. Len(frames) : more[i] = frames[i]
      /\ more[Len(frames) + 1] = frame
  BY <1>1, AppendParts
<1>3. /\ new[depth] = 0
      /\ \A k : k # depth => new[k] = indices[k]
  OBVIOUS
<1> HIDE DEF frame, more, new
<1>4. DOMAIN more = 1 .. Len(frames) + 1 /\ DOMAIN frames = 1 .. Len(frames)
  BY <1>2, ArrayDepth
<1>5. /\ B = A \cup {Len(frames) + 1}
      /\ A \subseteq 1 .. Len(frames)
  BY <1>1, <1>2, <1>4 DEF ArraysOf
<1>6. depth = UpTo(A, Len(frames)) /\ depth \in Nat
  BY <1>2, UpToNext DEF Placed
<1> HIDE DEF A, B
<1>7. ASSUME NEW i \in 0 .. Len(frames)
      PROVE  UpTo(B, i) = UpTo(A, i)
  <2>1. i \in Nat /\ \A j \in 1 .. i : j # Len(frames) + 1
    BY <1>2
  <2> QED
    BY <1>5, <2>1, UpToSame
<1>8. UpTo(B, Len(more)) = depth + 1
  <2>1. UpTo(B, Len(frames)) = UpTo(A, Len(frames))
    BY <1>2, <1>7
  <2>2. Len(frames) + 1 \in B
    BY <1>5
  <2>3. UpTo(B, Len(frames) + 1) = UpTo(B, Len(frames)) + 1
    BY <1>2, <2>2, UpToNext
  <2> QED
    BY <1>2, <1>6, <2>1, <2>3
<1>9. ASSUME NEW j \in B
      PROVE  new[UpTo(B, j) - 1] = more[j].count
  <2>1. CASE j \in A
    <3>1. j \in 1 .. Len(frames) /\ j \in 0 .. Len(frames)
      BY <1>2, <1>5, <2>1
    <3>2. UpTo(A, j) \in Nat \ {0} /\ UpTo(A, j) <= depth
      BY <1>6, <2>1, ArrayDepth DEF A
    <3>3. UpTo(A, j) - 1 # depth
      BY <1>6, <3>2
    <3>4. indices[UpTo(A, j) - 1] = frames[j].count
      BY <2>1 DEF Placed, A
    <3> QED
      BY <1>2, <1>3, <1>7, <3>1, <3>3, <3>4
  <2>2. CASE j = Len(frames) + 1
    <3>1. UpTo(B, j) - 1 = depth
      BY <1>2, <1>6, <1>8, <2>2
    <3> QED
      BY <1>1, <1>2, <1>3, <2>2, <3>1
  <2> QED
    BY <1>5, <2>1, <2>2
<1>10. Placed(more, new, depth + 1)
  BY <1>8, <1>9 DEF Placed, B
<1> QED
  BY <1>10 DEF more, frame, new

\* What is left of the open arrays when the innermost frame is closed.
LEMMA FrontArrays ==
    ASSUME NEW frames \in Seq(Frame), frames # <<>>
    PROVE  /\ Len(frames) \in Nat \ {0}
           /\ Len(Front(frames)) = Len(frames) - 1
           /\ ArraysOf(Front(frames)) = ArraysOf(frames) \ {Len(frames)}
           /\ \A j \in ArraysOf(Front(frames)) :
                 /\ j \in ArraysOf(frames) /\ j < Len(frames)
                 /\ Front(frames)[j] = frames[j]
                 /\ UpTo(ArraysOf(Front(frames)), j) = UpTo(ArraysOf(frames), j)
           /\ UpTo(ArraysOf(Front(frames)), Len(Front(frames))) =
                 UpTo(ArraysOf(frames), Len(frames)) -
                    IF frames[Len(frames)].kind = "arr" THEN 1 ELSE 0
<1> DEFINE less == Front(frames)
           A == ArraysOf(frames)
           B == ArraysOf(less)
<1>1. /\ Len(frames) \in Nat \ {0}
      /\ less \in Seq(Frame)
      /\ Len(less) = Len(frames) - 1
      /\ \A i \in 1 .. Len(frames) - 1 : less[i] = frames[i]
  BY FrontParts
<1> HIDE DEF less
<1>2. DOMAIN less = 1 .. Len(frames) - 1 /\ DOMAIN frames = 1 .. Len(frames)
  BY <1>1, ArrayDepth
<1>3. /\ B = A \ {Len(frames)}
      /\ A \subseteq 1 .. Len(frames)
      /\ Len(frames) \in A <=> frames[Len(frames)].kind = "arr"
  BY <1>1, <1>2 DEF ArraysOf
<1> HIDE DEF A, B
<1>4. ASSUME NEW i \in 0 .. Len(frames) - 1
      PROVE  UpTo(B, i) = UpTo(A, i)
  <2>1. i \in Nat /\ \A j \in 1 .. i : j # Len(frames)
    BY <1>1
  <2> QED
    BY <1>3, <2>1, UpToSame
<1>5. ASSUME NEW j \in B
      PROVE  /\ j \in A /\ j < Len(frames)
             /\ less[j] = frames[j]
             /\ UpTo(B, j) = UpTo(A, j)
  <2>0. j \in A /\ j \in 1 .. Len(frames) /\ j # Len(frames)
    BY <1>3
  <2>1. j \in A /\ j \in 1 .. Len(frames) - 1 /\ j \in 0 .. Len(frames) - 1
    BY <1>1, <2>0
  <2>2. j < Len(frames)
    BY <1>1, <2>1
  <2> QED
    BY <1>1, <1>4, <2>1, <2>2
<1>6. UpTo(B, Len(less)) =
         UpTo(A, Len(frames)) - IF frames[Len(frames)].kind = "arr" THEN 1 ELSE 0
  <2>1. Len(less) \in 0 .. Len(frames) - 1 /\ Len(less) \in Nat
        /\ Len(less) + 1 = Len(frames)
    BY <1>1
  <2>2. UpTo(B, Len(less)) = UpTo(A, Len(less))
    BY <1>4, <2>1
  <2>3. /\ UpTo(A, Len(less)) \in Nat
        /\ UpTo(A, Len(less) + 1) =
              UpTo(A, Len(less)) + IF Len(less) + 1 \in A THEN 1 ELSE 0
    BY <2>1, UpToNext
  <2> QED
    BY <1>3, <2>1, <2>2, <2>3
<1> QED
  BY <1>1, <1>3, <1>5, <1>6 DEF less, A, B

\* The innermost object is closed.
LEMMA ObjectClosed ==
    ASSUME NEW frames \in Seq(Frame), NEW indices, NEW depth,
           Placed(frames, indices, depth),
           frames # <<>>, frames[Len(frames)].kind = "obj"
    PROVE  Placed(Front(frames), indices, depth)
<1>1. UpTo(ArraysOf(Front(frames)), Len(Front(frames))) =
         UpTo(ArraysOf(frames), Len(frames))
  BY FrontArrays, ArrayDepth
<1>2. ASSUME NEW j \in ArraysOf(Front(frames))
      PROVE  indices[UpTo(ArraysOf(Front(frames)), j) - 1] = Front(frames)[j].count
  BY FrontArrays DEF Placed
<1> QED
  BY <1>1, <1>2 DEF Placed

\* The innermost array is closed; what its index becomes does not matter.
LEMMA ArrayClosed ==
    ASSUME NEW frames \in Seq(Frame), NEW old, NEW indices, NEW depth,
           Placed(frames, old, depth),
           frames # <<>>, frames[Len(frames)].kind = "arr",
           \A k : k # depth - 1 => indices[k] = old[k]
    PROVE  /\ depth \in Nat \ {0}
           /\ Placed(Front(frames), indices, depth - 1)
<1>1. Len(frames) \in ArraysOf(frames)
  BY FrontArrays DEF ArraysOf
<1>2. depth \in Nat \ {0} /\ depth = UpTo(ArraysOf(frames), Len(frames))
  BY <1>1, ArrayDepth DEF Placed
<1>3. UpTo(ArraysOf(Front(frames)), Len(Front(frames))) = depth - 1
  BY <1>2, FrontArrays
<1>4. ASSUME NEW j \in ArraysOf(Front(frames))
      PROVE  indices[UpTo(ArraysOf(Front(frames)), j) - 1] = Front(frames)[j].count
  <2>1. /\ j \in ArraysOf(frames) /\ j < Len(frames)
        /\ Front(frames)[j] = frames[j]
        /\ UpTo(ArraysOf(Front(frames)), j) = UpTo(ArraysOf(frames), j)
    BY FrontArrays
  <2>2. UpTo(ArraysOf(frames), j) < depth /\ UpTo(ArraysOf(frames), j) \in Nat
    BY <1>1, <1>2, <2>1, ArrayDepth
  <2>3. UpTo(ArraysOf(frames), j) - 1 # depth - 1
    BY <1>2, <2>2
  <2>4. old[UpTo(ArraysOf(frames), j) - 1] = frames[j].count
    BY <2>1 DEF Placed
  <2> QED
    BY <2>1, <2>3, <2>4
<1> QED
  BY <1>2, <1>3, <1>4 DEF Placed

\* One element more is counted in the innermost array.
LEMMA ElementPlaced ==
    ASSUME NEW frames \in Seq(Frame), NEW indices \in [Depths -> Nat],
           NEW depth \in 0 .. MaxArrayNesting, Placed(frames, indices, depth),
           frames # <<>>, frames[Len(frames)].kind = "arr"
    PROVE  Placed([frames EXCEPT ![Len(frames)] =
                     [kind |-> "arr", count |-> frames[Len(frames)].count + 1]],
                  [indices EXCEPT ![depth - 1] = @ + 1], depth)
<1> DEFINE frame == [kind |-> "arr", count |-> frames[Len(frames)].count + 1]
           more == [frames EXCEPT ![Len(frames)] = frame]
           new == [indices EXCEPT ![depth - 1] = @ + 1]
           A == ArraysOf(frames)
<1>1. /\ Len(frames) \in Nat \ {0}
      /\ DOMAIN frames = 1 .. Len(frames)
      /\ Len(frames) \in 1 .. Len(frames)
  BY FrontArrays, ArrayDepth
<1>2. Len(frames) \in A
  BY <1>1 DEF ArraysOf
<1>3. /\ depth \in Nat \ {0} /\ depth = UpTo(A, Len(frames))
      /\ depth - 1 \in Depths
  <2>1. depth \in Nat \ {0} /\ depth = UpTo(A, Len(frames))
    BY <1>2, ArrayDepth DEF Placed
  <2> QED
    BY <2>1, JsonAssumption DEF Depths
<1>4. /\ new[depth - 1] = indices[depth - 1] + 1
      /\ \A k \in Depths : k # depth - 1 => new[k] = indices[k]
      /\ \A k : k # depth - 1 => new[k] = indices[k]
  BY <1>3
<1>5. /\ DOMAIN more = 1 .. Len(frames)
      /\ more[Len(frames)] = frame
      /\ \A i \in 1 .. Len(frames) : i # Len(frames) => more[i] = frames[i]
  BY <1>1
<1>6. Len(more) = Len(frames)
  BY <1>1
<1>7. frame.kind = "arr" /\ frame.count = frames[Len(frames)].count + 1
  OBVIOUS
<1> HIDE DEF frame, more, new
<1>8. ArraysOf(more) = A
  BY <1>1, <1>5, <1>7 DEF ArraysOf
<1>9. ASSUME NEW j \in A
      PROVE  new[UpTo(A, j) - 1] = more[j].count
  <2>1. indices[UpTo(A, j) - 1] = frames[j].count
    BY DEF Placed
  <2>2. CASE j = Len(frames)
    BY <1>3, <1>4, <1>5, <1>7, <2>1, <2>2
  <2>3. CASE j # Len(frames)
    <3>1. j \in 1 .. Len(frames) /\ j < Len(frames)
      BY <1>1, <2>3, ArrayDepth
    <3>2. UpTo(A, j) < depth /\ UpTo(A, j) \in Nat
      BY <1>2, <1>3, <3>1, ArrayDepth
    <3>3. UpTo(A, j) - 1 # depth - 1
      BY <1>3, <3>2
    <3> QED
      BY <1>4, <1>5, <2>1, <2>3, <3>1, <3>3
  <2> QED
    BY <2>2, <2>3
<1>10. Placed(more, new, depth)
  BY <1>3, <1>6, <1>8, <1>9 DEF Placed
<1> QED
  BY <1>10 DEF more, new, frame

-----------------------------------------------------------------------------
(* What the parser knows of the message.                                   *)

UntoldBy(gone) == IF gone = "" THEN 1 ELSE 2

\* Unless an array's separator is gone, the id and the indices tell of all that
\* is open.
Tells(id, gone, frames, indices, depth) ==
    /\ ResultFirst(id, gone)
    /\ gone # "^" => /\ gone \in {"", ":"}
                     /\ Nests(id, frames, UntoldBy(gone))
                     /\ Placed(frames, indices, depth)

Naming == {"jsExpectId", "jsId", "jsHadId"}

NestInv ==
    /\ Reading => Tells(fieldId, erased, open, arrayIndices, arrayDepth)
    /\ Reading /\ Derailed => Len(open) # 1 \/ state = "jsEndVal"
    /\ Reading /\ ~Derailed /\ state \in Naming => ~InArray(fieldId)
    /\ EndsWithNesting

\* No part of the id is "result" that was not before.
LEMMA FewerNames ==
    ASSUME NEW id \in Id, NEW gone, ResultFirst(id, gone)
    PROVE  /\ RemoveLastId(id) \in Id /\ RemoveLastIdChar(id) \in Id
           /\ ResultFirst(<<>>, gone)
           /\ ResultFirst(RemoveLastId(id), gone)
           /\ ResultFirst(RemoveLastIdChar(id), gone)
<1>1. id # <<>> => ResultFirst(Front(id), gone)
  <2> SUFFICES ASSUME id # <<>> PROVE ResultFirst(Front(id), gone)
    OBVIOUS
  <2>1. /\ Len(id) \in Nat \ {0}
        /\ Len(Front(id)) = Len(id) - 1
        /\ \A i \in 1 .. Len(id) - 1 : Front(id)[i] = id[i]
    BY FrontSeparators
  <2> SUFFICES ASSUME NEW i \in 1 .. Len(Front(id)), Front(id)[i] = "result"
               PROVE  i = 1 /\ gone = ""
    BY DEF ResultFirst
  <2>2. i \in 1 .. Len(id) - 1 /\ i \in 1 .. Len(id)
    BY <2>1
  <2> QED
    BY <2>1, <2>2 DEF ResultFirst
<1>2. ResultFirst(<<>>, gone)
  <2>1. Len(<<>>) = 0
    OBVIOUS
  <2>2. 1 .. Len(<<>>) = {}
    BY <2>1
  <2> QED
    BY <2>2 DEF ResultFirst
<1>3. id # <<>> => Front(id) \in Id
  BY FrontSeparators
<1> QED
  BY <1>1, <1>2, <1>3 DEF RemoveLastId, RemoveLastIdChar

LEMMA MoreParts ==
    ASSUME NEW id \in Id, NEW gone, ResultFirst(id, gone),
           NEW e \in Part, e # "result"
    PROVE  ResultFirst(Append(id, e), gone)
<1>1. /\ Len(id) \in Nat
      /\ Len(Append(id, e)) = Len(id) + 1
      /\ \A i \in 1 .. Len(id) : Append(id, e)[i] = id[i]
      /\ Append(id, e)[Len(id) + 1] = e
  BY AppendParts DEF Id
<1> SUFFICES ASSUME NEW i \in 1 .. Len(Append(id, e)), Append(id, e)[i] = "result"
             PROVE  i = 1 /\ gone = ""
  BY DEF ResultFirst
<1>2. i # Len(id) + 1
  BY <1>1
<1>3. i \in 1 .. Len(id)
  BY <1>1, <1>2
<1> QED
  BY <1>1, <1>3 DEF ResultFirst

\* The callback leaves an id that tells as much, unless it erases the
\* separator of an array.
LEMMA CallbackTells ==
    ASSUME fieldId \in Id,
           Tells(fieldId, erased, open, arrayIndices, arrayDepth)
    PROVE  /\ Tells(Rewritten(fieldId), Erased(fieldId), open, arrayIndices,
                    arrayDepth)
           /\ Rewritten(fieldId) \in Id
           /\ Erased(fieldId) # "^" =>
                 (InArray(Rewritten(fieldId)) <=> InArray(fieldId))
           /\ Derailed => Erased(fieldId) = "^"
           /\ Erased(fieldId) = "^" => Derailed \/ Len(open) > 1
<1> DEFINE new == Rewritten(fieldId)
<1>1. /\ Len(fieldId) \in Nat
      /\ fieldId # <<>> => Len(fieldId) # 0 /\ 1 \in 1 .. Len(fieldId)
  BY DEF Id
<1>2. ResultFirst(fieldId, erased)
  BY DEF Tells
<1>3. CASE ~(fieldId # <<>> /\ fieldId[1] = "result")
  <2>1. Rewritten(fieldId) = fieldId
    BY <1>3 DEF Rewritten
  <2>2. Erased(fieldId) = erased
    BY <1>3 DEF Erased
  <2> QED
    BY <2>1, <2>2 DEF Derailed
<1>4. CASE fieldId # <<>> /\ fieldId[1] = "result"
  <2>1. erased = "" /\ ~Derailed
    BY <1>1, <1>2, <1>4 DEF ResultFirst, Derailed
  <2>2. /\ Nests(fieldId, open, 1)
        /\ Placed(open, arrayIndices, arrayDepth)
    BY <2>1 DEF Tells, UntoldBy
  <2>3. fieldId[1] \in Names
    BY <1>4 DEF Names
  <2>4. \A i \in 2 .. Len(fieldId) : fieldId[i] # "result"
    <3> TAKE i \in 2 .. Len(fieldId)
    <3>1. i \in 1 .. Len(fieldId) /\ i # 1
      BY <1>1
    <3> QED
      BY <1>2, <3>1 DEF ResultFirst
  <2>5. CASE keyed
    <3>1. Rewritten(fieldId) = <<"name">> \o Tail(fieldId)
      BY <1>4, <2>5 DEF Rewritten
    <3>2. Erased(fieldId) = ""
      BY <2>1, <2>5 DEF Erased
    <3>3. /\ Nests(new, open, 1)
          /\ InArray(new) <=> InArray(fieldId)
      BY <1>4, <2>2, <2>3, <3>1, RenamedNests
    <3>4. /\ Len(new) = Len(fieldId)
          /\ new[1] = "name"
          /\ \A i \in 2 .. Len(fieldId) : new[i] = fieldId[i]
      BY <1>4, <3>1, OtherHead DEF Id, Part, Names
    <3>5. ResultFirst(new, "")
      <4> SUFFICES ASSUME NEW i \in 1 .. Len(new), new[i] = "result"
                   PROVE  i = 1
        BY DEF ResultFirst
      <4>1. i = 1 \/ i \in 2 .. Len(fieldId)
        BY <1>1, <3>4
      <4> QED
        BY <2>4, <3>4, <4>1
    <3>6. new \in Id
      BY <3>3 DEF Nests
    <3> HIDE DEF new
    <3>7. Tells(new, Erased(fieldId), open, arrayIndices, arrayDepth)
      BY <2>2, <3>2, <3>3, <3>5 DEF Tells, UntoldBy
    <3> QED
      BY <2>1, <3>2, <3>3, <3>6, <3>7 DEF new
  <2>6. CASE ~keyed /\ ~(Len(fieldId) > 1)
    <3>1. Len(fieldId) = 1
      BY <1>1, <1>4, <2>6
    <3>2. Erased(fieldId) = ""
      BY <2>1, <2>6 DEF Erased
    <3>3. new = <<>>
      <4>1. Rewritten(fieldId) = SubSeq(fieldId, 3, Len(fieldId))
        BY <1>4, <2>6 DEF Rewritten
      <4>2. /\ SubSeq(fieldId, 3, Len(fieldId)) \in Seq(Part)
            /\ Len(SubSeq(fieldId, 3, Len(fieldId))) =
                  IF 3 <= Len(fieldId) THEN Len(fieldId) - 2 ELSE 0
        BY ThirdOn DEF Id
      <4>3. Len(SubSeq(fieldId, 3, Len(fieldId))) = 0
        BY <3>1, <4>2
      <4> QED
        BY <4>1, <4>2, <4>3
    <3>4. Nests(<<>>, open, 1)
      <4>1. RemoveLastId(fieldId) = Front(fieldId)
        BY <1>4, <2>3, <3>1 DEF RemoveLastId
      <4>2. /\ Front(fieldId) \in Seq(Part)
            /\ Len(Front(fieldId)) = 0
        BY <1>4, <3>1, FrontSeparators DEF Id
      <4>3. RemoveLastId(fieldId) = <<>>
        BY <4>1, <4>2
      <4> QED
        BY <2>2, <4>3, RemoveLastIdNests
    <3>5. ~InArray(fieldId) /\ ~InArray(<<>>)
      BY <1>4, <3>1 DEF InArray
    <3>6. ResultFirst(<<>>, "") /\ <<>> \in Id
      BY <1>2, <2>1, <3>4, FewerNames DEF Nests
    <3>7. Tells(<<>>, Erased(fieldId), open, arrayIndices, arrayDepth)
      BY <2>2, <3>2, <3>4, <3>6 DEF Tells, UntoldBy
    <3> QED
      BY <2>1, <3>2, <3>3, <3>5, <3>6, <3>7
  <2>7. CASE ~keyed /\ Len(fieldId) > 1
    <3>1. Rewritten(fieldId) = SubSeq(fieldId, 3, Len(fieldId))
      BY <1>4, <2>7 DEF Rewritten
    <3>2. Erased(fieldId) = fieldId[2]
      BY <1>4, <2>7 DEF Erased
    <3>3. fieldId[2] \in Separators /\ 2 \in SeparatorsOf(fieldId)
      <4>1. 2 \in 1 .. Len(fieldId) /\ 2 \in 2 .. Len(fieldId)
        BY <1>1, <2>7
      <4>2. fieldId[2 - 1] # ":"
        BY <1>4
      <4>3. fieldId[2] \notin Names
        BY <2>2, <4>1, <4>2 DEF Nests, Shaped
      <4> QED
        BY <4>1, <4>3, Parts DEF SeparatorsOf
    <3>4. /\ new \in Id
          /\ \A i \in 1 .. Len(new) : new[i] # "result"
      <4>1. /\ SubSeq(fieldId, 3, Len(fieldId)) \in Seq(Part)
            /\ Len(SubSeq(fieldId, 3, Len(fieldId))) =
                  IF 3 <= Len(fieldId) THEN Len(fieldId) - 2 ELSE 0
            /\ \A i \in 1 .. Len(fieldId) - 2 :
                  SubSeq(fieldId, 3, Len(fieldId))[i] = fieldId[i + 2]
        BY ThirdOn DEF Id
      <4>2. new \in Id
        BY <3>1, <4>1 DEF Id
      <4> SUFFICES ASSUME NEW i \in 1 .. Len(new) PROVE new[i] # "result"
        BY <4>2
      <4>3. i \in 1 .. Len(fieldId) - 2 /\ i + 2 \in 2 .. Len(fieldId)
        BY <1>1, <3>1, <4>1
      <4> QED
        BY <2>4, <3>1, <4>1, <4>3
    <3>5. ResultFirst(new, Erased(fieldId))
      BY <3>4 DEF ResultFirst
    <3>6. CASE fieldId[2] = ":"
      <4>1. /\ Nests(new, open, 2)
            /\ InArray(new) <=> InArray(fieldId)
        BY <2>2, <2>3, <2>7, <3>1, <3>6, ShortenedNests
      <4>2. Erased(fieldId) = ":"
        BY <3>2, <3>6
      <4> HIDE DEF new
      <4>3. Tells(new, Erased(fieldId), open, arrayIndices, arrayDepth)
        BY <2>2, <3>5, <4>1, <4>2 DEF Tells, UntoldBy
      <4> QED
        BY <2>1, <3>4, <4>1, <4>2, <4>3 DEF new
    <3>7. CASE fieldId[2] = "^"
      <4>1. Erased(fieldId) = "^"
        BY <3>2, <3>7
      <4>2. Len(open) > 1
        <5>1. 1 + UpTo(SeparatorsOf(fieldId), 2) \in 1 + 1 .. Len(open)
          BY <2>2, <3>3, Depth
        <5>2. Len(open) \in Nat
          BY <2>2 DEF Nests
        <5> QED
          BY <5>1, <5>2
      <4> HIDE DEF new
      <4>3. Tells(new, Erased(fieldId), open, arrayIndices, arrayDepth)
        BY <3>5, <4>1 DEF Tells
      <4> QED
        BY <2>1, <3>4, <4>1, <4>2, <4>3 DEF new
    <3> QED
      BY <3>3, <3>6, <3>7 DEF Separators
  <2> QED
    BY <2>5, <2>6, <2>7
<1> QED
  BY <1>3, <1>4

-----------------------------------------------------------------------------
(* Every action keeps it so.                                               *)

\* Nothing but the state changes.
LEMMA GotoNests ==
    ASSUME NestInv, NEW s, Goto(s),
           \/ s \in {"jsBegin", "jsError"}
           \/ Reading /\ state # "jsEndVal" /\ (s \in Naming => state \in Naming)
    PROVE  NestInv'
<1>1. /\ state' = s /\ ended' = FALSE
      /\ fieldId' = fieldId /\ arrayIndices' = arrayIndices
      /\ arrayDepth' = arrayDepth /\ open' = open /\ erased' = erased
  BY DEF Goto
<1>2. EndsWithNesting' /\ (Derailed' <=> Derailed)
  BY <1>1 DEF EndsWithNesting, Derailed
<1>3. CASE s \in {"jsBegin", "jsError"}
  <2>1. ~Reading'
    BY <1>1, <1>3 DEF Reading
  <2> QED
    BY <1>2, <2>1 DEF NestInv
<1>4. CASE Reading /\ state # "jsEndVal" /\ (s \in Naming => state \in Naming)
  <2>1. /\ Tells(fieldId, erased, open, arrayIndices, arrayDepth)
        /\ Derailed => Len(open) # 1
        /\ ~Derailed /\ s \in Naming => ~InArray(fieldId)
    BY <1>4 DEF NestInv
  <2>2. Tells(fieldId', erased', open', arrayIndices', arrayDepth')
    BY <1>1, <2>1
  <2>3. ~Derailed' /\ state' \in Naming => ~InArray(fieldId')
    BY <1>1, <1>2, <2>1
  <2>4. Derailed' => Len(open') # 1
    BY <1>1, <1>2, <2>1
  <2> QED
    BY <1>2, <2>2, <2>3, <2>4 DEF NestInv
<1> QED
  BY <1>3, <1>4

\* The end of an object; id and gone are what the callback, if any, has left.
LEMMA ObjectEnds ==
    ASSUME Inv, NEW id \in Id, NEW gone, NEW keys,
           erased' = gone, Derailed => gone = "^",
           Tells(id, gone, open, arrayIndices, arrayDepth),
           gone # "^" => ~InArray(id),
           EndObject(RemoveLastId(id), keys)
    PROVE  NestInv'
<1> DEFINE rest == RemoveLastId(id)
<1>1. /\ rest \in Id
      /\ ResultFirst(<<>>, gone)
      /\ ResultFirst(rest, gone)
      /\ ResultFirst(RemoveLastIdChar(rest), gone)
  BY FewerNames DEF Tells
<1>2. /\ open' = Closed("obj")
      /\ arrayIndices' = arrayIndices /\ arrayDepth' = arrayDepth
      /\ \/ rest = <<>> /\ state' = "jsBegin" /\ fieldId' = <<>>
         \/ /\ rest # <<>> /\ state' = "jsEndVal" /\ ended' = FALSE
            /\ fieldId' = RemoveLastIdChar(rest)
  BY DEF EndObject
<1>3. CASE gone = "^"
  <2>1. Derailed'
    BY <1>3 DEF Derailed
  <2>2. Tells(fieldId', erased', open', arrayIndices', arrayDepth')
    BY <1>1, <1>2, <1>3 DEF Tells
  <2>3. ~Reading' \/ state' = "jsEndVal"
    BY <1>2 DEF Reading
  <2>4. EndsWithNesting'
    BY <2>1 DEF EndsWithNesting
  <2> QED
    BY <2>1, <2>2, <2>3, <2>4 DEF NestInv
<1>4. CASE gone # "^"
  <2> DEFINE n == UntoldBy(gone)
  <2>1. /\ ~Derailed /\ gone \in {"", ":"}
        /\ Nests(id, open, n) /\ ~InArray(id)
        /\ Placed(open, arrayIndices, arrayDepth)
    BY <1>4 DEF Tells
  <2>2. /\ Nests(rest, open, n)
        /\ rest = <<>> \/ rest[Len(rest)] \in Separators
    BY <2>1, RemoveLastIdNests
  <2>3. /\ open # <<>> /\ open[Len(open)].kind = "obj"
    BY <2>1, Innermost
  <2>4. open' = Front(open)
    BY <1>2, <2>1, <2>3 DEF Closed
  <2>5. open \in Seq(Frame)
    BY DEF Inv, RestOK
  <2> HIDE DEF rest, n
  <2>6. CASE rest = <<>>
    <3>1. ~Reading'
      BY <1>2, <2>6 DEF Reading
    <3>2. Len(open) = n
      <4>1. /\ Len(rest) = 0
            /\ Len(open) = n + UpTo(SeparatorsOf(rest), Len(rest))
            /\ n \in {1, 2}
        BY <2>2, <2>6 DEF Nests
      <4>2. UpTo(SeparatorsOf(rest), 0) = 0
        BY UpToNext
      <4> QED
        BY <4>1, <4>2
    <3>3. Len(open') = Len(open) - 1
      BY <2>3, <2>4, <2>5, FrontParts
    <3>4. EndsWithNesting'
      <4>2. Len(open') = n - 1
        BY <3>2, <3>3
      <4>3. CASE gone = ""
        <5>0. n = 1
          BY <4>3 DEF n, UntoldBy
        <5>1. Len(open') = 0
          BY <4>2, <5>0
        <5> QED
          BY <4>3, <5>1 DEF EndsWithNesting
      <4>4. CASE gone # ""
        <5>0. n = 2
          BY <4>4 DEF n, UntoldBy
        <5>1. Len(open') = 1
          BY <4>2, <5>0
        <5> QED
          BY <4>4, <5>1 DEF EndsWithNesting
      <4> QED
        BY <4>3, <4>4
    <3> QED
      BY <3>1, <3>4 DEF NestInv
  <2>7. CASE rest # <<>>
    <3>1. /\ state' = "jsEndVal" /\ ended' = FALSE
          /\ fieldId' = Front(rest)
      BY <1>2, <2>7 DEF RemoveLastIdChar
    <3>2. Nests(fieldId', open', n)
      BY <2>2, <2>4, <2>7, <3>1, CloseNests
    <3>3. Placed(open', arrayIndices', arrayDepth')
      BY <1>2, <2>1, <2>3, <2>4, <2>5, ObjectClosed
    <3>4. ResultFirst(fieldId', gone)
      BY <1>1, <1>2, <2>7
    <3>5. Tells(fieldId', erased', open', arrayIndices', arrayDepth')
      BY <1>4, <2>1, <3>2, <3>3, <3>4 DEF Tells, n
    <3>6. EndsWithNesting'
      BY <3>1 DEF EndsWithNesting
    <3> QED
      BY <3>1, <3>5, <3>6 DEF NestInv, Naming
  <2> QED
    BY <2>6, <2>7
<1> QED
  BY <1>3, <1>4

\* The end of an array; its index may have been counted up.
LEMMA ArrayEnds ==
    ASSUME Inv, NEW id \in Id, NEW gone,
           erased' = gone, Derailed => gone = "^",
           Tells(id, gone, open, arrayIndices, arrayDepth),
           gone # "^" => InArray(id),
           EndArray(id),
           \A k : k # arrayDepth - 1 => arrayIndices'[k] = arrayIndices[k]
    PROVE  NestInv'
<1>1. /\ state' = "jsEndVal"
      /\ fieldId' = IF arrayDepth # 0 THEN RemoveLastIdChar(id) ELSE id
      /\ arrayDepth' = IF arrayDepth # 0 THEN arrayDepth - 1 ELSE 0
      /\ open' = Closed("arr")
      /\ ended' = FALSE
  BY DEF EndArray
<1>2. ResultFirst(fieldId', gone)
  BY <1>1, FewerNames DEF Tells
<1>3. EndsWithNesting'
  BY <1>1 DEF EndsWithNesting
<1>4. Tells(fieldId', erased', open', arrayIndices', arrayDepth')
  <2>1. CASE gone = "^"
    BY <1>2, <2>1 DEF Tells
  <2>2. CASE gone # "^"
    <3> DEFINE n == UntoldBy(gone)
    <3>1. /\ ~Derailed /\ gone \in {"", ":"}
          /\ Nests(id, open, n) /\ InArray(id)
          /\ Placed(open, arrayIndices, arrayDepth)
      BY <2>2 DEF Tells
    <3>2. open # <<>> /\ open[Len(open)].kind = "arr"
      BY <3>1, Innermost
    <3>3. open' = Front(open)
      BY <1>1, <3>1, <3>2 DEF Closed
    <3>4. open \in Seq(Frame)
      BY DEF Inv, RestOK
    <3> HIDE DEF n
    <3>5. /\ arrayDepth \in Nat \ {0}
          /\ Placed(open', arrayIndices', arrayDepth - 1)
      BY <3>1, <3>2, <3>3, <3>4, ArrayClosed
    <3>6. fieldId' = Front(id) /\ arrayDepth' = arrayDepth - 1
      BY <1>1, <3>1, <3>5 DEF RemoveLastIdChar, InArray
    <3>7. id # <<>> /\ id[Len(id)] \in Separators
      BY <3>1 DEF InArray, Separators
    <3>8. Nests(fieldId', open', n)
      BY <3>1, <3>3, <3>6, <3>7, CloseNests
    <3> QED
      BY <1>2, <2>2, <3>1, <3>5, <3>6, <3>8 DEF Tells, n
  <2> QED
    BY <2>1, <2>2
<1> QED
  BY <1>1, <1>3, <1>4 DEF NestInv, Naming

\* The end of a value; id and gone are what the callback, if any, has left.
LEMMA ValueEnds ==
    ASSUME Inv, NEW c, NEW id \in Id, NEW gone, NEW keys,
           erased' = gone, Derailed => gone = "^",
           gone = "^" => Derailed \/ Len(open) > 1,
           Tells(id, gone, open, arrayIndices, arrayDepth),
           gone # "^" => (InArray(id) <=> InArray(fieldId)),
           CheckValueCompleted(c, id, keys)
    PROVE  NestInv'
<1>1. /\ open \in Seq(Frame)
      /\ arrayIndices \in [Depths -> Nat]
      /\ arrayDepth \in 0 .. MaxArrayNesting
  BY DEF Inv, RestOK, IdOK
<1>2. ResultFirst(id, gone) /\ ResultFirst(RemoveLastId(id), gone)
  BY FewerNames DEF Tells
<1>3. CASE /\ c = ","
           /\ IF InArray(id)
              THEN /\ EndElement
                   /\ state' = "jsVal"
                   /\ fieldId' = id
              ELSE /\ state' = "jsExpectId"
                   /\ fieldId' = RemoveLastId(id)
                   /\ UNCHANGED arrayIndices
           /\ open' = Counted
           /\ ended' = FALSE
           /\ UNCHANGED arrayDepth
  <2>1. EndsWithNesting'
    BY <1>3 DEF EndsWithNesting
  <2>2. CASE gone = "^"
    <3>1. fieldId' \in {id, RemoveLastId(id)}
      BY <1>3
    <3>2. Tells(fieldId', erased', open', arrayIndices', arrayDepth')
      BY <1>2, <2>2, <3>1 DEF Tells
    <3>3. Len(open') # 1
      <4>1. CASE Derailed
        <5>1. open' = <<>>
          BY <1>3, <4>1 DEF Counted
        <5> QED
          BY <5>1
      <4>2. CASE ~Derailed
        <5>1. Len(open) > 1 /\ Len(open) \in Nat
          BY <1>1, <2>2, <4>2
        <5>2. Len(open') = Len(open)
          <6> DEFINE frame == [kind |-> "arr", count |-> open[Len(open)].count + 1]
          <6>1. Len([open EXCEPT ![Len(open)] = frame]) = Len(open)
            BY <1>1
          <6>2. open' \in {open, [open EXCEPT ![Len(open)] = frame]}
            BY <1>3, <4>2 DEF Counted
          <6> QED
            BY <6>1, <6>2
        <5> QED
          BY <5>1, <5>2
      <4> QED
        BY <4>1, <4>2
    <3>4. Derailed'
      BY <2>2 DEF Derailed
    <3> QED
      BY <2>1, <3>2, <3>3, <3>4 DEF NestInv
  <2>3. CASE gone # "^"
    <3> DEFINE n == UntoldBy(gone)
    <3>1. /\ ~Derailed /\ ~Derailed' /\ gone \in {"", ":"}
          /\ Nests(id, open, n)
          /\ Placed(open, arrayIndices, arrayDepth)
      BY <2>3 DEF Tells, Derailed
    <3> HIDE DEF n
    <3>2. CASE InArray(id)
      <4>1. open # <<>> /\ open[Len(open)].kind = "arr" /\ Len(open) \in 1 .. Len(open)
        BY <3>1, <3>2, Innermost
      <4>2. open' = [open EXCEPT ![Len(open)] =
                        [kind |-> "arr", count |-> open[Len(open)].count + 1]]
        BY <1>3, <3>1, <4>1 DEF Counted
      <4>3. arrayIndices' = [arrayIndices EXCEPT ![arrayDepth - 1] = @ + 1]
        BY <1>3, <3>2 DEF EndElement, CountElement
      <4>4. Placed(open', arrayIndices', arrayDepth')
        BY <1>1, <1>3, <3>1, <4>1, <4>2, <4>3, ElementPlaced
      <4>5. Nests(id, open', n)
        <5>1. [kind |-> "arr", count |-> open[Len(open)].count + 1] \in Frame
          <6>1. open[Len(open)] \in Frame
            BY <1>1, <4>1, ElementOfSeq
          <6> QED
            BY <6>1 DEF Frame
        <5>2. /\ open' \in Seq(Frame) /\ Len(open') = Len(open)
              /\ \A i \in 1 .. Len(open) :
                    open'[i] = IF i = Len(open)
                               THEN [kind |-> "arr",
                                     count |-> open[Len(open)].count + 1]
                               ELSE open[i]
          BY <1>1, <4>1, <4>2, <5>1, ExceptSeq
        <5>3. \A i \in 1 .. Len(open) : open'[i].kind = open[i].kind
          BY <4>1, <5>2
        <5> QED
          BY <3>1, <5>2, <5>3, OtherFrames
      <4>6. fieldId' = id /\ state' = "jsVal"
        BY <1>3, <3>2
      <4>7. Tells(fieldId', erased', open', arrayIndices', arrayDepth')
        BY <1>2, <2>3, <3>1, <4>4, <4>5, <4>6 DEF Tells, n
      <4> QED
        BY <2>1, <3>1, <4>6, <4>7 DEF NestInv, Naming
    <3>3. CASE ~InArray(id)
      <4>1. open # <<>> /\ open[Len(open)].kind = "obj"
        BY <3>1, <3>3, Innermost
      <4>2. open' = open
        BY <1>3, <3>1, <4>1 DEF Counted
      <4>3. fieldId' = RemoveLastId(id) /\ arrayIndices' = arrayIndices
            /\ arrayDepth' = arrayDepth
        BY <1>3, <3>3
      <4>4. Nests(fieldId', open', n) /\ ~InArray(fieldId')
        BY <3>1, <3>3, <4>2, <4>3, RemoveLastIdNests
      <4>5. Tells(fieldId', erased', open', arrayIndices', arrayDepth')
        BY <1>2, <2>3, <3>1, <4>2, <4>3, <4>4 DEF Tells, n
      <4> QED
        BY <2>1, <3>1, <4>4, <4>5 DEF NestInv
    <3> QED
      BY <3>2, <3>3
  <2> QED
    BY <2>2, <2>3
<1>4. CASE c = "]" /\ InArray(fieldId) /\ EndElement /\ EndArray(id)
  <2>1. \A k : k # arrayDepth - 1 => arrayIndices'[k] = arrayIndices[k]
    BY <1>1, <1>4 DEF EndElement, CountElement
  <2> QED
    BY <1>4, <2>1, ArrayEnds
<1>5. CASE c = "}" /\ ~InArray(fieldId) /\ EndObject(RemoveLastId(id), keys)
  BY <1>5, ObjectEnds
<1> QED
  BY <1>3, <1>4, <1>5 DEF CheckValueCompleted

\* An array is opened.
LEMMA ArrayStarts ==
    ASSUME Inv, NestInv, state = "jsVal", StartArray
    PROVE  NestInv'
<1>1. CASE Goto("jsError")
  BY <1>1, GotoNests
<1>2. CASE /\ CanNest
           /\ fieldId' = Append(fieldId, "^")
           /\ arrayIndices' = StartIndex
           /\ arrayDepth' = arrayDepth + 1
           /\ open' = Opened("arr")
           /\ ended' = FALSE
           /\ UNCHANGED <<state, keyed, erased>>
  <2>1. /\ Tells(fieldId, erased, open, arrayIndices, arrayDepth)
        /\ fieldId \in Id /\ open \in Seq(Frame)
        /\ arrayIndices \in [Depths -> Nat]
    BY DEF Inv, RestOK, IdOK, NestInv, Reading
  <2>2. ResultFirst(fieldId', erased)
    BY <1>2, <2>1, MoreParts DEF Tells, Part, Separators
  <2>3. CASE Derailed
    <3>1. open' = <<>> /\ Derailed'
      BY <1>2, <2>3 DEF Opened, Derailed
    <3>2. Len(open') # 1
      BY <3>1
    <3>3. Tells(fieldId', erased', open', arrayIndices', arrayDepth')
      BY <1>2, <2>2, <2>3 DEF Tells, Derailed
    <3> QED
      BY <1>2, <3>1, <3>2, <3>3 DEF NestInv, EndsWithNesting
  <2>4. CASE ~Derailed
    <3>1. /\ erased \in {"", ":"}
          /\ Nests(fieldId, open, UntoldBy(erased))
          /\ Placed(open, arrayIndices, arrayDepth)
      BY <2>1, <2>4 DEF Tells, Derailed
    <3>2. open' = Append(open, [kind |-> "arr", count |-> 0])
      BY <1>2, <2>4 DEF Opened
    <3>3. Nests(fieldId', open', UntoldBy(erased))
      <4>1. "^" \in Separators /\ KindOf("^") = "arr"
        BY DEF Separators, KindOf
      <4>2. Nests(Append(fieldId, "^"),
                  Append(open, [kind |-> KindOf("^"), count |-> 0]),
                  UntoldBy(erased))
        BY <3>1, <4>1, OpenNests
      <4> QED
        BY <1>2, <3>2, <4>1, <4>2
    <3>4. Placed(open', arrayIndices', arrayDepth')
      <4>1. arrayDepth \in Depths
        BY <1>2, JsonAssumption DEF CanNest, Depths, Inv, IdOK
      <4> QED
        BY <1>2, <2>1, <3>1, <3>2, <4>1, ArrayPlaced DEF StartIndex
    <3>5. Tells(fieldId', erased', open', arrayIndices', arrayDepth')
      BY <1>2, <2>2, <3>1, <3>3, <3>4 DEF Tells
    <3>6. ~Derailed' /\ state' = "jsVal" /\ EndsWithNesting'
      BY <1>2, <2>4 DEF Derailed, EndsWithNesting
    <3> QED
      BY <3>5, <3>6 DEF NestInv, Naming
  <2> QED
    BY <2>3, <2>4
<1> QED
  BY <1>1, <1>2 DEF StartArray

\* An object is opened.
LEMMA ObjectStarts ==
    ASSUME Inv, NestInv, state = "jsVal", StartObject
    PROVE  NestInv'
<1>1. CASE Goto("jsError")
  BY <1>1, GotoNests
<1>2. CASE /\ state' = "jsExpectId"
           /\ fieldId' = Append(fieldId, ":")
           /\ open' = Opened("obj")
           /\ ended' = FALSE
           /\ UNCHANGED <<arrayIndices, arrayDepth, keyed, erased>>
  <2>1. /\ Tells(fieldId, erased, open, arrayIndices, arrayDepth)
        /\ fieldId \in Id /\ open \in Seq(Frame)
    BY DEF Inv, RestOK, IdOK, NestInv, Reading
  <2>2. ResultFirst(fieldId', erased)
    BY <1>2, <2>1, MoreParts DEF Tells, Part, Separators
  <2>3. CASE Derailed
    <3>1. open' = <<>> /\ Derailed'
      BY <1>2, <2>3 DEF Opened, Derailed
    <3>2. Len(open') # 1
      BY <3>1
    <3>3. Tells(fieldId', erased', open', arrayIndices', arrayDepth')
      BY <1>2, <2>2, <2>3 DEF Tells, Derailed
    <3> QED
      BY <1>2, <3>1, <3>2, <3>3 DEF NestInv, EndsWithNesting
  <2>4. CASE ~Derailed
    <3>1. /\ erased \in {"", ":"}
          /\ Nests(fieldId, open, UntoldBy(erased))
          /\ Placed(open, arrayIndices, arrayDepth)
      BY <2>1, <2>4 DEF Tells, Derailed
    <3>2. open' = Append(open, [kind |-> "obj", count |-> 0])
      BY <1>2, <2>4 DEF Opened
    <3>3. Nests(fieldId', open', UntoldBy(erased))
      <4>1. ":" \in Separators /\ KindOf(":") = "obj"
        BY DEF Separators, KindOf
      <4>2. Nests(Append(fieldId, ":"),
                  Append(open, [kind |-> KindOf(":"), count |-> 0]),
                  UntoldBy(erased))
        BY <3>1, <4>1, OpenNests
      <4> QED
        BY <1>2, <3>2, <4>1, <4>2
    <3>4. Placed(open', arrayIndices', arrayDepth')
      BY <1>2, <2>1, <3>1, <3>2, ObjectPlaced
    <3>5. Tells(fieldId', erased', open', arrayIndices', arrayDepth')
      BY <1>2, <2>2, <3>1, <3>3, <3>4 DEF Tells
    <3>6. ~InArray(fieldId')
      <4>1. /\ Len(fieldId) \in Nat
            /\ Len(Append(fieldId, ":")) = Len(fieldId) + 1
            /\ Append(fieldId, ":")[Len(fieldId) + 1] = ":"
        BY <2>1, AppendParts DEF Id, Part, Separators
      <4> QED
        BY <1>2, <4>1 DEF InArray
    <3>7. ~Derailed' /\ EndsWithNesting'
      BY <1>2, <2>4 DEF Derailed, EndsWithNesting
    <3> QED
      BY <3>5, <3>6, <3>7 DEF NestInv
  <2> QED
    BY <2>3, <2>4
<1> QED
  BY <1>1, <1>2 DEF StartObject

\* A name is read; "result" only as the first of an object not told of.
LEMMA NameStarts ==
    ASSUME Inv, NestInv, state = "jsId", NEW name \in Names, Extend(name, "jsId"),
           ~(fieldId # <<>> /\ fieldId[Len(fieldId)] \in Names),
           name = "result" => Len(open) = 1
    PROVE  NestInv'
<1>1. CASE Goto("jsError")
  BY <1>1, GotoNests
<1>2. CASE /\ state' = "jsId"
           /\ fieldId' = Append(fieldId, name)
           /\ ended' = FALSE
           /\ UNCHANGED <<arrayIndices, arrayDepth, keyed, open, erased>>
  <2>1. /\ Tells(fieldId, erased, open, arrayIndices, arrayDepth)
        /\ fieldId \in Id /\ name \in Part
        /\ Derailed => Len(open) # 1
        /\ ~Derailed => ~InArray(fieldId)
    BY DEF Inv, IdOK, NestInv, Reading, Part, Naming
  <2>2. fieldId = <<>> \/ fieldId[Len(fieldId)] \in Separators
    <3>1. fieldId # <<>> => Len(fieldId) \in 1 .. Len(fieldId)
      BY <2>1 DEF Id
    <3> QED
      BY <2>1, <3>1, Parts
  <2>3. /\ Len(fieldId) \in Nat
        /\ Len(fieldId') = Len(fieldId) + 1
        /\ fieldId'[Len(fieldId) + 1] = name
    BY <1>2, <2>1, AppendParts DEF Id
  <2>4. ~InArray(fieldId')
    BY <2>3 DEF InArray, Names
  <2>5. EndsWithNesting' /\ (Derailed' <=> Derailed)
    BY <1>2 DEF EndsWithNesting, Derailed
  <2>6. CASE Derailed
    <3>1. name # "result"
      BY <2>1, <2>6
    <3>2. ResultFirst(fieldId', erased)
      BY <1>2, <2>1, <3>1, MoreParts DEF Tells
    <3>3. Tells(fieldId', erased', open', arrayIndices', arrayDepth')
      BY <1>2, <2>6, <3>2 DEF Tells, Derailed
    <3>4. Len(open') # 1
      BY <1>2, <2>1, <2>6
    <3> QED
      BY <2>4, <2>5, <3>3, <3>4 DEF NestInv
  <2>7. CASE ~Derailed
    <3>1. /\ erased \in {"", ":"}
          /\ Nests(fieldId, open, UntoldBy(erased))
          /\ Placed(open, arrayIndices, arrayDepth)
      BY <2>1, <2>7 DEF Tells, Derailed
    <3>2. fieldId = <<>> \/ fieldId[Len(fieldId)] = ":"
      BY <2>1, <2>2, <2>7 DEF InArray, Separators
    <3>3. Nests(fieldId', open', UntoldBy(erased))
      BY <1>2, <3>1, <3>2, NameNests
    <3>4. ResultFirst(fieldId', erased)
      <4>1. CASE name # "result"
        BY <1>2, <2>1, <4>1, MoreParts DEF Tells
      <4>2. CASE name = "result"
        <5>0. Len(open) = 1
          BY <4>2
        <5>1. erased = ""
          <6>1. CASE erased # ""
            <7>1. Nests(fieldId, open, 2)
              BY <3>1, <6>1 DEF UntoldBy
            <7>2. open \in Seq(Frame) /\ 2 <= Len(open)
              BY <7>1 DEF Nests
            <7> QED
              BY <5>0, <7>2, NotTwo
          <6> QED
            BY <6>1
        <5>2. fieldId = <<>>
          <6>1. CASE fieldId # <<>>
            <7>1. Nests(fieldId, open, 1)
              BY <3>1, <5>1 DEF UntoldBy
            <7>2. Len(open) > 1
              BY <2>2, <6>1, <7>1, CloseNests
            <7> QED
              BY <5>0, <7>2
          <6> QED
            BY <6>1
        <5>3. Len(fieldId') = 1
          BY <2>3, <5>2
        <5>4. \A i \in 1 .. Len(fieldId') : i = 1
          BY <5>3
        <5> QED
          BY <5>1, <5>4 DEF ResultFirst
      <4> QED
        BY <4>1, <4>2
    <3>5. Tells(fieldId', erased', open', arrayIndices', arrayDepth')
      BY <1>2, <3>1, <3>3, <3>4 DEF Tells
    <3> QED
      BY <2>4, <2>5, <2>7, <3>5 DEF NestInv
  <2> QED
    BY <2>6, <2>7
<1> QED
  BY <1>1, <1>2 DEF Extend

\* A message of one object.
LEMMA FirstFrame ==
    ASSUME NEW indices, NEW frame, frame = [kind |-> "obj", count |-> 0]
    PROVE  Tells(<<>>, "", <<frame>>, indices, 0)
<1> DEFINE frames == <<frame>>
<1>1. frame \in Frame /\ frame.kind = "obj"
  BY DEF Frame
<1>2. frames \in Seq(Frame)
  BY <1>1, Singleton
<1>3. Len(frames) = 1 /\ frames[1] = frame
  OBVIOUS
<1> HIDE DEF frames
<1>4. /\ <<>> \in Id /\ Len(<<>>) = 0
      /\ 1 .. Len(<<>>) = {} /\ 2 .. Len(<<>>) = {}
  <2>1. <<>> \in Id /\ Len(<<>>) = 0
    BY DEF Id
  <2> QED
    BY <2>1
<1>5. SeparatorsOf(<<>>) = {}
  BY <1>4, Parts
<1>6. UpTo(SeparatorsOf(<<>>), 0) = 0
  BY UpToNext
<1>7. Shaped(<<>>)
  BY <1>4 DEF Shaped
<1>8. ResultFirst(<<>>, "")
  BY <1>4 DEF ResultFirst
<1>9. \A i \in 1 .. 1 : frames[i].kind = "obj"
  <2>1. 1 .. 1 = {1}
    OBVIOUS
  <2> QED
    BY <1>1, <1>3, <2>1
<1>10. Nests(<<>>, frames, 1)
  <2>1. Len(frames) = 1 + UpTo(SeparatorsOf(<<>>), Len(<<>>))
    BY <1>3, <1>4, <1>6
  <2> QED
    BY <1>2, <1>3, <1>4, <1>5, <1>7, <1>9, <2>1 DEF Nests
<1>11. ArraysOf(frames) = {}
  <2>1. ArraysOf(frames) \subseteq 1 .. 1
    BY <1>2, <1>3, ArrayDepth
  <2>2. 1 \notin ArraysOf(frames)
    BY <1>1, <1>3 DEF ArraysOf
  <2> QED
    BY <2>1, <2>2
<1>12. Placed(frames, indices, 0)
  <2>1. UpTo({}, 0 + 1) = UpTo({}, 0) + 0 /\ UpTo({}, 0) = 0
    BY UpToNext
  <2>2. 0 = UpTo(ArraysOf(frames), Len(frames))
    BY <1>3, <1>11, <2>1
  <2> QED
    BY <1>11, <2>2 DEF Placed
<1>13. UntoldBy("") = 1
  BY DEF UntoldBy
<1>14. Tells(<<>>, "", frames, indices, 0)
  BY <1>8, <1>10, <1>12, <1>13 DEF Tells
<1> QED
  BY <1>14 DEF frames

\* A message begins.
LEMMA MessageStarts ==
    ASSUME state' = "jsExpectId", fieldId' = <<>>, arrayDepth' = 0,
           open' = <<[kind |-> "obj", count |-> 0]>>, erased' = "",
           ended' = FALSE
    PROVE  NestInv'
<1>1. Tells(fieldId', erased', open', arrayIndices', arrayDepth')
  BY FirstFrame
<1>2. ~InArray(fieldId') /\ ~Derailed' /\ EndsWithNesting'
  BY DEF InArray, Derailed, EndsWithNesting
<1> QED
  BY <1>1, <1>2 DEF NestInv

\* Every step.
LEMMA NestStep ==
    ASSUME Inv, NestInv, Next
    PROVE  NestInv'
<1>e. ASSUME NEW s \in {"jsBegin", "jsError"}, Goto(s)
      PROVE  NestInv'
  BY <1>e, GotoNests
<1>t. /\ fieldId \in Id
      /\ Reading => Tells(fieldId, erased, open, arrayIndices, arrayDepth)
  BY DEF Inv, IdOK, NestInv
<1>1. CASE Newline
  BY <1>1, <1>e DEF Newline
<1>2. ASSUME NEW c \in Chars, CheckInput(c)
      PROVE  NestInv'
  <2>1. CASE JsBegin(c)
    <3>1. CASE c = "{"
      <4>1. /\ state' = "jsExpectId" /\ fieldId' = <<>> /\ arrayDepth' = 0
            /\ open' = <<[kind |-> "obj", count |-> 0]>>
            /\ erased' = "" /\ ended' = FALSE
        BY <2>1, <3>1 DEF JsBegin
      <4> QED
        BY <4>1, MessageStarts
    <3>2. CASE c # "{"
      BY <1>e, <2>1, <3>2 DEF JsBegin
    <3> QED
      BY <3>1, <3>2
  <2>2. CASE JsExpectId(c)
    <3>1. Reading /\ state # "jsEndVal" /\ state \in Naming
      BY <2>2 DEF JsExpectId, Reading, Naming
    <3>2. ASSUME NEW s \in {"jsExpectId", "jsId"}, Goto(s)
          PROVE  NestInv'
      BY <3>1, <3>2, GotoNests
    <3>3. CASE EndObject(RemoveLastId(fieldId), {keyed}) /\ UNCHANGED erased
      <4>1. ~Derailed => ~InArray(fieldId)
        BY <3>1 DEF NestInv
      <4> QED
        BY <1>t, <3>1, <3>3, <4>1, ObjectEnds DEF Derailed
    <3> QED
      BY <1>e, <2>2, <3>2, <3>3 DEF JsExpectId
  <2>3. CASE JsId(c)
    <3>1. Reading /\ state # "jsEndVal" /\ state \in Naming /\ state = "jsId"
      BY <2>3 DEF JsId, Reading, Naming
    <3>2. ASSUME NEW s \in {"jsId", "jsHadId"}, Goto(s)
          PROVE  NestInv'
      BY <3>1, <3>2, GotoNests
    <3>3. CASE /\ ~(fieldId # <<>> /\ fieldId[Len(fieldId)] \in Names)
               /\ Extend(IF c = "result" THEN c ELSE "name", "jsId")
      <4> DEFINE name == IF c = "result" THEN c ELSE "name"
      <4>1. name \in Names /\ (name = "result" => c = "result")
        BY DEF Names
      <4>2. c = "result" => Len(open) = 1
        BY <2>3 DEF JsId
      <4>3. Extend(name, "jsId")
        BY <3>3
      <4> HIDE DEF name
      <4> QED
        BY <3>1, <3>3, <4>1, <4>2, <4>3, NameStarts
    <3> QED
      BY <1>e, <2>3, <3>2, <3>3 DEF JsId, GotoIfFits
  <2>4. CASE JsHadId(c)
    <3>1. Reading /\ state # "jsEndVal" /\ state \in Naming
      BY <2>4 DEF JsHadId, Reading, Naming
    <3>2. ASSUME NEW s \in {"jsVal", "jsHadId"}, Goto(s)
          PROVE  NestInv'
      BY <3>1, <3>2, GotoNests
    <3> QED
      BY <1>e, <2>4, <3>2 DEF JsHadId
  <2>5. CASE JsVal(c)
    <3>1. state = "jsVal" /\ Reading
      BY <2>5 DEF JsVal, Reading
    <3>2. ASSUME NEW s \in JsonState \ Naming, Goto(s)
          PROVE  NestInv'
      BY <3>1, <3>2, GotoNests
    <3>3. CASE StartArray
      BY <3>1, <3>3, ArrayStarts
    <3>4. CASE StartObject
      BY <3>1, <3>4, ObjectStarts
    <3>5. CASE /\ InArray(fieldId) /\ EndArray(fieldId)
               /\ UNCHANGED <<arrayIndices, keyed, erased>>
      BY <1>t, <3>1, <3>5, ArrayEnds DEF Derailed
    <3>6. {"jsVal", "jsStringVal", "jsNegIntVal", "jsIntVal", "jsCharsVal",
           "jsError"} \subseteq JsonState \ Naming
      BY DEF JsonState, Naming
    <3> QED
      BY <2>5, <3>2, <3>3, <3>4, <3>5, <3>6 DEF JsVal
  <2>6. CASE JsStringVal(c)
    <3>1. Reading /\ state # "jsEndVal"
      BY <2>6 DEF JsStringVal, Reading
    <3>2. ASSUME NEW s \in {"jsStringVal", "jsStringEscape"}, Goto(s)
          PROVE  NestInv'
      BY <3>1, <3>2, GotoNests DEF Naming
    <3>3. CASE /\ state' = "jsEndVal"
               /\ fieldId' = Rewritten(fieldId)
               /\ erased' = Erased(fieldId)
               /\ ended' = FALSE
               /\ UNCHANGED <<arrayIndices, arrayDepth, open>>
      <4>1. Tells(Rewritten(fieldId), Erased(fieldId), open, arrayIndices,
                  arrayDepth)
        BY <1>t, <3>1, CallbackTells
      <4>2. Tells(fieldId', erased', open', arrayIndices', arrayDepth')
        BY <3>3, <4>1
      <4> QED
        BY <3>3, <4>2 DEF NestInv, Naming, EndsWithNesting
    <3> QED
      BY <1>e, <2>6, <3>2, <3>3 DEF JsStringVal
  <2>7. CASE JsStringEscape(c)
    BY <2>7, GotoNests DEF JsStringEscape, Reading, Naming
  <2>8. CASE JsNumberOrWord(c)
    <3>1. Reading /\ state # "jsEndVal"
      BY <2>8 DEF JsNumberOrWord, Reading, Complete, Partial
    <3>2. CASE /\ CheckValueCompleted(c, Rewritten(fieldId), KeyAfter(fieldId))
               /\ erased' = Erased(fieldId)
      BY <1>t, <3>1, <3>2, CallbackTells, ValueEnds
    <3>3. ASSUME NEW s \in Following(c), Goto(s)
          PROVE  NestInv'
      <4>1. s \notin Naming
        BY DEF Following, Naming
      <4> QED
        BY <3>1, <3>3, <4>1, GotoNests
    <3> QED
      BY <1>e, <2>8, <3>2, <3>3 DEF JsNumberOrWord
  <2>9. CASE JsEndVal(c)
    <3>1. Reading
      BY <2>9 DEF JsEndVal, Reading
    <3>2. CASE CheckValueCompleted(c, fieldId, {keyed}) /\ UNCHANGED erased
      BY <1>t, <3>1, <3>2, ValueEnds DEF Derailed
    <3> QED
      BY <1>e, <2>9, <3>2 DEF JsEndVal
  <2>10. CASE JsError(c)
    BY <1>e, <2>10 DEF JsError
  <2> QED
    BY <1>2, <2>1, <2>2, <2>3, <2>4, <2>5, <2>6, <2>7, <2>8, <2>9, <2>10
       DEF CheckInput
<1> QED
  BY <1>1, <1>2 DEF Next

\* It holds from the start and for ever.
LEMMA NestAlways == Spec => []NestInv
<1>1. Init => NestInv
  BY DEF Init, NestInv, Reading, EndsWithNesting
<1>2. Inv /\ NestInv /\ [Next]_vars => NestInv'
  <2> SUFFICES ASSUME Inv, NestInv, [Next]_vars PROVE NestInv'
    OBVIOUS
  <2>1. CASE UNCHANGED vars
    <3>1. /\ fieldId' = fieldId /\ erased' = erased /\ open' = open
          /\ arrayIndices' = arrayIndices /\ arrayDepth' = arrayDepth
          /\ state' = state /\ ended' = ended
      BY <2>1 DEF vars
    <3>2. /\ EndsWithNesting' <=> EndsWithNesting
          /\ Derailed' <=> Derailed
          /\ Reading' <=> Reading
          /\ InArray(fieldId') <=> InArray(fieldId)
      BY <3>1 DEF EndsWithNesting, Derailed, Reading
    <3>3. Tells(fieldId, erased, open, arrayIndices, arrayDepth) =>
             Tells(fieldId', erased', open', arrayIndices', arrayDepth')
      BY <3>1
    <3> QED
      BY <3>1, <3>2, <3>3 DEF NestInv
  <2> QED
    BY <2>1, NestStep
<1> QED
  BY <1>1, <1>2, Inductive, PTL DEF Spec

\* The field id is as good as a stack: whatever characters arrive and whatever
\* the callback makes of it, its separators are the objects and arrays that are
\* open, so that CheckValueCompleted takes a bracket for the end of what it
\* ends.
THEOREM IdNests == Spec => []IdIsNesting
<1>1. Inv /\ NestInv => IdIsNesting
  <2> SUFFICES ASSUME NestInv, Reading, ~Derailed PROVE IdIsNesting
    BY DEF IdIsNesting
  <2>1. Nests(fieldId, open, Untold)
    BY DEF NestInv, Tells, Derailed, Untold, UntoldBy
  <2> HIDE DEF Untold
  <2> QED
    BY <2>1 DEF Nests, IdIsNesting
<1> QED
  BY <1>1, Inductive, NestAlways, PTL

\* The index the callbacks get for an array a value is in is the number of the
\* values that came before it, at every depth.
THEOREM IndicesArePlaces == Spec => []IndexIsPlace
<1>1. NestInv => IndexIsPlace
  <2> SUFFICES ASSUME NestInv, Reading, ~Derailed PROVE IndexIsPlace
    BY DEF IndexIsPlace
  <2>1. Placed(open, arrayIndices, arrayDepth)
    BY DEF NestInv, Tells, Derailed
  <2> QED
    BY <2>1 DEF Placed, IndexIsPlace
<1> QED
  BY <1>1, NestAlways, PTL

\* EndReceivedMessage is called when all that was opened is closed, except that
\* the answer to a request without a key ends one brace early.
THEOREM EndsWhole == Spec => []EndsWithNesting
<1>1. NestInv => EndsWithNesting
  BY DEF NestInv
<1> QED
  BY <1>1, NestAlways, PTL
=============================================================================
