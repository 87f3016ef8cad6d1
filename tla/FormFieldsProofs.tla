-------------------------- MODULE FormFieldsProofs --------------------------
(* What the validators decide, and that the groups that are shown read back, *)
(* for texts of every length and every limit.                                *)
EXTENDS FormFields, FiniteSetTheorems, SequenceTheorems, WellFoundedInduction, TLAPS

---------------------------------------------------------------------------
(* The ends of a text.                                                     *)

\* A set of numbers that is not empty has a least one.
LEMMA LeastNatural ==
    ASSUME NEW S \in SUBSET Nat, S # {}
    PROVE  \E x \in S : \A y \in S : x <= y
<1>1. PICK x \in S : \A y \in S : ~(<<y, x>> \in OpToRel(<, Nat))
    BY NatLessThanWellFounded, WFMin, Zenon
<1>2. \A y \in S : ~(y < x)
    BY <1>1 DEF OpToRel
<1>3. QED BY <1>2

\* The positions of a text that are not blank have a first and a last one.
LEMMA Ends ==
    ASSUME NEW n \in Nat, NEW S \in SUBSET (1..n), S # {}
    PROVE  /\ Min(S) \in S /\ \A k \in S : Min(S) <= k
           /\ Max(S) \in S /\ \A k \in S : Max(S) >= k
<1>1. \E x \in S : \A y \in S : x <= y
    BY LeastNatural
<1>2. \E x \in S : \A y \in S : x >= y
    <2> DEFINE T == {n - k : k \in S}
    <2>0. \A k \in S : k \in Nat /\ n - k \in Nat
        OBVIOUS
    <2>1. T \in SUBSET Nat /\ T # {}
        BY <2>0
    <2>2. PICK z \in T : \A y \in T : z <= y
        BY <2>1, LeastNatural
    <2>3. PICK x \in S : z = n - x
        OBVIOUS
    <2>4. ASSUME NEW y \in S PROVE x >= y
        <3>1. n - x <= n - y
            BY <2>2, <2>3
        <3>2. x \in Nat /\ y \in Nat
            OBVIOUS
        <3>3. QED BY <3>1, <3>2
    <2>5. QED BY <2>4
<1>3. QED BY <1>1, <1>2 DEF Min, Max

\* What is left of a text, at what place.
LEMMA SubText ==
    ASSUME NEW A, NEW s \in Seq(A), NEW from \in Nat \ {0}, NEW to \in Int,
           from <= Len(s) + 1, from <= to + 1, to <= Len(s)
    PROVE  /\ SubSeq(s, from, to) \in Seq(A)
           /\ Len(SubSeq(s, from, to)) = to + 1 - from
           /\ DOMAIN SubSeq(s, from, to) = 1..(to + 1 - from)
           /\ \A k \in 1..(to + 1 - from) : SubSeq(s, from, to)[k] = s[from + k - 1]
OBVIOUS

LEMMA Joined ==
    ASSUME NEW A, NEW s \in Seq(A), NEW t \in Seq(A)
    PROVE  /\ DOMAIN (s \o t) = 1..(Len(s) + Len(t))
           /\ \A k \in 1..Len(s) : (s \o t)[k] = s[k]
           /\ \A k \in 1..Len(t) : (s \o t)[Len(s) + k] = t[k]
<1>1. s \o t \in Seq(A) /\ Len(s \o t) = Len(s) + Len(t)
    OBVIOUS
<1>2. \A k \in 1..Len(s) : (s \o t)[k] = s[k]
    OBVIOUS
<1>3. \A k \in 1..Len(t) : (s \o t)[Len(s) + k] = t[k]
    OBVIOUS
<1>4. QED BY <1>1, <1>2, <1>3

\* Nothing but blanks lies outside from..to.
Padded(s, from, to) ==
    Only(SubSeq(s, 1, from - 1) \o SubSeq(s, to + 1, Len(s)), Blank)

LEMMA PaddedMeans ==
    ASSUME NEW A, NEW s \in Seq(A), NEW from \in DOMAIN s, NEW to \in DOMAIN s, from <= to
    PROVE  Padded(s, from, to) <=> \A k \in DOMAIN s : s[k] \in Blank \/ k \in from..to
<1> DEFINE head == SubSeq(s, 1, from - 1)
           tail == SubSeq(s, to + 1, Len(s))
<1>0. from \in 1..Len(s) /\ to \in 1..Len(s) /\ DOMAIN s = 1..Len(s) /\ Len(s) \in Nat
    OBVIOUS
<1>1. /\ head \in Seq(A) /\ Len(head) = from - 1
      /\ \A k \in 1..(from - 1) : head[k] = s[k]
    BY SubText
<1>2. /\ tail \in Seq(A) /\ Len(tail) = Len(s) - to
      /\ \A k \in 1..(Len(s) - to) : tail[k] = s[to + k]
    BY SubText
<1> HIDE DEF head, tail
<1>3. /\ DOMAIN (head \o tail) = 1..(from - 1 + Len(s) - to)
      /\ \A k \in 1..(from - 1) : (head \o tail)[k] = s[k]
      /\ \A k \in 1..(Len(s) - to) : (head \o tail)[from - 1 + k] = s[to + k]
    <2>1. /\ DOMAIN (head \o tail) = 1..(Len(head) + Len(tail))
          /\ \A k \in 1..Len(head) : (head \o tail)[k] = head[k]
          /\ \A k \in 1..Len(tail) : (head \o tail)[Len(head) + k] = tail[k]
        <3>1. head \in Seq(A) /\ tail \in Seq(A)
            BY <1>1, <1>2
        <3>2. \A k \in 1..Len(tail) : (head \o tail)[Len(head) + k] = tail[k]
            BY <3>1, Joined, SMT
        <3>3. /\ DOMAIN (head \o tail) = 1..(Len(head) + Len(tail))
              /\ \A k \in 1..Len(head) : (head \o tail)[k] = head[k]
            BY <3>1, Joined, Zenon
        <3>4. QED BY <3>2, <3>3
    <2>2. Len(head) = from - 1 /\ Len(tail) = Len(s) - to
        BY <1>1, <1>2
    <2>3. Len(head) + Len(tail) = from - 1 + Len(s) - to
        BY <1>0, <2>2
    <2>4. \A k \in 1..(from - 1) : (head \o tail)[k] = s[k]
        BY <1>1, <2>1, <2>2
    <2>5. \A k \in 1..(Len(s) - to) : (head \o tail)[from - 1 + k] = s[to + k]
        BY <1>2, <2>1, <2>2
    <2>6. QED BY <2>1, <2>3, <2>4, <2>5
<1>4. ASSUME Only(head \o tail, Blank), NEW k \in DOMAIN s, k \notin from..to
      PROVE  s[k] \in Blank
    <2>1. CASE k < from
        <3>1. k \in 1..(from - 1) /\ k \in DOMAIN (head \o tail)
            BY <1>0, <1>3, <2>1
        <3>2. QED BY <1>3, <1>4, <3>1 DEF Only
    <2>2. CASE k > to
        <3>1. PICK m \in 1..(Len(s) - to) : k = to + m
            <4>1. k - to \in 1..(Len(s) - to) /\ k = to + (k - to)
                BY <1>0, <2>2
            <4>2. QED BY <4>1
        <3>2. (head \o tail)[from - 1 + m] = s[k] /\ from - 1 + m \in DOMAIN (head \o tail)
            BY <1>0, <1>3, <3>1
        <3>3. QED BY <1>4, <3>2 DEF Only
    <2>3. QED BY <1>0, <1>4, <2>1, <2>2
<1>5. ASSUME \A k \in DOMAIN s : s[k] \in Blank \/ k \in from..to,
             NEW k \in DOMAIN (head \o tail)
      PROVE  (head \o tail)[k] \in Blank
    <2>1. CASE k < from
        <3>1. k \in 1..(from - 1) /\ k \in DOMAIN s /\ k \notin from..to
            BY <1>0, <1>3, <2>1
        <3>2. QED BY <1>3, <1>5, <3>1
    <2>2. CASE k >= from
        <3>1. PICK m \in 1..(Len(s) - to) : k = from - 1 + m
            <4>1. k - (from - 1) \in 1..(Len(s) - to) /\ k = from - 1 + (k - (from - 1))
                BY <1>0, <1>3, <2>2
            <4>2. QED BY <4>1
        <3>2. (head \o tail)[k] = s[to + m]
            BY <1>3, <3>1
        <3>3. to + m \in DOMAIN s /\ to + m \notin from..to
            BY <1>0
        <3>4. QED BY <1>5, <3>2, <3>3
    <2>3. QED BY <1>0, <1>3, <2>1, <2>2
<1>6. QED BY <1>4, <1>5 DEF Padded, Only, head, tail

---------------------------------------------------------------------------
(* Trim.                                                                   *)

Solid(s) == {k \in DOMAIN s : s[k] \notin Blank}

\* A text with something in it is trimmed to what stands between its ends.
LEMMA TrimEnds ==
    ASSUME NEW A, NEW s \in Seq(A), Trim(s) # << >>
    PROVE  \E from \in DOMAIN s, to \in DOMAIN s :
            /\ from <= to
            /\ Trim(s) = SubSeq(s, from, to)
            /\ Padded(s, from, to)
            /\ s[from] \notin Blank /\ s[to] \notin Blank
<1>1. Solid(s) # {} /\ Trim(s) = SubSeq(s, Min(Solid(s)), Max(Solid(s)))
    BY DEF Trim, Solid
<1>2. DOMAIN s = 1..Len(s) /\ Len(s) \in Nat /\ Solid(s) \in SUBSET (1..Len(s))
    BY DEF Solid
<1> DEFINE from == Min(Solid(s))
           to == Max(Solid(s))
<1>3. /\ from \in Solid(s) /\ to \in Solid(s)
      /\ \A k \in Solid(s) : from <= k /\ to >= k
    BY <1>1, <1>2, Ends
<1>4. Trim(s) = SubSeq(s, from, to)
    BY <1>1
<1> HIDE DEF from, to
<1>5. /\ from \in DOMAIN s /\ to \in DOMAIN s /\ from <= to
      /\ s[from] \notin Blank /\ s[to] \notin Blank
    BY <1>2, <1>3 DEF Solid
<1>6. ASSUME NEW k \in DOMAIN s, s[k] \notin Blank PROVE k \in from..to
    <2>1. k \in Solid(s) /\ k \in Int /\ from \in Int /\ to \in Int
        BY <1>2, <1>5, <1>6 DEF Solid
    <2>2. QED BY <1>3, <2>1
<1>7. Padded(s, from, to)
    BY <1>5, <1>6, PaddedMeans
<1>8. QED BY <1>4, <1>5, <1>7

\* What stands between blanks, and is not blank at its ends, is what Trim leaves.
LEMMA TrimOf ==
    ASSUME NEW A, NEW s \in Seq(A), NEW from \in DOMAIN s, NEW to \in DOMAIN s, from <= to,
           Padded(s, from, to), s[from] \notin Blank, s[to] \notin Blank
    PROVE  Trim(s) = SubSeq(s, from, to)
<1>1. DOMAIN s = 1..Len(s) /\ Len(s) \in Nat /\ Solid(s) \in SUBSET (1..Len(s))
    BY DEF Solid
<1>2. \A k \in Solid(s) : k \in from..to
    BY PaddedMeans DEF Solid
<1>3. from \in Solid(s) /\ to \in Solid(s)
    BY DEF Solid
<1>4. /\ Min(Solid(s)) \in Solid(s) /\ \A k \in Solid(s) : Min(Solid(s)) <= k
      /\ Max(Solid(s)) \in Solid(s) /\ \A k \in Solid(s) : Max(Solid(s)) >= k
    BY <1>1, <1>3, Ends
<1>5. Min(Solid(s)) = from
    <2>1. Min(Solid(s)) \in from..to /\ Min(Solid(s)) <= from /\ from \in Int
        BY <1>1, <1>2, <1>3, <1>4
    <2>2. QED BY <2>1
<1>6. Max(Solid(s)) = to
    <2>1. Max(Solid(s)) \in from..to /\ Max(Solid(s)) >= to /\ to \in Int
        BY <1>1, <1>2, <1>3, <1>4
    <2>2. QED BY <2>1
<1>7. Solid(s) # {} /\ Trim(s) = SubSeq(s, Min(Solid(s)), Max(Solid(s)))
    BY <1>3 DEF Trim, Solid
<1>8. QED BY <1>5, <1>6, <1>7

---------------------------------------------------------------------------
(* Bytes and characters.                                                   *)

LEMMA OneByteEach ==
    ASSUME NEW A, NEW s \in Seq(A), Only(s, Ascii)
    PROVE  Bytes(s) = Len(s)
<1>1. {k \in DOMAIN s : s[k] \notin Ascii} = {} /\ {k \in DOMAIN s : s[k] = "han"} = {}
    BY DEF Only, Ascii
<1>2. /\ Cardinality({k \in DOMAIN s : s[k] \notin Ascii}) = 0
      /\ Cardinality({k \in DOMAIN s : s[k] = "han"}) = 0
    BY <1>1, FS_EmptySet, Zenon
<1>3. Len(s) \in Nat
    OBVIOUS
<1>4. QED BY <1>2, <1>3 DEF Bytes

LEMMA NoLessThanCharacters ==
    ASSUME NEW A, NEW s \in Seq(A)
    PROVE  Len(s) \in Nat /\ Bytes(s) \in Nat /\ Bytes(s) >= Len(s)
<1>1. /\ {k \in DOMAIN s : s[k] \notin Ascii} \in SUBSET (1..Len(s))
      /\ {k \in DOMAIN s : s[k] = "han"} \in SUBSET (1..Len(s))
      /\ Len(s) \in Nat
    OBVIOUS
<1>2. IsFiniteSet(1..Len(s))
    BY <1>1, FS_Interval
<1>3. /\ Cardinality({k \in DOMAIN s : s[k] \notin Ascii}) \in Nat
      /\ Cardinality({k \in DOMAIN s : s[k] = "han"}) \in Nat
    BY <1>1, <1>2, FS_Subset, FS_CardinalityType, Zenon
<1>4. QED BY <1>1, <1>3 DEF Bytes

---------------------------------------------------------------------------
(* The user name.                                                          *)

NameChars == {"a", "A", "1", ".", "-"}

\* What the comment of validate_username says of the text from..to.
IsName(s, from, to) ==
    /\ Padded(s, from, to)
    /\ Len(SubSeq(s, from, to)) \in UserMin..UserMax
    /\ Head(SubSeq(s, from, to)) \in {"a", "A"}
    /\ Only(SubSeq(s, from, to), NameChars)

LEMMA NameClasses ==
    /\ Letters \cap Ascii = {"a", "A"}
    /\ (Letters \cup Number \cup {".", "-"}) \cap Ascii = NameChars
    /\ NameChars \subseteq Ascii
    /\ NameChars \cap Blank = {}
BY DEF Letters, Lower, Upper, Number, Ascii, Blank, NameChars

LEMMA ValidNameIsOne ==
    ASSUME NEW A, NEW s \in Seq(A), ValidUsername(s)
    PROVE  \E from, to \in DOMAIN s : IsName(s, from, to)
<1> DEFINE name == Trim(s)
<1>1. /\ Bytes(name) >= UserMin /\ Bytes(name) <= UserMax
      /\ name # << >> /\ name[1] \in {"a", "A"} /\ Only(name, NameChars)
    BY NameClasses DEF ValidUsername
<1>2. PICK from \in DOMAIN s, to \in DOMAIN s :
        from <= to /\ name = SubSeq(s, from, to) /\ Padded(s, from, to)
    BY <1>1, TrimEnds
<1>3. name \in Seq(A) /\ Len(name) \in Nat
    BY <1>2, SubText
<1> HIDE DEF name
<1>4. Only(name, Ascii)
    BY <1>1, NameClasses DEF Only
<1>5. Len(name) \in UserMin..UserMax
    BY <1>1, <1>3, <1>4, OneByteEach, FieldsAssumption
<1>6. Head(name) = name[1]
    BY <1>1, <1>3
<1>7. QED BY <1>1, <1>2, <1>5, <1>6 DEF IsName

LEMMA NameIsValid ==
    ASSUME NEW A, NEW s \in Seq(A), NEW from \in DOMAIN s, NEW to \in DOMAIN s,
           IsName(s, from, to)
    PROVE  ValidUsername(s)
<1> DEFINE name == SubSeq(s, from, to)
<1>1. /\ Len(name) \in UserMin..UserMax /\ Head(name) \in {"a", "A"} /\ Only(name, NameChars)
      /\ Padded(s, from, to)
    BY DEF IsName
<1>2. from \in Nat \ {0} /\ to \in Nat \ {0} /\ to <= Len(s)
    OBVIOUS
<1>3. from <= to
    <2>1. from > to => name = << >>
        BY <1>2
    <2>2. Len(name) > 0
        BY <1>1, FieldsAssumption
    <2>3. QED BY <1>2, <2>1, <2>2
<1>4. /\ name \in Seq(A) /\ Len(name) = to + 1 - from
      /\ DOMAIN name = 1..(to + 1 - from)
      /\ \A k \in 1..(to + 1 - from) : name[k] = s[from + k - 1]
    BY <1>2, <1>3, SubText
<1>5. name[1] = s[from] /\ name[to + 1 - from] = s[to]
      /\ 1 \in DOMAIN name /\ to + 1 - from \in DOMAIN name
    <2>1. /\ 1 \in 1..(to + 1 - from) /\ to + 1 - from \in 1..(to + 1 - from)
          /\ from + 1 - 1 = from /\ from + (to + 1 - from) - 1 = to
        BY <1>2, <1>3
    <2>2. QED BY <1>4, <2>1
<1>6. s[from] \notin Blank /\ s[to] \notin Blank
    BY <1>1, <1>5, NameClasses DEF Only
<1>7. Trim(s) = name
    BY <1>1, <1>3, <1>6, TrimOf
<1> HIDE DEF name
<1>8. Only(name, Ascii)
    BY <1>1, NameClasses DEF Only
<1>9. Bytes(name) = Len(name)
    BY <1>4, <1>8, OneByteEach
<1>10. name # << >> /\ Head(name) = name[1]
    BY <1>4, <1>5
<1>11. /\ name[1] \in Letters \cap Ascii
       /\ Only(name, (Letters \cup Number \cup {".", "-"}) \cap Ascii)
    BY <1>1, <1>10, NameClasses
<1>12. Bytes(name) >= UserMin /\ Bytes(name) <= UserMax
    BY <1>1, <1>9, FieldsAssumption
<1>13. QED BY <1>7, <1>10, <1>11, <1>12, Zenon DEF ValidUsername

---------------------------------------------------------------------------
(* The address.                                                            *)

\* What the comment of validate_email says of the text from..to.
IsAddress(s, from, to, at, dot) ==
    /\ from < at /\ at + 1 < dot /\ dot < to
    /\ Padded(s, from, to)
    /\ ~Some(SubSeq(s, from, to), Blank)
    /\ \A k \in DOMAIN s : s[k] = "@" <=> k = at
    /\ s[dot] = "."
    /\ s[at + 1] # "." /\ s[to] # "."

Signs(s) == {k \in DOMAIN s : s[k] = "@"}

\* A single sign is the least of them.
LEMMA OneSign ==
    ASSUME NEW x \in Nat
    PROVE  Cardinality({x}) = 1 /\ Min({x}) = x
<1>1. Cardinality({x}) = 1
    BY FS_Singleton
<1>2. Min({x}) = x
    BY DEF Min
<1>3. QED BY <1>1, <1>2

LEMMA ValidAddressIsOne ==
    ASSUME NEW A, NEW s \in Seq(A), ValidEmail(s)
    PROVE  \E from, to, at, dot \in DOMAIN s : IsAddress(s, from, to, at, dot)
<1> DEFINE mail == Trim(s)
           x == Min(Signs(mail))
<1>1. /\ mail # << >> /\ ~Some(mail, Blank)
      /\ Cardinality(Signs(mail)) = 1
      /\ x # 1 /\ x # Len(mail)
      /\ \E k \in (x + 1)..Len(mail) : mail[k] = "."
      /\ mail[x + 1] # "." /\ mail[Len(mail)] # "."
    BY DEF ValidEmail, Signs, Last
<1>2. PICK from \in DOMAIN s, to \in DOMAIN s :
        from <= to /\ mail = SubSeq(s, from, to) /\ Padded(s, from, to)
    BY <1>1, TrimEnds
<1>3. /\ mail \in Seq(A) /\ Len(mail) = to + 1 - from /\ DOMAIN mail = 1..(to + 1 - from)
      /\ \A k \in 1..(to + 1 - from) : mail[k] = s[from + k - 1]
    BY <1>2, SubText
<1>4. /\ from \in Nat \ {0} /\ to \in Nat \ {0} /\ to <= Len(s) /\ from <= to
      /\ Len(s) \in Nat /\ DOMAIN s = 1..Len(s)
    BY <1>2
<1> HIDE DEF mail
<1>5. Signs(mail) = {x}
    <2>1. IsFiniteSet(Signs(mail))
        <3>1. IsFiniteSet(1..(to + 1 - from)) /\ Signs(mail) \in SUBSET (1..(to + 1 - from))
            BY <1>3, <1>4, FS_Interval DEF Signs
        <3>2. QED BY <3>1, FS_Subset, Zenon
    <2>2. PICK y : Signs(mail) = {y}
        BY <1>1, <2>1, FS_Singleton, Zenon
    <2>3. y \in Nat
        <3>1. y \in Signs(mail)
            BY <2>2
        <3>2. y \in 1..(to + 1 - from)
            BY <1>3, <3>1 DEF Signs
        <3>3. QED BY <1>4, <3>2
    <2>4. QED BY <2>2, <2>3, OneSign
<1>6. x \in 1..(to + 1 - from) /\ mail[x] = "@"
      /\ \A k \in 1..(to + 1 - from) : mail[k] = "@" => k = x
    BY <1>3, <1>5 DEF Signs
<1> HIDE DEF x
<1>7. PICK k \in (x + 1)..Len(mail) : mail[k] = "."
    BY <1>1
<1>8. /\ x # 1 /\ x # to + 1 - from /\ x \in Nat /\ k \in Nat
      /\ x + 1 < k /\ k < to + 1 - from
    <2>1. k # x + 1 /\ k # Len(mail)
        BY <1>1, <1>7
    <2>2. QED BY <1>1, <1>3, <1>4, <1>6, <1>7, <2>1
<1> DEFINE at == from + x - 1
           dot == from + k - 1
<1>9. /\ from < at /\ at + 1 < dot /\ dot < to
      /\ at \in DOMAIN s /\ dot \in DOMAIN s
    BY <1>4, <1>6, <1>8
<1>10. s[dot] = "." /\ s[at] = "@" /\ s[at + 1] # "." /\ s[to] # "."
    <2>1. /\ k \in 1..(to + 1 - from) /\ x + 1 \in 1..(to + 1 - from)
          /\ to + 1 - from \in 1..(to + 1 - from)
          /\ from + (x + 1) - 1 = at + 1 /\ from + (to + 1 - from) - 1 = to
        BY <1>4, <1>6, <1>8
    <2>2. mail[k] = s[dot] /\ mail[x] = s[at]
        BY <1>3, <1>6, <2>1
    <2>3. mail[x + 1] = s[at + 1] /\ mail[Len(mail)] = s[to]
        BY <1>3, <2>1
    <2>4. QED BY <1>1, <1>6, <1>7, <2>2, <2>3
<1>11. ASSUME NEW j \in DOMAIN s, s[j] = "@" PROVE j = at
    <2>1. j \in from..to
        BY <1>2, <1>11, PaddedMeans DEF Blank
    <2>2. PICK m \in 1..(to + 1 - from) : j = from + m - 1
        <3>1. j + 1 - from \in 1..(to + 1 - from) /\ j = from + (j + 1 - from) - 1
            BY <1>4, <2>1
        <3>2. QED BY <3>1
    <2>3. mail[m] = "@"
        BY <1>3, <1>11, <2>2
    <2>4. QED BY <1>6, <2>2, <2>3
<1>12. IsAddress(s, from, to, at, dot)
    BY <1>1, <1>2, <1>9, <1>10, <1>11 DEF IsAddress, mail
<1>13. QED BY <1>2, <1>9, <1>12

LEMMA AddressIsValid ==
    ASSUME NEW A, NEW s \in Seq(A), NEW from \in DOMAIN s, NEW to \in DOMAIN s,
           NEW at \in DOMAIN s, NEW dot \in DOMAIN s, IsAddress(s, from, to, at, dot)
    PROVE  ValidEmail(s)
<1> DEFINE mail == SubSeq(s, from, to)
           x == at + 1 - from
<1>1. /\ from < at /\ at + 1 < dot /\ dot < to
      /\ Padded(s, from, to) /\ ~Some(mail, Blank)
      /\ \A k \in DOMAIN s : s[k] = "@" <=> k = at
      /\ s[dot] = "." /\ s[at + 1] # "." /\ s[to] # "."
    BY DEF IsAddress
<1>2. /\ from \in Nat \ {0} /\ to \in Nat \ {0} /\ at \in Nat /\ dot \in Nat
      /\ to <= Len(s) /\ from <= to /\ Len(s) \in Nat /\ DOMAIN s = 1..Len(s)
    BY <1>1
<1>3. /\ mail \in Seq(A) /\ Len(mail) = to + 1 - from /\ DOMAIN mail = 1..(to + 1 - from)
      /\ \A k \in 1..(to + 1 - from) : mail[k] = s[from + k - 1]
    BY <1>2, SubText
<1>4. /\ mail[1] = s[from] /\ mail[to + 1 - from] = s[to]
      /\ 1 \in DOMAIN mail /\ to + 1 - from \in DOMAIN mail
    <2>1. /\ 1 \in 1..(to + 1 - from) /\ to + 1 - from \in 1..(to + 1 - from)
          /\ from + 1 - 1 = from /\ from + (to + 1 - from) - 1 = to
        BY <1>2
    <2>2. QED BY <1>3, <2>1
<1>5. Trim(s) = mail
    <2>1. s[from] \notin Blank /\ s[to] \notin Blank
        BY <1>1, <1>4 DEF Some
    <2>2. QED BY <1>1, <1>2, <2>1, TrimOf
<1> HIDE DEF mail
<1>6. mail # << >> /\ Len(mail) = to + 1 - from
    BY <1>3, <1>4
<1>7. Signs(mail) = {x}
    <2>1. x \in 1..(to + 1 - from) /\ from + x - 1 = at
        BY <1>1, <1>2
    <2>2. x \in Signs(mail)
        BY <1>1, <1>3, <2>1 DEF Signs
    <2>3. ASSUME NEW k \in Signs(mail) PROVE k = x
        <3>1. k \in 1..(to + 1 - from) /\ s[from + k - 1] = "@" /\ from + k - 1 \in DOMAIN s
            BY <1>2, <1>3, <2>3 DEF Signs
        <3>2. from + k - 1 = at /\ k \in Nat
            BY <1>1, <3>1
        <3>3. QED BY <1>2, <3>2
    <2>4. QED BY <2>2, <2>3
<1>8. x \in Nat /\ x # 1 /\ x # Len(mail)
    BY <1>1, <1>2, <1>6
<1>9. Cardinality(Signs(mail)) = 1 /\ Min(Signs(mail)) = x
    BY <1>7, <1>8, OneSign
<1>10. \E k \in (x + 1)..Len(mail) : mail[k] = "."
    <2>1. /\ dot + 1 - from \in (x + 1)..Len(mail)
          /\ dot + 1 - from \in 1..(to + 1 - from)
          /\ from + (dot + 1 - from) - 1 = dot
        BY <1>1, <1>2, <1>6
    <2>2. mail[dot + 1 - from] = s[dot]
        BY <1>3, <2>1
    <2>3. QED BY <1>1, <2>1, <2>2
<1>11. mail[x + 1] # "." /\ mail[Len(mail)] # "."
    <2>1. x + 1 \in 1..(to + 1 - from) /\ from + (x + 1) - 1 = at + 1
        BY <1>1, <1>2
    <2>2. mail[x + 1] = s[at + 1]
        BY <1>3, <2>1
    <2>3. QED BY <1>1, <1>4, <1>6, <2>2
<1> HIDE DEF x
<1>12. QED BY <1>1, <1>5, <1>6, <1>8, <1>9, <1>10, <1>11 DEF ValidEmail, Signs, Last, mail

---------------------------------------------------------------------------
(* The password.                                                           *)

\* A text of the characters a password is typed with: the classes of the
\* validator are those of the messages.
LEMMA PasswordDecided ==
    ASSUME NEW s \in Seq(Alphabet["password"])
    PROVE  /\ Len(s) >= Policy.minimum_length /\ Mixed(s) => ValidPassword(s)
           /\ ValidPassword(s) => Mixed(s)
           /\ ValidPassword(s) /\ Only(s, Ascii) => Len(s) >= Policy.minimum_length
<1>1. Len(s) \in Nat /\ Bytes(s) \in Nat /\ Bytes(s) >= Len(s) /\ Policy.minimum_length \in Nat
    BY NoLessThanCharacters, FieldsAssumption
<1>2. \A k \in DOMAIN s : s[k] \in {"a", "A", "1", "!", "eacute", "han"}
    BY DEF Alphabet
<1>3. Some(s, Upper) <=> "A" \in Chars(s)
    BY DEF Some, Chars, Upper
<1>4. Some(s, Lower) <=> Chars(s) \cap {"a", "eacute"} # {}
    BY DEF Some, Chars, Lower
<1>5. Some(s, Number) <=> "1" \in Chars(s)
    BY DEF Some, Chars, Number
<1>6. ~Only(s, Letters \cup Number) <=> "!" \in Chars(s)
    BY <1>2 DEF Only, Chars, Letters, Lower, Upper, Number
<1>7. Only(s, Ascii) => Bytes(s) = Len(s)
    BY OneByteEach DEF Only
<1>8. QED BY <1>1, <1>3, <1>4, <1>5, <1>6, <1>7 DEF ValidPassword, Mixed

---------------------------------------------------------------------------
(* Functions that go on step by step.                                      *)

\* What holds at 0, and with a number at the next, holds up to the last one.
LEMMA UpTo ==
    ASSUME NEW P, NEW N \in Nat, 0 \in P, \A n \in 1..N : n - 1 \in P => n \in P
    PROVE  \A n \in 0..N : n \in P
<1> DEFINE S == (0..N) \ P
<1> SUFFICES ASSUME S # {} PROVE FALSE
    OBVIOUS
<1>1. S \in SUBSET Nat
    OBVIOUS
<1>2. PICK n \in S : \A m \in S : n <= m
    BY <1>1, LeastNatural
<1>3. n \in 1..N /\ n \notin P
    BY <1>2
<1>4. n - 1 \in 0..N /\ n - 1 \notin S
    BY <1>2, <1>3
<1>5. QED BY <1>3, <1>4

\* There is a function that starts with c and goes on by step.
Steps(S, c, N, step) == c \in S /\ N \in Nat /\ step \in [S \X (1..N) -> S]
Goes(f, S, c, N, step) ==
    f \in [0..N -> S] /\ \A n \in 0..N : f[n] = IF n = 0 THEN c ELSE step[<<f[n - 1], n>>]

LEMMA Course ==
    ASSUME NEW S, NEW c, NEW N, NEW step, Steps(S, c, N, step)
    PROVE  \E f : Goes(f, S, c, N, step)
<1>0. c \in S /\ N \in Nat /\ step \in [S \X (1..N) -> S]
    BY DEF Steps
<1> DEFINE Def(f, m) == \A n \in 0..m : f[n] = IF n = 0 THEN c ELSE step[<<f[n - 1], n>>]
           P == {m \in 0..N : \E f \in [0..m -> S] : Def(f, m)}
<1>1. 0 \in P
    <2> DEFINE g == [n \in 0..0 |-> c]
    <2>1. g \in [0..0 -> S] /\ Def(g, 0)
        BY <1>0
    <2> HIDE DEF g, Def
    <2>2. 0 \in 0..N /\ \E f \in [0..0 -> S] : Def(f, 0)
        BY <1>0, <2>1
    <2>3. QED BY <2>2
<1>2. ASSUME NEW m \in 1..N, m - 1 \in P PROVE m \in P
    <2>0. m \in Nat \ {0}
        BY <1>0
    <2>1. PICK f \in [0..(m - 1) -> S] : Def(f, m - 1)
        BY <1>2
    <2> DEFINE g == [n \in 0..m |-> IF n = m THEN step[<<f[m - 1], m>>] ELSE f[n]]
    <2>2. f[m - 1] \in S /\ step[<<f[m - 1], m>>] \in S
        BY <1>0, <2>0, <2>1
    <2>3. g \in [0..m -> S]
        BY <2>0, <2>1, <2>2
    <2>4. ASSUME NEW n \in 0..m PROVE g[n] = IF n = 0 THEN c ELSE step[<<g[n - 1], n>>]
        <3>1. CASE n = m
            <4>1. m \in 0..m /\ m # 0 /\ m - 1 \in 0..m /\ m - 1 # m
                BY <2>0
            <4>2. g[m] = step[<<f[m - 1], m>>] /\ g[m - 1] = f[m - 1]
                BY <4>1
            <4> HIDE DEF g
            <4>3. QED BY <3>1, <4>1, <4>2
        <3>2. CASE n # m
            <4>1. n \in 0..(m - 1) /\ g[n] = f[n] /\ (n # 0 => g[n - 1] = f[n - 1])
                BY <2>0, <3>2
            <4>2. QED BY <2>1, <4>1
        <3>3. QED BY <3>1, <3>2
    <2>5. Def(g, m)
        BY <2>4
    <2> HIDE DEF g, Def
    <2>6. QED BY <2>3, <2>5
<1>3. \A m \in 0..N : m \in P
    <2> HIDE DEF P
    <2>1. QED BY <1>0, <1>1, <1>2, UpTo
<1>4. QED
    <2> HIDE DEF Def
    <2>1. N \in P
        BY <1>0, <1>3
    <2>2. \E f \in [0..N -> S] : Def(f, N)
        BY <2>1
    <2>3. QED BY <2>2 DEF Def, Goes

---------------------------------------------------------------------------
(* The groups: what a part of the field can be.                            *)

\* Texts without a comma, and those that a group can be.
Plain(A) == A \ {","}
Part(A) == Seq(Plain(A))
Group(A) == {g \in Part(A) : g # << >> /\ g[1] \notin Blank /\ g[Len(g)] \notin Blank}

LEMMA PartsAreTexts ==
    ASSUME NEW A, NEW u \in Part(A)
    PROVE  u \in Seq(A) /\ Len(u) \in Nat
<1>1. Plain(A) \subseteq A
    BY DEF Plain
<1>2. u \in Seq(A)
    BY <1>1, SeqMonotonic, Zenon DEF Part
<1>3. QED BY <1>2

LEMMA GroupsAreParts ==
    ASSUME NEW A, NEW groups \in Seq(Group(A)), NEW k \in 1..Len(groups)
    PROVE  groups[k] \in Group(A) /\ groups[k] \in Part(A) /\ groups[k] \in Seq(A)
<1>1. groups[k] \in Group(A)
    BY ElementOfSeq
<1>2. QED BY <1>1, PartsAreTexts DEF Group

LEMMA TrimmedPart ==
    ASSUME NEW A, NEW part \in Part(A), Trim(part) # << >>
    PROVE  Trim(part) \in Group(A)
<1> DEFINE B == Plain(A)
<1>0. part \in Seq(B)
    BY DEF Part
<1> HIDE DEF B
<1>1. PICK from \in DOMAIN part, to \in DOMAIN part :
        /\ from <= to /\ Trim(part) = SubSeq(part, from, to)
        /\ part[from] \notin Blank /\ part[to] \notin Blank
    BY <1>0, TrimEnds
<1>2. from \in Nat \ {0} /\ to \in Nat /\ to <= Len(part) /\ Len(part) \in Nat
    BY <1>0
<1> DEFINE g == SubSeq(part, from, to)
<1>3. /\ g \in Seq(B) /\ Len(g) = to + 1 - from
      /\ \A k \in 1..(to + 1 - from) : g[k] = part[from + k - 1]
    BY <1>0, <1>1, <1>2, SubText
<1> HIDE DEF g
<1>4. g[1] = part[from] /\ g[Len(g)] = part[to]
    <2>1. /\ 1 \in 1..(to + 1 - from) /\ to + 1 - from \in 1..(to + 1 - from)
          /\ from + 1 - 1 = from /\ from + (to + 1 - from) - 1 = to
        BY <1>1, <1>2
    <2>2. QED BY <1>3, <2>1
<1>5. g # << >> /\ Trim(part) = g
    BY <1>1 DEF g
<1>6. QED BY <1>1, <1>3, <1>4, <1>5 DEF Group, Part, B

\* A group is trimmed already, and nothing else is left of it behind a blank.
LEMMA GroupTrimmed ==
    ASSUME NEW A, Blank \subseteq A, NEW x \in Blank, NEW g \in Group(A)
    PROVE  Trim(g) = g /\ Trim(<<x>> \o g) = g
<1>1. /\ g \in Seq(A) /\ Len(g) \in Nat \ {0} /\ DOMAIN g = 1..Len(g)
      /\ g[1] \notin Blank /\ g[Len(g)] \notin Blank
    <2>1. g \in Part(A) /\ g # << >> /\ g[1] \notin Blank /\ g[Len(g)] \notin Blank
        BY DEF Group
    <2>2. g \in Seq(A)
        BY <2>1, PartsAreTexts
    <2>3. Len(g) \in Nat \ {0}
        BY <2>1, <2>2, EmptySeq, Zenon
    <2>4. DOMAIN g = 1..Len(g)
        BY <2>2
    <2>5. QED BY <2>1, <2>2, <2>3, <2>4
<1>2. Trim(g) = g
    <2>1. 1 \in DOMAIN g /\ Len(g) \in DOMAIN g /\ 1 <= Len(g)
        BY <1>1
    <2>2. Padded(g, 1, Len(g))
        BY <1>1, <2>1, PaddedMeans
    <2>3. Trim(g) = SubSeq(g, 1, Len(g))
        BY <1>1, <2>1, <2>2, TrimOf
    <2>4. QED BY <1>1, <2>3
<1>3. Trim(<<x>> \o g) = g
    <2> DEFINE b == <<x>>
               s == b \o g
    <2>0. b \in Seq(A) /\ Len(b) = 1 /\ b[1] \in Blank
        OBVIOUS
    <2> HIDE DEF b
    <2>1. /\ s \in Seq(A) /\ Len(s) = Len(g) + 1 /\ DOMAIN s = 1..(Len(g) + 1)
          /\ s[1] \in Blank /\ \A k \in 1..Len(g) : s[1 + k] = g[k]
        <3>1. /\ s \in Seq(A) /\ Len(s) = Len(b) + Len(g)
              /\ \A k \in 1..(Len(b) + Len(g)) :
                    s[k] = IF k <= Len(b) THEN b[k] ELSE g[k - Len(b)]
            BY <1>1, <2>0, ConcatProperties
        <3>2. DOMAIN s = 1..(Len(g) + 1) /\ Len(s) = Len(g) + 1
            BY <1>1, <2>0, <3>1
        <3> HIDE DEF s
        <3>3. s[1] \in Blank
            BY <1>1, <2>0, <3>1
        <3>4. \A k \in 1..Len(g) : s[1 + k] = g[k]
            BY <1>1, <2>0, <3>1
        <3>5. QED BY <3>1, <3>2, <3>3, <3>4
    <2> HIDE DEF s
    <2>2. /\ 2 \in DOMAIN s /\ Len(g) + 1 \in DOMAIN s /\ 2 <= Len(g) + 1
          /\ s[2] = g[1] /\ s[Len(g) + 1] = g[Len(g)]
        <3>1. 1 \in 1..Len(g) /\ Len(g) \in 1..Len(g) /\ 1 + 1 = 2 /\ 1 + Len(g) = Len(g) + 1
            BY <1>1
        <3>2. s[2] = g[1] /\ s[Len(g) + 1] = g[Len(g)]
            BY <2>1, <3>1
        <3>3. QED BY <1>1, <2>1, <3>2
    <2>3. ASSUME NEW k \in DOMAIN s PROVE s[k] \in Blank \/ k \in 2..(Len(g) + 1)
        BY <1>1, <2>1
    <2>4. Padded(s, 2, Len(g) + 1)
        BY <2>1, <2>2, <2>3, PaddedMeans
    <2>5. Trim(s) = SubSeq(s, 2, Len(g) + 1)
        BY <1>1, <2>1, <2>2, <2>4, TrimOf
    <2>6. SubSeq(s, 2, Len(g) + 1) = g
        <3> DEFINE r == SubSeq(s, 2, Len(g) + 1)
        <3>1. /\ r \in Seq(A) /\ Len(r) = Len(g)
              /\ \A k \in 1..Len(g) : r[k] = s[2 + k - 1]
            BY <1>1, <2>1, SubText
        <3> HIDE DEF r
        <3>2. \A k \in 1..Len(g) : r[k] = g[k]
            BY <1>1, <2>1, <3>1
        <3>3. r = g
            BY <1>1, <3>1, <3>2, SeqEqual
        <3>4. QED BY <3>3 DEF r
    <2>7. QED BY <2>5, <2>6 DEF b, s
<1>4. QED BY <1>2, <1>3

---------------------------------------------------------------------------
(* Reading the field.                                                      *)

\* Where the reading of a text of characters of A can stand.
SoFar(A) == [groups : Seq(Group(A)), part : Part(A)]
Start == [groups |-> << >>, part |-> << >>]

LEMMA KeepGroups ==
    ASSUME NEW A, NEW groups \in Seq(Group(A)), NEW part \in Part(A)
    PROVE  Keep(groups, part) \in Seq(Group(A))
BY TrimmedPart DEF Keep

LEMMA ReadSoFar ==
    ASSUME NEW A, NEW so \in SoFar(A), NEW ch \in A
    PROVE  Read(so, ch) \in SoFar(A)
<1>1. so.groups \in Seq(Group(A)) /\ so.part \in Part(A)
    BY DEF SoFar
<1>2. CASE ch = ","
    <2>1. << >> \in Part(A)
        BY DEF Part
    <2>2. QED BY <1>1, <1>2, <2>1, KeepGroups DEF Read, SoFar
<1>3. CASE ch # ","
    <2>1. Append(so.part, ch) \in Part(A)
        <3> DEFINE B == Plain(A)
        <3>1. so.part \in Seq(B) /\ ch \in B
            BY <1>1, <1>3 DEF Part, Plain
        <3> HIDE DEF B
        <3>2. Append(so.part, ch) \in Seq(B)
            BY <3>1
        <3>3. QED BY <3>2 DEF Part, B
    <2>2. QED BY <1>1, <1>3, <2>1 DEF Read, SoFar
<1>4. QED BY <1>2, <1>3

\* The text is read character by character.
LEMMA ReadingGoesOn ==
    ASSUME NEW A, NEW s \in Seq(A)
    PROVE  /\ Reading(s) \in [0..Len(s) -> SoFar(A)]
           /\ Reading(s)[0] = Start
           /\ \A n \in 1..Len(s) : Reading(s)[n] = Read(Reading(s)[n - 1], s[n])
<1> DEFINE N == Len(s)
           Reads(f) == f = [n \in 0..N |-> IF n = 0 THEN Start ELSE Read(f[n - 1], s[n])]
           step == [p \in SoFar(A) \X (1..N) |-> Read(p[1], s[p[2]])]
<1>1. N \in Nat /\ \A n \in 1..N : s[n] \in A
    OBVIOUS
<1>2. Start \in SoFar(A)
    BY DEF Start, SoFar, Part
<1>3. step \in [SoFar(A) \X (1..N) -> SoFar(A)]
    BY <1>1, ReadSoFar
<1>4. \A so \in SoFar(A), n \in 1..N : step[<<so, n>>] = Read(so, s[n])
    OBVIOUS
<1> HIDE DEF N, step
<1>5. PICK f \in [0..N -> SoFar(A)] :
            \A n \in 0..N : f[n] = IF n = 0 THEN Start ELSE step[<<f[n - 1], n>>]
    <2>1. Steps(SoFar(A), Start, N, step)
        BY <1>1, <1>2, <1>3 DEF Steps
    <2>2. PICK f : Goes(f, SoFar(A), Start, N, step)
        BY <2>1, Course, Zenon
    <2>3. QED BY <2>2 DEF Goes
<1>6. Reads(f)
    <2>1. ASSUME NEW n \in 0..N PROVE f[n] = IF n = 0 THEN Start ELSE Read(f[n - 1], s[n])
        <3>1. n # 0 => n \in 1..N /\ n - 1 \in 0..N
            BY <1>1
        <3>2. QED BY <1>4, <1>5, <3>1
    <2>2. QED BY <1>5, <2>1
<1>7. Reading(s) = CHOOSE g : Reads(g)
    BY Zenon DEF Reading, Start, N
<1>8. Reads(Reading(s))
    <2> HIDE DEF Reads
    <2>1. QED BY <1>6, <1>7, Zenon
<1>9. \A n \in 0..N : Reading(s)[n] = IF n = 0 THEN Start ELSE Read(Reading(s)[n - 1], s[n])
    <2> DEFINE g == Reading(s)
    <2> HIDE DEF g
    <2>1. Reads(g)
        BY <1>8 DEF g
    <2>2. \A n \in 0..N : g[n] = IF n = 0 THEN Start ELSE Read(g[n - 1], s[n])
        BY <2>1
    <2>3. QED BY <2>2 DEF g
<1>10. \A n \in 0..N : Reading(s)[n] \in SoFar(A)
    <2> DEFINE P == {n \in 0..N : Reading(s)[n] \in SoFar(A)}
    <2>1. 0 \in P
        BY <1>1, <1>2, <1>9
    <2>2. ASSUME NEW n \in 1..N, n - 1 \in P PROVE n \in P
        <3>1. s[n] \in A /\ Reading(s)[n] = Read(Reading(s)[n - 1], s[n])
            BY <1>1, <1>9
        <3>2. QED BY <2>2, <3>1, ReadSoFar
    <2>3. \A n \in 0..N : n \in P
        <3> HIDE DEF P
        <3>1. QED BY <1>1, <2>1, <2>2, UpTo
    <2>4. QED BY <2>3
<1>11. Reading(s) \in [0..N -> SoFar(A)]
    <2> DEFINE g == Reading(s)
    <2> HIDE DEF g
    <2>1. g = [n \in 0..N |-> IF n = 0 THEN Start ELSE Read(g[n - 1], s[n])]
        BY <1>8 DEF g
    <2>2. \A n \in 0..N : g[n] \in SoFar(A)
        BY <1>10 DEF g
    <2> HIDE DEF Reads
    <2>3. QED BY <2>1, <2>2 DEF g
<1>12. QED BY <1>1, <1>9, <1>11 DEF N

LEMMA ReadOne ==
    ASSUME NEW so, NEW ch
    PROVE  /\ ch = "," => /\ Read(so, ch).groups = Keep(so.groups, so.part)
                          /\ Read(so, ch).part = << >>
           /\ ch # "," => /\ Read(so, ch).groups = so.groups
                          /\ Read(so, ch).part = Append(so.part, ch)
BY DEF Read

\* Where no comma follows, what is read becomes the part.
LEMMA PartGrows ==
    ASSUME NEW A, NEW t \in Seq(A), NEW u \in Part(A), NEW m \in 0..Len(t),
           m + Len(u) <= Len(t), \A k \in 1..Len(u) : t[m + k] = u[k],
           Reading(t)[m].part = << >>
    PROVE  /\ Reading(t)[m + Len(u)].groups = Reading(t)[m].groups
           /\ Reading(t)[m + Len(u)].part = u
<1> DEFINE B == Plain(A)
           N == Len(u)
           groups == Reading(t)[m].groups
           Grown(k) == /\ Reading(t)[m + k].groups = groups
                       /\ Reading(t)[m + k].part = SubSeq(u, 1, k)
           P == {k \in 0..N : Grown(k)}
<1>1. u \in Seq(B) /\ N \in Nat
    <2>1. u \in Seq(B)
        BY DEF Part
    <2> HIDE DEF B
    <2>2. N \in Nat
        BY <2>1
    <2>3. QED BY <2>1, <2>2
<1>2. \A k \in 1..N : u[k] # ","
    <2>1. \A k \in 1..N : u[k] \in B
        BY <1>1, ElementOfSeq
    <2>2. QED BY <2>1 DEF Plain
<1> HIDE DEF B
<1>3. Len(t) \in Nat /\ m \in Nat
    OBVIOUS
<1>4. 0 \in P
    <2>1. SubSeq(u, 1, 0) = << >> /\ m + 0 = m /\ 0 \in 0..N
        BY <1>1, <1>3, SubSeqEmpty
    <2>2. QED BY <2>1
<1>5. ASSUME NEW k \in 1..N, k - 1 \in P PROVE k \in P
    <2>1. m + k \in 1..Len(t) /\ m + k - 1 = m + (k - 1) /\ t[m + k] = u[k]
        BY <1>1, <1>3
    <2>2. Reading(t)[m + k] = Read(Reading(t)[m + (k - 1)], u[k])
        BY <2>1, ReadingGoesOn
    <2>3. Append(SubSeq(u, 1, k - 1), u[k]) = SubSeq(u, 1, k)
        <3>1. k \in 1..Len(u) /\ 1 \in 1..Len(u)
            BY <1>1
        <3>2. SubSeq(u, 1, k) = SubSeq(u, 1, k - 1) \o <<u[k]>>
            BY <1>1, <3>1, SubSeqRecursiveSecond
        <3>3. SubSeq(u, 1, k - 1) \in Seq(B)
            BY <1>1, SubText
        <3>4. QED BY <1>1, <3>2, <3>3, AppendIsConcat
    <2>4. Grown(k - 1)
        BY <1>5
    <2>5. /\ Reading(t)[m + k].groups = Reading(t)[m + (k - 1)].groups
          /\ Reading(t)[m + k].part = Append(Reading(t)[m + (k - 1)].part, u[k])
        <3> DEFINE so == Reading(t)[m + (k - 1)]
                   ch == u[k]
        <3>1. ch # ","
            BY <1>2
        <3> HIDE DEF so, ch
        <3>2. Read(so, ch).groups = so.groups
            BY <3>1, ReadOne
        <3>3. Read(so, ch).part = Append(so.part, ch)
            BY <3>1, ReadOne
        <3>4. QED BY <2>2, <3>2, <3>3, Zenon DEF so, ch
    <2>6. k \in 0..N /\ Grown(k)
        BY <1>1, <2>3, <2>4, <2>5
    <2>7. QED BY <2>6
<1>6. N \in P
    <2> HIDE DEF P, N
    <2>1. \A k \in 0..N : k \in P
        BY <1>1, <1>4, <1>5, UpTo
    <2>2. N \in 0..N
        BY <1>1
    <2>3. QED BY <2>1, <2>2
<1>7. SubSeq(u, 1, N) = u
    BY <1>1, SubSeqFull
<1>8. QED BY <1>6, <1>7

---------------------------------------------------------------------------
(* Joining the groups.                                                     *)

\* The text of the groups grows group by group.
LEMMA JoiningGoesOn ==
    ASSUME NEW A, Separator \in Seq(A), NEW groups \in Seq(Group(A))
    PROVE  /\ Joining(groups) \in [0..Len(groups) -> Seq(A)]
           /\ Joining(groups)[0] = << >>
           /\ \A k \in 1..Len(groups) :
                Joining(groups)[k] =
                    Joining(groups)[k - 1] \o (IF k = 1 THEN << >> ELSE Separator) \o groups[k]
<1> DEFINE N == Len(groups)
           between(k) == IF k = 1 THEN << >> ELSE Separator
           Joins(f) ==
                f = [k \in 0..N |-> IF k = 0 THEN << >> ELSE f[k - 1] \o between(k) \o groups[k]]
           step == [p \in Seq(A) \X (1..N) |-> p[1] \o between(p[2]) \o groups[p[2]]]
<1>1. N \in Nat /\ \A k \in 1..N : groups[k] \in Seq(A) /\ between(k) \in Seq(A)
    <2>1. ASSUME NEW k \in 1..N PROVE groups[k] \in Seq(A)
        BY GroupsAreParts
    <2>2. << >> \in Seq(A) /\ N \in Nat
        OBVIOUS
    <2>3. QED BY <2>1, <2>2
<1>3. step \in [Seq(A) \X (1..N) -> Seq(A)]
    <2>1. ASSUME NEW so \in Seq(A), NEW k \in 1..N
          PROVE  so \o between(k) \o groups[k] \in Seq(A)
        <3> HIDE DEF between, N
        <3>1. QED BY <1>1
    <2> HIDE DEF between, N
    <2>2. QED BY <2>1
<1>4. \A so \in Seq(A), k \in 1..N : step[<<so, k>>] = so \o between(k) \o groups[k]
    OBVIOUS
<1> HIDE DEF N, step, between
<1>5. PICK f \in [0..N -> Seq(A)] :
            \A k \in 0..N : f[k] = IF k = 0 THEN << >> ELSE step[<<f[k - 1], k>>]
    <2>1. Steps(Seq(A), << >>, N, step)
        BY <1>1, <1>3 DEF Steps
    <2>2. PICK f : Goes(f, Seq(A), << >>, N, step)
        BY <2>1, Course, Zenon
    <2>3. QED BY <2>2 DEF Goes
<1>6. Joins(f)
    <2>1. ASSUME NEW k \in 0..N
          PROVE  f[k] = IF k = 0 THEN << >> ELSE f[k - 1] \o between(k) \o groups[k]
        <3>1. k # 0 => k \in 1..N /\ k - 1 \in 0..N
            BY <1>1
        <3>2. QED BY <1>4, <1>5, <3>1
    <2>2. QED BY <1>5, <2>1
<1>7. Joining(groups) = CHOOSE g : Joins(g)
    BY Zenon DEF Joining, between, N
<1> DEFINE g == Joining(groups)
<1>8. Joins(g)
    <2> HIDE DEF Joins
    <2>1. QED BY <1>6, <1>7, Zenon
<1> HIDE DEF g
<1>9. \A k \in 0..N : g[k] = IF k = 0 THEN << >> ELSE g[k - 1] \o between(k) \o groups[k]
    BY <1>8
<1>12. \A k \in 1..N : g[k] = g[k - 1] \o between(k) \o groups[k]
    <2>1. \A k \in 1..N : k \in 0..N /\ k # 0
        BY <1>1
    <2>2. QED BY <1>9, <2>1, Zenon
<1>13. g[0] = << >>
    <2>1. 0 \in 0..N
        BY <1>1
    <2>2. QED BY <1>9, <2>1, Zenon
<1>10. \A k \in 0..N : g[k] \in Seq(A)
    <2> DEFINE P == {k \in 0..N : g[k] \in Seq(A)}
    <2>1. 0 \in P
        <3>1. 0 \in 0..N
            BY <1>1
        <3>2. g[0] \in Seq(A)
            BY <1>13, EmptySeq
        <3>3. QED BY <3>1, <3>2
    <2>2. ASSUME NEW k \in 1..N, k - 1 \in P PROVE k \in P
        <3>1. groups[k] \in Seq(A) /\ between(k) \in Seq(A) /\ g[k - 1] \in Seq(A)
            BY <1>1, <2>2
        <3>2. g[k - 1] \o between(k) \o groups[k] \in Seq(A)
            BY <3>1, ConcatProperties
        <3>3. g[k] \in Seq(A)
            BY <1>12, <3>2
        <3>4. QED BY <1>1, <3>3
    <2>3. \A k \in 0..N : k \in P
        <3> HIDE DEF P
        <3>1. QED BY <1>1, <2>1, <2>2, UpTo
    <2>4. QED BY <2>3
<1>11. g \in [0..N -> Seq(A)]
    <2>1. g = [k \in 0..N |-> IF k = 0 THEN << >> ELSE g[k - 1] \o between(k) \o groups[k]]
        BY <1>8
    <2> HIDE DEF Joins
    <2>2. QED BY <1>10, <2>1
<1>14. QED BY <1>11, <1>12, <1>13, Zenon DEF N, g, between

\* The text of fewer groups is where that of more begins.
Begins(s, t) == Len(s) <= Len(t) /\ \A k \in 1..Len(s) : t[k] = s[k]

LEMMA JoiningBegins ==
    ASSUME NEW A, Separator \in Seq(A), NEW groups \in Seq(Group(A)),
           NEW k \in 0..Len(groups)
    PROVE  Begins(Joining(groups)[k], JoinGroups(groups))
<1> DEFINE N == Len(groups)
           joined(n) == Joining(groups)[n]
           P == {n \in 0..N : \A j \in 0..n : Begins(joined(j), joined(n))}
<1>1. N \in Nat /\ \A n \in 0..N : joined(n) \in Seq(A) /\ Len(joined(n)) \in Nat
    <2>1. ASSUME NEW n \in 0..N PROVE joined(n) \in Seq(A)
        BY JoiningGoesOn
    <2> HIDE DEF joined
    <2>2. QED BY <2>1
<1>2. \A n \in 0..N : Begins(joined(n), joined(n))
    <2> HIDE DEF joined
    <2>1. QED BY <1>1 DEF Begins
<1>3. 0 \in P
    <2>1. 0 \in 0..N /\ \A j \in 0..0 : j = 0
        BY <1>1
    <2>2. QED BY <1>2, <2>1
<1>4. ASSUME NEW n \in 1..N, n - 1 \in P PROVE n \in P
    <2> DEFINE more == (IF n = 1 THEN << >> ELSE Separator)
    <2>1. joined(n) = joined(n - 1) \o more \o groups[n]
        BY JoiningGoesOn
    <2>2. more \in Seq(A) /\ groups[n] \in Seq(A)
        BY GroupsAreParts
    <2> HIDE DEF more
    <2>3. n - 1 \in 0..N /\ n \in 0..N
        BY <1>1
    <2>4. Begins(joined(n - 1), joined(n))
        <3> DEFINE s == joined(n - 1)
        <3>1. s \in Seq(A) /\ Len(s) \in Nat
            BY <1>1, <2>3
        <3> HIDE DEF s
        <3>2. s \o more \in Seq(A) /\ Begins(s, s \o more)
            BY <2>2, <3>1, ConcatProperties DEF Begins
        <3> DEFINE r == s \o more
        <3>3. r \in Seq(A) /\ Begins(s, r)
            BY <3>2
        <3> HIDE DEF r
        <3>4. Begins(r, r \o groups[n]) /\ r \o groups[n] \in Seq(A)
            BY <2>2, <3>3, ConcatProperties DEF Begins
        <3> DEFINE q == r \o groups[n]
        <3>5. Begins(r, q) /\ q \in Seq(A)
            BY <3>4
        <3> HIDE DEF q
        <3>6. Begins(s, q)
            BY <3>1, <3>3, <3>5 DEF Begins
        <3>7. QED BY <2>1, <3>6, Zenon DEF q, r, s
    <2>5. ASSUME NEW j \in 0..n PROVE Begins(joined(j), joined(n))
        <3>1. CASE j = n
            BY <1>2, <2>3, <3>1
        <3>2. CASE j # n
            <4>1. j \in 0..(n - 1) /\ j \in 0..N
                BY <1>1, <3>2
            <4>2. Begins(joined(j), joined(n - 1))
                BY <1>4, <4>1
            <4>3. Len(joined(j)) \in Nat /\ Len(joined(n - 1)) \in Nat /\ Len(joined(n)) \in Nat
                BY <1>1, <2>3, <4>1
            <4> HIDE DEF joined
            <4>4. QED BY <2>4, <4>2, <4>3 DEF Begins
        <3>3. QED BY <3>1, <3>2
    <2>6. QED BY <2>3, <2>5
<1>5. \A n \in 0..N : n \in P
    <2> HIDE DEF P
    <2>1. QED BY <1>1, <1>3, <1>4, UpTo
<1>6. N \in P /\ k \in 0..N
    BY <1>1, <1>5
<1>7. QED BY <1>6 DEF JoinGroups

---------------------------------------------------------------------------
(* Reading what was joined.                                                *)

\* A blank is no comma, and between two groups stands one of each.
BlankPlain(A) == Blank \subseteq Plain(A)

LEMMA BlankText ==
    ASSUME NEW A, BlankPlain(A)
    PROVE  Blank \subseteq A /\ Blank \subseteq Plain(A)
BY DEF BlankPlain, Plain

LEMMA Separates ==
    Len(Separator) = 2 /\ Separator[1] = "," /\ Separator[2] \in Blank
BY DEF Separator, Blank

\* A blank before a group makes a part of it.
LEMMA BlankBefore ==
    ASSUME NEW A, BlankPlain(A), NEW x \in Blank, NEW g \in Group(A)
    PROVE  /\ <<x>> \o g \in Part(A)
           /\ Len(<<x>> \o g) = Len(g) + 1 /\ Len(g) \in Nat
           /\ \A k \in 1..(Len(g) + 1) : (<<x>> \o g)[k] = IF k = 1 THEN x ELSE g[k - 1]
           /\ Trim(<<x>> \o g) = g
<1> DEFINE B == Plain(A)
<1>1. g \in Seq(B) /\ x \in B
    BY BlankText DEF Group, Part
<1>2. Blank \subseteq A
    BY BlankText
<1>3. Trim(<<x>> \o g) = g
    BY <1>2, GroupTrimmed
<1> HIDE DEF B
<1> DEFINE b == <<x>>
<1>4. b \in Seq(B) /\ Len(b) = 1 /\ b[1] = x
    BY <1>1
<1> HIDE DEF b
<1>5. /\ b \o g \in Seq(B) /\ Len(b \o g) = Len(b) + Len(g)
      /\ \A k \in 1..(Len(b) + Len(g)) : (b \o g)[k] = IF k <= Len(b) THEN b[k] ELSE g[k - Len(b)]
    BY <1>1, <1>4, ConcatProperties
<1>6. Len(g) \in Nat
    BY <1>1
<1>7. /\ b \o g \in Seq(B) /\ Len(b \o g) = Len(g) + 1
      /\ \A k \in 1..(Len(g) + 1) : (b \o g)[k] = IF k = 1 THEN x ELSE g[k - 1]
    BY <1>4, <1>5, <1>6
<1>8. QED BY <1>3, <1>6, <1>7, Zenon DEF b, B, Part

\* Where the k-th group ends in the joined text, those before it have been read
\* and it is what the part comes to.
GroupRead(groups, k) ==
    LET t == JoinGroups(groups)
        so == Reading(t)[Len(Joining(groups)[k])]
    IN  so.groups = SubSeq(groups, 1, k - 1) /\ Trim(so.part) = groups[k]

LEMMA FirstGroupRead ==
    ASSUME NEW A, BlankPlain(A), Separator \in Seq(A),
           NEW groups \in Seq(Group(A)), groups # << >>
    PROVE  GroupRead(groups, 1)
<1> DEFINE t == JoinGroups(groups)
           g == groups[1]
<1>1. Len(groups) \in Nat \ {0} /\ 1 \in 1..Len(groups) /\ 0 \in 0..Len(groups)
    BY EmptySeq
<1>2. g \in Group(A) /\ Len(g) \in Nat /\ g \in Part(A) /\ g \in Seq(A)
    BY <1>1, GroupsAreParts, PartsAreTexts
<1>3. Joining(groups)[1] = g
    <2>1. Joining(groups)[1] = Joining(groups)[0] \o << >> \o g
        <3>1. Joining(groups)[1] =
                Joining(groups)[1 - 1] \o (IF 1 = 1 THEN << >> ELSE Separator) \o groups[1]
            BY <1>1, JoiningGoesOn
        <3>2. QED BY <3>1
    <2>2. Joining(groups)[0] = << >>
        BY JoiningGoesOn
    <2>3. << >> \o << >> \o g = g
        BY <1>2
    <2>4. QED BY <2>1, <2>2, <2>3
<1>4. t \in Seq(A) /\ Len(t) \in Nat
    <2>1. Len(groups) \in 0..Len(groups)
        BY <1>1
    <2>3. t \in Seq(A)
        BY <2>1, JoiningGoesOn DEF JoinGroups
    <2> HIDE DEF t
    <2>2. QED BY <2>3
<1>5. Len(g) <= Len(t) /\ \A k \in 1..Len(g) : t[k] = g[k]
    <2>1. 1 \in 0..Len(groups)
        BY <1>1
    <2>2. Begins(Joining(groups)[1], t)
        BY <2>1, JoiningBegins
    <2>3. QED BY <1>3, <2>2 DEF Begins
<1>6. Reading(t)[0].groups = << >> /\ Reading(t)[0].part = << >>
    BY <1>4, ReadingGoesOn DEF Start
<1>7. Reading(t)[Len(g)].groups = << >> /\ Reading(t)[Len(g)].part = g
    <2> HIDE DEF t, g
    <2>1. /\ Reading(t)[0 + Len(g)].groups = Reading(t)[0].groups
          /\ Reading(t)[0 + Len(g)].part = g
        <3>1. 0 \in 0..Len(t) /\ 0 + Len(g) <= Len(t) /\ \A k \in 1..Len(g) : t[0 + k] = g[k]
            BY <1>2, <1>4, <1>5
        <3>2. QED BY <1>2, <1>4, <1>6, <3>1, PartGrows
    <2>2. 0 + Len(g) = Len(g)
        BY <1>2
    <2>3. QED BY <1>6, <2>1, <2>2
<1>8. Trim(g) = g
    <2>1. PICK x : x \in Blank
        BY Separates
    <2>2. Blank \subseteq A
        BY BlankText
    <2>3. QED BY <1>2, <2>1, <2>2, GroupTrimmed
<1>9. SubSeq(groups, 1, 1 - 1) = << >>
    BY SubSeqEmpty
<1>10. QED BY <1>3, <1>7, <1>8, <1>9 DEF GroupRead

\* What stands in the joined text t between the ends of two groups, when the first
\* ends at `end` and the second is g.
Between(t, end, g) ==
    /\ end \in Nat /\ Len(g) \in Nat /\ Len(t) \in Nat
    /\ end + 2 + Len(g) <= Len(t)
    /\ t[end + 1] = Separator[1] /\ t[end + 2] = Separator[2]
    /\ \A i \in 1..Len(g) : t[end + 2 + i] = g[i]

LEMMA NextGroupJoined ==
    ASSUME NEW A, BlankPlain(A), Separator \in Seq(A),
           NEW groups \in Seq(Group(A)), NEW k \in 2..Len(groups)
    PROVE  /\ Between(JoinGroups(groups), Len(Joining(groups)[k - 1]), groups[k])
           /\ Len(Joining(groups)[k]) = Len(Joining(groups)[k - 1]) + 2 + Len(groups[k])
<1> DEFINE t == JoinGroups(groups)
           s == Joining(groups)[k - 1]
           g == groups[k]
           r == s \o Separator
           q == r \o g
<1>1. /\ Len(groups) \in Nat /\ k \in 1..Len(groups) /\ k # 1
      /\ k \in 0..Len(groups) /\ k - 1 \in 0..Len(groups) /\ Len(groups) \in 0..Len(groups)
    OBVIOUS
<1>2. s \in Seq(A) /\ t \in Seq(A) /\ g \in Seq(A)
    <2>1. s \in Seq(A) /\ t \in Seq(A)
        BY <1>1, JoiningGoesOn DEF JoinGroups
    <2>2. g \in Seq(A)
        BY <1>1, GroupsAreParts
    <2>3. QED BY <2>1, <2>2
<1>3. Joining(groups)[k] = q
    <2>1. Joining(groups)[k] = s \o (IF k = 1 THEN << >> ELSE Separator) \o g
        BY <1>1, JoiningGoesOn
    <2>2. QED BY <1>1, <2>1
<1>4. Begins(q, t)
    BY <1>1, <1>3, JoiningBegins
<1> HIDE DEF s, t, g
<1>5. Len(s) \in Nat /\ Len(t) \in Nat /\ Len(g) \in Nat
    BY <1>2
<1>6. /\ r \in Seq(A) /\ Len(r) = Len(s) + 2
      /\ \A i \in 1..2 : r[Len(s) + i] = Separator[i]
    <2>1. Len(Separator) = 2
        BY Separates
    <2>2. /\ r \in Seq(A) /\ Len(r) = Len(s) + Len(Separator)
          /\ \A i \in 1..(Len(s) + Len(Separator)) :
                r[i] = IF i <= Len(s) THEN s[i] ELSE Separator[i - Len(s)]
        BY <1>2, ConcatProperties
    <2> HIDE DEF r
    <2>3. ASSUME NEW i \in 1..2 PROVE r[Len(s) + i] = Separator[i]
        <3>1. /\ Len(s) + i \in 1..(Len(s) + Len(Separator))
              /\ ~(Len(s) + i <= Len(s)) /\ Len(s) + i - Len(s) = i
            BY <1>5, <2>1
        <3>2. QED BY <2>2, <3>1
    <2>4. QED BY <2>1, <2>2, <2>3
<1>7. /\ q \in Seq(A) /\ Len(q) = Len(s) + 2 + Len(g)
      /\ \A i \in 1..2 : q[Len(s) + i] = Separator[i]
      /\ \A i \in 1..Len(g) : q[Len(s) + 2 + i] = g[i]
    <2> HIDE DEF r
    <2>1. /\ q \in Seq(A) /\ Len(q) = Len(r) + Len(g)
          /\ \A i \in 1..(Len(r) + Len(g)) : q[i] = IF i <= Len(r) THEN r[i] ELSE g[i - Len(r)]
        BY <1>2, <1>6, ConcatProperties
    <2> HIDE DEF q
    <2>2. ASSUME NEW i \in 1..2 PROVE q[Len(s) + i] = Separator[i]
        <3>1. Len(s) + i \in 1..(Len(r) + Len(g)) /\ Len(s) + i <= Len(r)
            BY <1>5, <1>6
        <3>2. QED BY <1>6, <2>1, <3>1
    <2>3. ASSUME NEW i \in 1..Len(g) PROVE q[Len(s) + 2 + i] = g[i]
        <3>1. /\ Len(s) + 2 + i \in 1..(Len(r) + Len(g))
              /\ ~(Len(s) + 2 + i <= Len(r)) /\ Len(s) + 2 + i - Len(r) = i
            BY <1>5, <1>6
        <3>2. QED BY <2>1, <3>1
    <2>4. Len(q) = Len(s) + 2 + Len(g)
        BY <1>6, <2>1
    <2>5. QED BY <2>1, <2>2, <2>3, <2>4
<1> HIDE DEF q
<1>8. /\ Len(s) + 2 + Len(g) <= Len(t)
      /\ \A i \in 1..(Len(s) + 2 + Len(g)) : t[i] = q[i]
    BY <1>4, <1>7 DEF Begins
<1>9. t[Len(s) + 1] = Separator[1] /\ t[Len(s) + 2] = Separator[2]
    BY <1>5, <1>7, <1>8
<1>10. \A i \in 1..Len(g) : t[Len(s) + 2 + i] = g[i]
    BY <1>5, <1>7, <1>8
<1>12. Len(Joining(groups)[k]) = Len(s) + 2 + Len(g)
    BY <1>3, <1>7
<1>13. QED BY <1>5, <1>8, <1>9, <1>10, <1>12 DEF Between, s, t, g

LEMMA AppendedGroup ==
    ASSUME NEW S, NEW s \in Seq(S), NEW k \in 1..Len(s)
    PROVE  Append(SubSeq(s, 1, k - 1), s[k]) = SubSeq(s, 1, k)
<1>1. 1 \in 1..Len(s) /\ Len(s) \in Nat /\ k \in Nat
    OBVIOUS
<1>2. SubSeq(s, 1, k) = SubSeq(s, 1, k - 1) \o <<s[k]>>
    BY <1>1, SubSeqRecursiveSecond
<1>3. SubSeq(s, 1, k - 1) \in Seq(S) /\ s[k] \in S
    BY <1>1, SubText
<1>4. QED BY <1>2, <1>3, AppendIsConcat

LEMMA NextGroupRead ==
    ASSUME NEW A, BlankPlain(A), Separator \in Seq(A),
           NEW groups \in Seq(Group(A)), NEW k \in 2..Len(groups), GroupRead(groups, k - 1)
    PROVE  GroupRead(groups, k)
<1> DEFINE t == JoinGroups(groups)
           end == Len(Joining(groups)[k - 1])
           g == groups[k]
           x == Separator[2]
           u == <<x>> \o g
<1>1. /\ end \in Nat /\ Len(g) \in Nat /\ Len(t) \in Nat
      /\ Len(Joining(groups)[k]) = end + 2 + Len(g)
      /\ end + 2 + Len(g) <= Len(t)
      /\ t[end + 1] = Separator[1] /\ t[end + 2] = x
      /\ \A i \in 1..Len(g) : t[end + 2 + i] = g[i]
    <2>1. Between(t, end, g)
        BY NextGroupJoined, Zenon
    <2>2. Len(Joining(groups)[k]) = end + 2 + Len(g)
        BY NextGroupJoined, Zenon
    <2> HIDE DEF t, end, g
    <2>3. QED BY <2>1, <2>2 DEF Between
<1>2. t \in Seq(A) /\ Len(groups) \in Nat
    <2>1. Len(groups) \in Nat /\ Len(groups) \in 0..Len(groups)
        OBVIOUS
    <2>2. QED BY <2>1, JoiningGoesOn DEF JoinGroups
<1>3. /\ Reading(t)[end].groups = SubSeq(groups, 1, k - 1 - 1)
      /\ Trim(Reading(t)[end].part) = groups[k - 1]
    BY DEF GroupRead
<1>4. g \in Group(A) /\ groups[k - 1] \in Group(A) /\ k - 1 \in 1..Len(groups)
    <2>1. k \in 1..Len(groups) /\ k - 1 \in 1..Len(groups)
        BY <1>2
    <2>2. QED BY <2>1, GroupsAreParts
<1>5. /\ u \in Part(A) /\ Len(u) = Len(g) + 1
      /\ \A i \in 1..(Len(g) + 1) : u[i] = IF i = 1 THEN x ELSE g[i - 1]
      /\ Trim(u) = g
    <2>1. x \in Blank
        BY Separates
    <2> HIDE DEF x, g
    <2>2. QED BY <1>4, <2>1, BlankBefore
<1> HIDE DEF t, end, g, x, u
<1>6. /\ Reading(t)[end + 1].groups = SubSeq(groups, 1, k - 1)
      /\ Reading(t)[end + 1].part = << >>
    <2> DEFINE so == Reading(t)[end]
    <2>1. end + 1 \in 1..Len(t) /\ end + 1 - 1 = end
        BY <1>1
    <2>2. Reading(t)[end + 1] = Read(so, t[end + 1])
        <3>1. \A n \in 1..Len(t) : Reading(t)[n] = Read(Reading(t)[n - 1], t[n])
            BY <1>2, ReadingGoesOn
        <3> DEFINE n == end + 1
        <3>2. n \in 1..Len(t) /\ n - 1 = end
            BY <1>1
        <3> HIDE DEF n
        <3>3. Reading(t)[n] = Read(Reading(t)[n - 1], t[n])
            BY <3>1, <3>2
        <3>4. QED BY <3>2, <3>3 DEF n
    <2>3. t[end + 1] = ","
        BY <1>1, Separates
    <2>4. Read(so, t[end + 1]).groups = Keep(so.groups, so.part) /\ Read(so, t[end + 1]).part = << >>
        <3> HIDE DEF so
        <3>1. QED BY <2>3, ReadOne
    <2>5. Keep(so.groups, so.part) = Append(SubSeq(groups, 1, k - 1 - 1), groups[k - 1])
        <3>1. groups[k - 1] # << >>
            BY <1>4 DEF Group
        <3>2. QED BY <1>3, <3>1 DEF Keep
    <2>6. Append(SubSeq(groups, 1, k - 1 - 1), groups[k - 1]) = SubSeq(groups, 1, k - 1)
        BY <1>2, <1>4, AppendedGroup
    <2>7. QED BY <2>2, <2>4, <2>5, <2>6
<1>7. /\ Reading(t)[end + 1 + Len(u)].groups = Reading(t)[end + 1].groups
      /\ Reading(t)[end + 1 + Len(u)].part = u
    <2>1. end + 1 \in 0..Len(t) /\ end + 1 + Len(u) <= Len(t)
        BY <1>1, <1>5
    <2>2. ASSUME NEW i \in 1..Len(u) PROVE t[end + 1 + i] = u[i]
        <3>1. CASE i = 1
            <4>1. end + 1 + i = end + 2 /\ i \in 1..(Len(g) + 1)
                BY <1>1, <3>1
            <4>2. QED BY <1>1, <1>5, <3>1, <4>1
        <3>2. CASE i # 1
            <4>1. /\ end + 1 + i = end + 2 + (i - 1) /\ i - 1 \in 1..Len(g)
                  /\ i \in 1..(Len(g) + 1)
                BY <1>1, <1>5, <3>2
            <4>2. QED BY <1>1, <1>5, <3>2, <4>1
        <3>3. QED BY <3>1, <3>2
    <2>3. Reading(t)[end + 1].part = << >> /\ u \in Part(A)
        BY <1>5, <1>6
    <2> DEFINE m == end + 1
    <2>4. /\ m \in 0..Len(t) /\ m + Len(u) <= Len(t) /\ \A i \in 1..Len(u) : t[m + i] = u[i]
          /\ Reading(t)[m].part = << >>
        BY <2>1, <2>2, <2>3
    <2> HIDE DEF m
    <2>5. /\ Reading(t)[m + Len(u)].groups = Reading(t)[m].groups
          /\ Reading(t)[m + Len(u)].part = u
        BY <1>2, <2>3, <2>4, PartGrows
    <2>6. QED BY <2>5 DEF m
<1>8. end + 1 + Len(u) = Len(Joining(groups)[k])
    BY <1>1, <1>5
<1>9. QED BY <1>5, <1>6, <1>7, <1>8 DEF GroupRead, t, g

\* Parsing what is shown gives the groups again.
LEMMA ParseJoined ==
    ASSUME NEW A, BlankPlain(A), Separator \in Seq(A), NEW groups \in Seq(Group(A))
    PROVE  ParseGroups(JoinGroups(groups)) = groups
<1> DEFINE N == Len(groups)
           t == JoinGroups(groups)
           so == Reading(t)[Len(t)]
<1>1. N \in Nat /\ N \in 0..N /\ t \in Seq(A)
    <2>1. N \in Nat /\ N \in 0..N
        OBVIOUS
    <2>2. QED BY <2>1, JoiningGoesOn DEF JoinGroups
<1>2. CASE groups = << >>
    <2>1. N = 0
        BY <1>2
    <2>2. t = << >>
        BY <2>1, JoiningGoesOn DEF JoinGroups
    <2>3. Len(t) = 0
        BY <2>2
    <2>4. so.groups = << >> /\ so.part = << >>
        <3>1. Reading(t)[0] = Start
            BY <1>1, ReadingGoesOn
        <3>2. so = Start
            BY <2>3, <3>1
        <3> HIDE DEF so
        <3>3. QED BY <3>2 DEF Start
    <2>5. Trim(<< >>) = << >>
        BY DEF Trim
    <2> HIDE DEF so
    <2>6. Keep(so.groups, so.part) = << >>
        BY <2>4, <2>5 DEF Keep
    <2>7. QED BY <1>2, <2>6 DEF ParseGroups, so
<1>3. CASE groups # << >>
    <2> DEFINE P == {k \in 0..N : k # 0 => GroupRead(groups, k)}
    <2>1. 0 \in P
        BY <1>1
    <2>2. ASSUME NEW k \in 1..N, k - 1 \in P PROVE k \in P
        <3>1. CASE k = 1
            BY <1>1, <1>3, <3>1, FirstGroupRead
        <3>2. CASE k # 1
            <4>1. k \in 2..N /\ k - 1 # 0
                BY <1>1, <3>2
            <4>2. GroupRead(groups, k - 1)
                BY <2>2, <4>1
            <4>3. GroupRead(groups, k)
                BY <4>1, <4>2, NextGroupRead
            <4>4. QED BY <4>3
        <3>3. QED BY <3>1, <3>2
    <2>3. \A k \in 0..N : k \in P
        <3> HIDE DEF P, N
        <3>1. QED BY <1>1, <2>1, <2>2, UpTo
    <2>4. N # 0
        BY <1>3, EmptySeq
    <2>5. GroupRead(groups, N)
        BY <1>1, <2>3, <2>4
    <2>6. so.groups = SubSeq(groups, 1, N - 1) /\ Trim(so.part) = groups[N]
        BY <2>5 DEF GroupRead, JoinGroups
    <2> HIDE DEF so
    <2>7. N \in 1..N /\ groups[N] # << >>
        <3>1. N \in 1..N
            BY <1>1, <2>4
        <3>2. groups[N] \in Group(A)
            BY <3>1, GroupsAreParts
        <3>3. QED BY <3>1, <3>2 DEF Group
    <2>8. Keep(so.groups, so.part) = Append(SubSeq(groups, 1, N - 1), groups[N])
        BY <2>6, <2>7 DEF Keep
    <2>9. Append(SubSeq(groups, 1, N - 1), groups[N]) = SubSeq(groups, 1, N)
        BY <2>7, AppendedGroup
    <2>10. SubSeq(groups, 1, N) = groups
        BY SubSeqFull
    <2>11. QED BY <2>8, <2>9, <2>10 DEF ParseGroups, so
<1>4. QED BY <1>2, <1>3

\* What is parsed are groups.
LEMMA ParsedGroups ==
    ASSUME NEW A, NEW s \in Seq(A)
    PROVE  ParseGroups(s) \in Seq(Group(A))
<1>1. Len(s) \in 0..Len(s)
    OBVIOUS
<1>2. Reading(s)[Len(s)] \in SoFar(A)
    BY <1>1, ReadingGoesOn
<1>3. QED BY <1>2, KeepGroups DEF SoFar, ParseGroups

---------------------------------------------------------------------------
(* The three validators.                                                   *)

\* What is in a field was typed into it.
FieldsTyped == field \in DOMAIN Alphabet /\ text \in Seq(Alphabet[field])

LEMMA FieldsTypedStep == FieldsTyped /\ [Type \/ Erase]_fieldVars => FieldsTyped'
<1> SUFFICES ASSUME FieldsTyped, [Type \/ Erase]_fieldVars PROVE FieldsTyped'
    OBVIOUS
<1>1. CASE Type
    BY <1>1 DEF Type, FieldsTyped
<1>2. CASE Erase
    <2> DEFINE A == Alphabet[field]
    <2>1. text \in Seq(A) /\ text # << >>
        BY <1>2 DEF Erase, FieldsTyped
    <2> HIDE DEF A
    <2>2. SubSeq(text, 1, Len(text) - 1) \in Seq(A)
        BY <2>1
    <2>3. field' = field /\ text' = SubSeq(text, 1, Len(text) - 1)
        BY <1>2 DEF Erase, Front
    <2>4. QED BY <2>2, <2>3 DEF FieldsTyped, A
<1>3. CASE UNCHANGED fieldVars
    BY <1>3 DEF fieldVars, FieldsTyped
<1>4. QED BY <1>1, <1>2, <1>3

\* For texts of every length, every limit and every policy: a name and an address
\* are accepted exactly when they are what the comments say, counting characters
\* where the code counts bytes.  A password that does what the messages ask for is
\* accepted, and one that is accepted has every kind of character that is asked
\* for - and, if it is ASCII, as many as are asked for (validation.rs).
THEOREM ValidatorsDecide == FieldsSpec => []FieldsDecided
<1>1. FieldsInit => FieldsTyped
    BY FieldsAssumption DEF FieldsInit, FieldsTyped
<1>2. FieldsTyped => FieldsDecided
    <2> SUFFICES ASSUME FieldsTyped PROVE FieldsDecided
        OBVIOUS
    <2> DEFINE A == Alphabet[field]
    <2>1. text \in Seq(A)
        BY DEF FieldsTyped
    <2> HIDE DEF A
    <2>2. UsernamesAsDescribed
        <3>1. ValidUsername(text) <=> \E from, to \in DOMAIN text : IsName(text, from, to)
            BY <2>1, ValidNameIsOne, NameIsValid
        <3>2. QED BY <3>1, Zenon DEF UsernamesAsDescribed, IsName, Padded, NameChars
    <2>3. EmailsAsDescribed
        <3>1. ValidEmail(text) <=>
                \E from, to, at, dot \in DOMAIN text : IsAddress(text, from, to, at, dot)
            BY <2>1, ValidAddressIsOne, AddressIsValid
        <3>2. QED BY <3>1, Zenon DEF EmailsAsDescribed, IsAddress, Padded
    <2>4. PasswordsDecided
        BY <2>1, PasswordDecided DEF PasswordsDecided, A
    <2>5. QED BY <2>2, <2>3, <2>4 DEF FieldsDecided
<1>3. QED BY <1>1, <1>2, FieldsTypedStep, PTL DEF FieldsSpec

---------------------------------------------------------------------------
(* The groups field.                                                       *)

\* The characters that a groups field is typed with.
LEMMA GroupCharacters ==
    LET A == Alphabet["groups"] IN Separator \in Seq(A) /\ BlankPlain(A)
BY DEF Alphabet, Separator, BlankPlain, Plain, Blank

\* For texts of every length: the list of groups that generate_invite makes of its
\* field has no empty and no padded group, and the text that its page shows for the
\* list, groups.join(", "), entered again, makes the same list (routes.rs:741-797).
THEOREM GroupsReadBack == FieldsSpec => []GroupsComeBack
<1>1. FieldsInit => FieldsTyped
    BY FieldsAssumption DEF FieldsInit, FieldsTyped
<1>2. FieldsTyped => GroupsComeBack
    <2> SUFFICES ASSUME FieldsTyped, field = "groups"
                 PROVE  /\ ParseGroups(JoinGroups(ParseGroups(text))) = ParseGroups(text)
                        /\ \A k \in DOMAIN ParseGroups(text) :
                            /\ ParseGroups(text)[k] # << >>
                            /\ Head(ParseGroups(text)[k]) # " "
                            /\ Last(ParseGroups(text)[k]) # " "
        BY DEF GroupsComeBack
    <2> DEFINE A == Alphabet["groups"]
               groups == ParseGroups(text)
    <2>1. text \in Seq(A) /\ Separator \in Seq(A) /\ BlankPlain(A)
        BY GroupCharacters DEF FieldsTyped
    <2> HIDE DEF A
    <2>2. groups \in Seq(Group(A))
        BY <2>1, ParsedGroups
    <2> HIDE DEF groups
    <2>3. ParseGroups(JoinGroups(groups)) = groups
        BY <2>1, <2>2, ParseJoined
    <2>4. ASSUME NEW k \in DOMAIN groups
          PROVE  groups[k] # << >> /\ Head(groups[k]) # " " /\ Last(groups[k]) # " "
        <3> DEFINE g == groups[k]
        <3>1. g \in Group(A) /\ g \in Seq(A)
            <4>1. k \in 1..Len(groups)
                BY <2>2
            <4>2. QED BY <2>2, <4>1, GroupsAreParts
        <3> HIDE DEF g
        <3>2. g # << >> /\ g[1] \notin Blank /\ g[Len(g)] \notin Blank
            BY <3>1 DEF Group
        <3>3. Head(g) = g[1] /\ Last(g) = g[Len(g)]
            BY <3>1, <3>2 DEF Last
        <3>4. QED BY <3>2, <3>3 DEF Blank, g
    <2>5. QED BY <2>3, <2>4 DEF groups
<1>3. QED BY <1>1, <1>2, FieldsTypedStep, PTL DEF FieldsSpec
===========================================================================
