----------------------------- MODULE UntypedSeqs -----------------------------
(***************************************************************************)
(* Facts about sequences whose elements have no type, as those have that   *)
(* hold runtime values.                                                    *)
(***************************************************************************)
EXTENDS Integers, Sequences, SequenceTheorems, TLAPS

\* s is a sequence, of whatever.
IsSeq(s) == \E S : s \in Seq(S)

\* Its length and its domain.
LEMMA SeqFacts ==
  ASSUME NEW s, IsSeq(s)
  PROVE  /\ Len(s) \in Nat
         /\ DOMAIN s = 1..Len(s)
         /\ s = <<>> <=> Len(s) = 0
BY DEF IsSeq

\* An element more.
LEMMA AppendFacts ==
  ASSUME NEW s, IsSeq(s), NEW x
  PROVE  /\ IsSeq(Append(s, x))
         /\ Len(Append(s, x)) = Len(s) + 1
         /\ \A i \in 1..Len(s) : Append(s, x)[i] = s[i]
         /\ Append(s, x)[Len(s) + 1] = x
<1>1. PICK S : s \in Seq(S)
  BY DEF IsSeq
<1> DEFINE T == S \cup {x}
           t == Append(s, x)
<1>2. s \in Seq(T) /\ x \in T
  BY <1>1
<1>3. t \in Seq(T)
  BY <1>2
<1>4. IsSeq(t)
  BY <1>3 DEF IsSeq
<1> QED
  BY <1>2, <1>4

\* An element less.
LEMMA PopFacts ==
  ASSUME NEW s, IsSeq(s), s # <<>>
  PROVE  /\ IsSeq(SubSeq(s, 1, Len(s) - 1))
         /\ Len(SubSeq(s, 1, Len(s) - 1)) = Len(s) - 1
         /\ \A i \in 1..(Len(s) - 1) : SubSeq(s, 1, Len(s) - 1)[i] = s[i]
<1>1. PICK S : s \in Seq(S)
  BY DEF IsSeq
<1> DEFINE t == SubSeq(s, 1, Len(s) - 1)
<1>2. Len(s) \in Nat \ {0}
  BY <1>1
<1>3. PICK n \in Int : n = Len(s) - 1
  BY <1>2
<1>4. \A i \in 1..n : s[i] \in S
  BY <1>1, <1>2, <1>3
<1>5. /\ SubSeq(s, 1, n) \in Seq(S)
      /\ Len(SubSeq(s, 1, n)) = IF 1 <= n THEN n - 1 + 1 ELSE 0
      /\ \A i \in 1..(n - 1 + 1) : SubSeq(s, 1, n)[i] = s[1 + i - 1]
  BY <1>4, SubSeqProperties
<1>6. Len(t) = Len(s) - 1 /\ \A i \in 1..(Len(s) - 1) : t[i] = s[i]
  BY <1>2, <1>3, <1>5
<1> QED
  BY <1>3, <1>5, <1>6 DEF IsSeq

\* Two elements more.
LEMMA PairFacts ==
  ASSUME NEW s, IsSeq(s), NEW x, NEW y
  PROVE  /\ IsSeq(s \o <<x, y>>)
         /\ Len(s \o <<x, y>>) = Len(s) + 2
         /\ \A i \in 1..Len(s) : (s \o <<x, y>>)[i] = s[i]
         /\ (s \o <<x, y>>)[Len(s) + 1] = x
         /\ (s \o <<x, y>>)[Len(s) + 2] = y
<1>1. PICK S : s \in Seq(S)
  BY DEF IsSeq
<1> DEFINE T == S \cup {x, y}
           t == s \o <<x, y>>
<1>2. s \in Seq(T) /\ <<x, y>> \in Seq(T) /\ Len(<<x, y>>) = 2
  BY <1>1
<1>3. t \in Seq(T)
  BY <1>2
<1>4. Len(t) = Len(s) + 2 /\ \A i \in 1..Len(s) : t[i] = s[i]
  BY <1>2
<1>5. t[Len(s) + 1] = x /\ t[Len(s) + 2] = y
  BY <1>2
<1> QED
  BY <1>3, <1>4, <1>5 DEF IsSeq
=============================================================================
