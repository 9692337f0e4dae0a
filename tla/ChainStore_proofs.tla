-------------------------- MODULE ChainStore_proofs --------------------------
(* What one INSERT does to a chain.  Everything a table's invariants need is
   stated once, here, for rows over any set of hashed fields.              *)
EXTENDS ChainStore, SequenceTheorems, WellFoundedInduction, TLAPS

\* The chain's head commits to exactly the fields of its rows, in order.
Committed(rows) == HeadOf(rows) = FieldsOf(rows)

\* An appended row is the last, and the rows before it stay what they were.
LEMMA AppendedRow ==
    ASSUME NEW S, NEW rows \in Seq(S), NEW row \in S
    PROVE  /\ Append(rows, row) \in Seq(S)
           /\ Append(rows, row) # << >>
           /\ Len(rows) \in Nat
           /\ Len(Append(rows, row)) = Len(rows) + 1
           /\ DOMAIN Append(rows, row) = 1 .. (Len(rows) + 1)
           /\ DOMAIN rows = 1 .. Len(rows)
           /\ \A i \in 1 .. Len(rows) : Append(rows, row)[i] = rows[i]
           /\ Append(rows, row)[Len(rows) + 1] = row
OBVIOUS

\* The head of a table is a sequence of the fields its rows hash.
LEMMA HeadType ==
    ASSUME NEW fields, NEW refs, NEW rows \in Seq(RowsOver(fields, refs))
    PROVE  HeadOf(rows) \in Seq(fields)
<1>1. CASE rows = << >>
  BY <1>1 DEF HeadOf, GENESIS
<1>2. CASE rows # << >>
  <2>1. rows[Len(rows)] \in RowsOver(fields, refs)
    BY <1>2
  <2> QED
    BY <1>2, <2>1 DEF HeadOf, RowsOver
<1> QED
  BY <1>1, <1>2

\* The head moves to the hash of the appended row.
LEMMA HeadOfAppend ==
    ASSUME NEW S, NEW rows \in Seq(S), NEW row \in S
    PROVE  HeadOf(Append(rows, row)) = row.record_hash
BY AppendedRow DEF HeadOf

\* A row built on a head of the right kind is a row of its table's kind.
LEMMA RowType ==
    ASSUME NEW fields, NEW refs, NEW f \in fields, NEW r \in refs,
           NEW p \in Seq(fields)
    PROVE  RowOn(f, r, p) \in RowsOver(fields, refs)
<1>1. Append(p, f) \in Seq(fields)
  OBVIOUS
<1> QED
  BY <1>1 DEF RowOn, RowsOver, compute_record_hash

\* A row built on the head joins the table as a row of its kind, and the new
\* head is the old one followed by the row's fields.
LEMMA HeadAfterInsert ==
    ASSUME NEW fields, NEW refs, NEW rows \in Seq(RowsOver(fields, refs)),
           NEW f \in fields, NEW r \in refs
    PROVE  /\ Append(rows, RowOn(f, r, HeadOf(rows))) \in Seq(RowsOver(fields, refs))
           /\ HeadOf(Append(rows, RowOn(f, r, HeadOf(rows))))
                = Append(HeadOf(rows), f)
<1>1. RowOn(f, r, HeadOf(rows)) \in RowsOver(fields, refs)
  BY HeadType, RowType
<1>2. RowOn(f, r, HeadOf(rows)).record_hash = Append(HeadOf(rows), f)
  BY DEF RowOn, compute_record_hash
<1> QED
  BY <1>1, <1>2, AppendedRow, HeadOfAppend

\* A table's fields, in order, are as many as its rows.
LEMMA FieldsType ==
    ASSUME NEW fields, NEW refs, NEW rows \in Seq(RowsOver(fields, refs))
    PROVE  /\ FieldsOf(rows) \in Seq(fields)
           /\ Len(FieldsOf(rows)) = Len(rows)
           /\ \A i \in 1 .. Len(rows) : FieldsOf(rows)[i] = rows[i].fields
<1>1. /\ Len(rows) \in Nat
      /\ DOMAIN rows = 1 .. Len(rows)
      /\ \A i \in 1 .. Len(rows) : rows[i] \in RowsOver(fields, refs)
  OBVIOUS
<1>2. FieldsOf(rows) \in [1 .. Len(rows) -> fields]
  BY <1>1 DEF FieldsOf, RowsOver
<1> QED
  BY <1>1, <1>2, SeqDef DEF FieldsOf

\* Inserting a row adds its fields to those of the table.
LEMMA FieldsOfAppend ==
    ASSUME NEW fields, NEW refs, NEW rows \in Seq(RowsOver(fields, refs)),
           NEW row \in RowsOver(fields, refs)
    PROVE  FieldsOf(Append(rows, row)) = Append(FieldsOf(rows), row.fields)
<1> DEFINE grown == Append(rows, row)
           old == FieldsOf(rows)
           new == Append(old, row.fields)
<1>1. /\ grown \in Seq(RowsOver(fields, refs))
      /\ Len(rows) \in Nat
      /\ Len(grown) = Len(rows) + 1
      /\ \A i \in 1 .. Len(rows) : grown[i] = rows[i]
      /\ grown[Len(rows) + 1] = row
  BY AppendedRow
<1>2. /\ old \in Seq(fields)
      /\ Len(old) = Len(rows)
      /\ \A i \in 1 .. Len(rows) : old[i] = rows[i].fields
  BY FieldsType
<1> HIDE DEF grown
<1>3. /\ FieldsOf(grown) \in Seq(fields)
      /\ Len(FieldsOf(grown)) = Len(grown)
      /\ \A i \in 1 .. Len(grown) : FieldsOf(grown)[i] = grown[i].fields
  BY <1>1, FieldsType
<1> HIDE DEF old
<1>4. row.fields \in fields
  BY DEF RowsOver
<1>5. /\ new \in Seq(fields)
      /\ Len(new) = Len(old) + 1
      /\ \A i \in 1 .. Len(old) : new[i] = old[i]
      /\ new[Len(old) + 1] = row.fields
  BY <1>2, <1>4, AppendedRow
<1> HIDE DEF new
<1>6. \A i \in 1 .. Len(grown) : FieldsOf(grown)[i] = new[i]
  BY <1>1, <1>2, <1>3, <1>5
<1>7. FieldsOf(grown) = new
  BY <1>1, <1>2, <1>3, <1>5, <1>6, SeqEqual
<1> QED
  BY <1>7 DEF grown, old, new

\* Inserting on the head keeps a committed chain committed.
LEMMA CommittedAfterInsert ==
    ASSUME NEW fields, NEW refs, NEW rows \in Seq(RowsOver(fields, refs)),
           NEW f \in fields, NEW r \in refs, Committed(rows)
    PROVE  Committed(Append(rows, RowOn(f, r, HeadOf(rows))))
<1> DEFINE row == RowOn(f, r, HeadOf(rows))
<1>1. row \in RowsOver(fields, refs) /\ row.fields = f
  BY HeadType, RowType DEF RowOn
<1>2. HeadOf(Append(rows, row)) = Append(FieldsOf(rows), f)
  BY HeadAfterInsert DEF Committed
<1> HIDE DEF row
<1>3. FieldsOf(Append(rows, row)) = Append(FieldsOf(rows), f)
  BY <1>1, FieldsOfAppend
<1>4. Committed(Append(rows, row))
  BY <1>2, <1>3 DEF Committed
<1> QED
  BY <1>4 DEF row

\* Inserting on the head keeps an intact chain intact.
LEMMA IntactAfterInsert ==
    ASSUME NEW fields, NEW refs, NEW rows \in Seq(RowsOver(fields, refs)),
           NEW f \in fields, NEW r \in refs, ChainIntact(rows)
    PROVE  ChainIntact(Append(rows, RowOn(f, r, HeadOf(rows))))
<1> DEFINE row == RowOn(f, r, HeadOf(rows))
           grown == Append(rows, row)
<1>1. /\ row \in RowsOver(fields, refs)
      /\ row.prev_hash = HeadOf(rows)
      /\ row.record_hash = compute_record_hash(row.fields, row.prev_hash)
  BY HeadType, RowType DEF RowOn
<1> HIDE DEF row
<1>2. /\ DOMAIN grown = 1 .. (Len(rows) + 1)
      /\ DOMAIN rows = 1 .. Len(rows)
      /\ Len(rows) \in Nat
      /\ \A i \in 1 .. Len(rows) : grown[i] = rows[i]
      /\ grown[Len(rows) + 1] = row
  BY <1>1, AppendedRow
<1>3. HeadOf(rows) = (IF Len(rows) + 1 = 1 THEN GENESIS
                      ELSE rows[Len(rows)].record_hash)
  <2>1. rows = << >> <=> Len(rows) = 0
    OBVIOUS
  <2> QED
    BY <1>2, <2>1 DEF HeadOf
<1> HIDE DEF grown
<1>4. ASSUME NEW i \in 1 .. Len(rows)
      PROVE  RowTraces(grown, i)
  <2>1. RowTraces(rows, i)
    BY <1>2 DEF ChainIntact
  <2>2. i = 1 \/ i - 1 \in 1 .. Len(rows)
    BY <1>2
  <2> QED
    BY <1>2, <2>1, <2>2 DEF RowTraces
<1>5. RowTraces(grown, Len(rows) + 1)
  <2>1. Len(rows) + 1 = 1 \/ Len(rows) \in 1 .. Len(rows)
    BY <1>2
  <2> QED
    BY <1>1, <1>2, <1>3, <2>1 DEF RowTraces
<1>6. ChainIntact(grown)
  BY <1>2, <1>4, <1>5 DEF ChainIntact
<1> QED
  BY <1>6 DEF grown, row
-----------------------------------------------------------------------------
(* Induction along a chain: by the least row that would be an exception.   *)

\* A set of numbers that is not empty has a least element.
LEMMA LeastElement ==
    ASSUME NEW T \in SUBSET Nat, T # {}
    PROVE  \E x \in T : \A y \in T : x <= y
<1> DEFINE R == OpToRel(<, Nat)
<1>1. IsWellFoundedOn(R, Nat)
  BY NatLessThanWellFounded
<1>2. \A x, y \in Nat : y < x => <<y, x>> \in R
  BY DEF OpToRel
<1> HIDE DEF R
<1>3. PICK x \in T : \A y \in T : ~ (<<y, x>> \in R)
  BY <1>1, WFMin
<1>4. \A y \in T : x \in Nat /\ y \in Nat /\ ~ (y < x)
  BY <1>2, <1>3
<1>5. \A y \in T : x <= y
  BY <1>4
<1> QED
  BY <1>5

\* A bounded set of numbers that is not empty has a largest one, and Max is it.
LEMMA LargestNumber ==
    ASSUME NEW n \in Nat, NEW T \in SUBSET (0 .. n), T # {}
    PROVE  Max(T) \in T /\ \A y \in T : y <= Max(T)
<1> DEFINE U == {n - x : x \in T}
<1>1. U \in SUBSET Nat /\ U # {}
  <2>1. \A x \in T : x \in 0 .. n /\ n - x \in Nat
    OBVIOUS
  <2> QED
    BY <2>1
<1>2. PICK u \in U : \A y \in U : u <= y
  BY <1>1, LeastElement
<1>3. PICK x \in T : u = n - x
  BY <1>2
<1>4. \A y \in T : x >= y
  <2> TAKE y \in T
  <2>1. u <= n - y
    BY <1>2
  <2> QED
    BY <1>3, <2>1
<1>5. Max(T) \in T /\ \A y \in T : Max(T) >= y
  BY <1>4 DEF Max
<1> QED
  BY <1>5

\* So has a set of indices.
LEMMA LargestIndex ==
    ASSUME NEW n \in Nat, NEW T \in SUBSET (1 .. n), T # {}
    PROVE  Max(T) \in T /\ \A y \in T : y <= Max(T)
<1>1. T \in SUBSET (0 .. n)
  OBVIOUS
<1> QED
  BY <1>1, LargestNumber

\* The largest index of a set that an end index belongs to is that end.
LEMMA LargestIsEnd ==
    ASSUME NEW n \in Nat, NEW T \in SUBSET (1 .. n), n \in T
    PROVE  Max(T) = n
<1>1. Max(T) \in 1 .. n /\ n <= Max(T)
  BY LargestIndex
<1> QED
  BY <1>1

\* A prefix of one more element is the prefix with that element at its end.
LEMMA PrefixGrows ==
    ASSUME NEW S, NEW s \in Seq(S), NEW n \in Nat, n + 1 <= Len(s)
    PROVE  SubSeq(s, 1, n + 1) = Append(SubSeq(s, 1, n), s[n + 1])
<1> DEFINE old == SubSeq(s, 1, n)
           new == SubSeq(s, 1, n + 1)
<1>1. /\ old \in Seq(S) /\ Len(old) = n /\ \A i \in 1 .. n : old[i] = s[i]
      /\ new \in Seq(S) /\ Len(new) = n + 1 /\ \A i \in 1 .. (n + 1) : new[i] = s[i]
      /\ s[n + 1] \in S
  BY SubSeqProperties
<1> HIDE DEF old, new
<1>2. /\ Append(old, s[n + 1]) \in Seq(S)
      /\ Len(Append(old, s[n + 1])) = n + 1
      /\ \A i \in 1 .. n : Append(old, s[n + 1])[i] = s[i]
      /\ Append(old, s[n + 1])[n + 1] = s[n + 1]
  BY <1>1, AppendedRow
<1>3. \A i \in 1 .. Len(new) : new[i] = Append(old, s[n + 1])[i]
  BY <1>1, <1>2
<1>4. new = Append(old, s[n + 1])
  BY <1>1, <1>2, <1>3, SeqEqual
<1> QED
  BY <1>4 DEF old, new

\* As far as the rows of any table trace, whoever wrote them, the hash a row
\* stores is the history below it and nothing else.
LEMMA TracedHashIsHistory ==
    ASSUME NEW fields, NEW refs, NEW rows \in Seq(RowsOver(fields, refs)),
           NEW n \in DOMAIN rows, \A i \in 1 .. n : RowTraces(rows, i)
    PROVE  rows[n].record_hash = SubSeq(FieldsOf(rows), 1, n)
<1> DEFINE F == FieldsOf(rows)
           T == {k \in 1 .. n : rows[k].record_hash # SubSeq(F, 1, k)}
<1>1. /\ F \in Seq(fields) /\ Len(F) = Len(rows) /\ Len(rows) \in Nat
      /\ \A i \in 1 .. Len(rows) : F[i] = rows[i].fields
      /\ n \in 1 .. Len(rows)
  BY FieldsType
<1> HIDE DEF F
<1>2. SUFFICES ASSUME rows[n].record_hash # SubSeq(F, 1, n) PROVE FALSE
  BY DEF F
<1>3. PICK m \in T : \A k \in T : m <= k
  <2>1. T \in SUBSET Nat /\ n \in T
    BY <1>1, <1>2
  <2> HIDE DEF T
  <2> QED
    BY <2>1, LeastElement
<1>4. /\ m \in 1 .. n /\ RowTraces(rows, m)
      /\ rows[m].record_hash # SubSeq(F, 1, m)
  BY <1>3
<1>5. CASE m = 1
  <2>1. rows[m].record_hash = Append(<< >>, F[1])
    BY <1>1, <1>4, <1>5 DEF RowTraces, compute_record_hash, GENESIS
  <2>2. SubSeq(F, 1, 0) = << >>
    BY <1>1, SubSeqEmpty
  <2>3. SubSeq(F, 1, 0 + 1) = Append(SubSeq(F, 1, 0), F[0 + 1])
    BY <1>1, PrefixGrows
  <2> QED
    BY <1>4, <1>5, <2>1, <2>2, <2>3
<1>6. CASE m # 1
  <2> DEFINE k == m - 1
  <2>1. k \in 1 .. n /\ k + 1 = m /\ k \in Nat /\ k \notin T
    BY <1>1, <1>3, <1>4, <1>6
  <2>2. rows[k].record_hash = SubSeq(F, 1, k)
    BY <2>1
  <2>3. rows[m].record_hash = Append(rows[k].record_hash, F[m])
    BY <1>1, <1>4, <1>6 DEF RowTraces, compute_record_hash
  <2> HIDE DEF k
  <2>4. SubSeq(F, 1, k + 1) = Append(SubSeq(F, 1, k), F[k + 1])
    BY <1>1, <1>4, <2>1, PrefixGrows
  <2> QED
    BY <1>4, <2>1, <2>2, <2>3, <2>4
<1> QED
  BY <1>5, <1>6
=============================================================================
