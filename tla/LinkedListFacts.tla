-------------------------- MODULE LinkedListFacts --------------------------
(***************************************************************************)
(* What appending to and dropping the head of a pointer list does to the   *)
(* sequence the list stands for.  These are the facts the proofs about     *)
(* the run queues and the timer list rest on.                              *)
(***************************************************************************)
EXTENDS LinkedList, SequenceTheorems, FiniteSetTheorems, TLAPS

(* A duplicate-free sequence is never longer than its set of nodes, so     *)
(* bounding the length in DistinctSeqs loses none.                         *)
LEMMA DistinctSeqsDef ==
  ASSUME NEW S, IsFiniteSet(S), NEW q
  PROVE  q \in DistinctSeqs(S) <=> q \in Seq(S) /\ IsInjective(q)
<1>1. Cardinality(S) \in Nat
  BY FS_CardinalityType
<1>2. ASSUME q \in DistinctSeqs(S)
      PROVE  q \in Seq(S) /\ IsInjective(q)
  BY <1>1, <1>2 DEF DistinctSeqs
<1>3. ASSUME q \in Seq(S), IsInjective(q)
      PROVE  q \in DistinctSeqs(S)
  <2>1. /\ Len(q) \in Nat
        /\ q \in [1..Len(q) -> S]
    BY <1>3, LenProperties
  <2>2. q \in Injection(1..Len(q), S)
    BY <1>3, <2>1 DEF Injection, IsInjective
  <2>3. Cardinality(1..Len(q)) <= Cardinality(S)
    BY <2>2, FS_Injection
  <2>4. Cardinality(1..Len(q)) = Len(q)
    BY <2>1, FS_Interval
  <2>5. Len(q) \in 0..Cardinality(S)
    BY <1>1, <2>1, <2>3, <2>4
  <2> QED
    BY <1>3, <2>1, <2>5 DEF DistinctSeqs
<1> QED
  BY <1>2, <1>3

(* The empty list.                                                         *)
LEMMA EmptyList ==
  ASSUME NEW S, IsFiniteSet(S), NEW nxt, NEW nil, NEW tail
  PROVE  /\ <<>> \in DistinctSeqs(S)
         /\ Linked(<<>>, nil, nxt, nil)
         /\ EndsAt(<<>>, tail)
         /\ Nodes(<<>>) = {}
<1>1. <<>> \in Seq(S) /\ IsInjective(<<>>)
  BY DEF IsInjective
<1>2. <<>> \in DistinctSeqs(S)
  BY <1>1, DistinctSeqsDef
<1>3. Linked(<<>>, nil, nxt, nil)
  BY DEF Linked
<1>4. EndsAt(<<>>, tail) /\ Nodes(<<>>) = {}
  BY DEF EndsAt, Nodes
<1> QED
  BY <1>2, <1>3, <1>4

(* A list whose nodes keep their next pointers is still the same list.     *)
LEMMA FrameList ==
  ASSUME NEW S, IsFiniteSet(S), NEW q, NEW head, NEW tail, NEW nxt, NEW nxt2,
         NEW nil, IsList(S, q, head, tail, nxt, nil),
         \A x \in Nodes(q) : nxt2[x] = nxt[x]
  PROVE  IsList(S, q, head, tail, nxt2, nil)
  BY DEF IsList, Linked, Nodes

(* Linking a new node behind the tail appends it to the sequence; this is  *)
(* the shape of task_set_ready, timer_set_sys and autostr_set_sys.         *)
LEMMA AppendToList ==
  ASSUME NEW S, IsFiniteSet(S), NEW q, NEW t \in S,
         NEW nil, nil \notin S, t \notin Nodes(q),
         NEW head, NEW tail, NEW nxt \in [S -> S \cup {nil}],
         IsList(S, q, head, tail, nxt, nil)
  PROVE  IsList(S, Append(q, t), HeadAfterAppend(head, nil, t), t,
                NextAfterAppend(head, tail, nxt, nil, t), nil)
<1> DEFINE r == Append(q, t)
           head2 == HeadAfterAppend(head, nil, t)
           nxt2 == NextAfterAppend(head, tail, nxt, nil, t)
<1> USE DEF HeadAfterAppend, NextAfterAppend
<1>10. /\ q \in DistinctSeqs(S)
       /\ Linked(q, head, nxt, nil) /\ EndsAt(q, tail)
  BY DEF IsList
<1>1. /\ q \in Seq(S) /\ IsInjective(q)
      /\ Len(q) \in Nat /\ DOMAIN q = 1..Len(q)
      /\ \A i \in 1..Len(q) : q[i] \in S /\ q[i] # t
  BY <1>10, DistinctSeqsDef DEF Nodes
<1>2. /\ r \in Seq(S) /\ Len(r) = Len(q) + 1 /\ DOMAIN r = 1..(Len(q) + 1)
      /\ \A i \in 1..Len(q) : r[i] = q[i]
      /\ r[Len(q) + 1] = t
  BY <1>1
<1>3. r \in DistinctSeqs(S)
  <2>1. IsInjective(r)
    BY <1>1, <1>2 DEF IsInjective
  <2> QED
    BY <1>2, <2>1, DistinctSeqsDef
<1>0. Len(q) \in Nat
  BY <1>1
<1>5. head = nil <=> q = <<>>
  BY <1>1, <1>10 DEF Linked
<1>9. ASSUME NEW i \in 1..Len(q)
      PROVE  nxt[q[i]] = IF i = Len(q) THEN nil ELSE q[i + 1]
  BY <1>1, <1>10 DEF Linked
<1>6. Linked(r, head2, nxt2, nil)
  <2>1. CASE q = <<>>
    BY <1>1, <1>2, <1>5, <2>1 DEF Linked
  <2>2. CASE q # <<>>
    <3>1. Len(q) >= 1 /\ head # nil /\ tail = q[Len(q)] /\ tail \in S /\ tail # t
      BY <1>1, <1>5, <1>10, <2>2 DEF EndsAt
    <3>2. nxt2 \in [S -> S \cup {nil}] /\ nxt2[t] = nil /\ nxt2[tail] = t
      BY <1>1, <3>1
    <3>3. ASSUME NEW i \in 1..(Len(q) - 1) PROVE nxt2[q[i]] = q[i + 1]
      <4>1. q[i] # tail /\ q[i] # t /\ q[i] \in S
        BY <1>1, <3>1 DEF IsInjective
      <4>2. nxt[q[i]] = q[i + 1]
        <5>1. i \in 1..Len(q) /\ i # Len(q)
          BY <1>0
        <5> QED
          BY <1>9, <5>1
      <4> QED
        BY <3>1, <4>1, <4>2
    <3>4. head2 = r[1]
      BY <1>1, <1>2, <1>10, <2>2, <3>1 DEF Linked
    <3>5. ASSUME NEW i \in DOMAIN r
          PROVE  nxt2[r[i]] = IF i = Len(r) THEN nil ELSE r[i + 1]
      <4>1. CASE i = Len(q) + 1
        BY <1>2, <3>2, <4>1
      <4>2. CASE i = Len(q)
        <5>1. i \in 1..Len(q) /\ i # Len(q) + 1
          BY <1>0, <3>1, <4>2
        <5>2. r[i] = tail /\ r[i + 1] = t /\ i # Len(r)
          BY <1>2, <3>1, <4>2, <5>1
        <5> QED
          BY <3>2, <5>2
      <4>3. CASE i \in 1..(Len(q) - 1)
        <5>1. i \in 1..Len(q) /\ i + 1 \in 1..Len(q) /\ i # Len(q) + 1
          BY <1>0, <4>3
        <5>2. r[i] = q[i] /\ r[i + 1] = q[i + 1] /\ i # Len(r)
          BY <1>2, <5>1
        <5> QED
          BY <3>3, <4>3, <5>2
      <4> QED
        BY <1>1, <1>2, <4>1, <4>2, <4>3
    <3> HIDE DEF nxt2, head2, r
    <3>6. r # <<>>
      BY <1>1, <1>2
    <3> QED
      BY <3>4, <3>5, <3>6 DEF Linked
  <2> QED
    BY <2>1, <2>2
<1>7. EndsAt(r, t)
  BY <1>2 DEF EndsAt
<1> QED
  BY <1>3, <1>6, <1>7 DEF IsList

(* Appending adds one node and leaves the head element where it is.        *)
LEMMA AppendNodes ==
  ASSUME NEW S, IsFiniteSet(S), NEW q \in DistinctSeqs(S), NEW t \in S
  PROVE  /\ Nodes(Append(q, t)) = Nodes(q) \cup {t}
         /\ Append(q, t) # <<>>
         /\ q # <<>> => Append(q, t)[1] = q[1]
<1> DEFINE r == Append(q, t)
<1>1. q \in Seq(S) /\ Len(q) \in Nat /\ DOMAIN q = 1..Len(q)
  BY DistinctSeqsDef
<1>2. /\ r \in Seq(S) /\ Len(r) = Len(q) + 1 /\ DOMAIN r = 1..(Len(q) + 1)
      /\ \A i \in 1..Len(q) : r[i] = q[i]
      /\ r[Len(q) + 1] = t
  BY <1>1
<1>3. r # <<>> /\ (q # <<>> => r[1] = q[1])
  BY <1>1, <1>2
<1>4. Nodes(r) = Nodes(q) \cup {t}
  <2>1. ASSUME NEW x \in Nodes(r) PROVE x \in Nodes(q) \cup {t}
    BY <1>1, <1>2 DEF Nodes
  <2>2. ASSUME NEW x \in Nodes(q) \cup {t} PROVE x \in Nodes(r)
    BY <1>1, <1>2 DEF Nodes
  <2> QED
    BY <2>1, <2>2
<1> QED
  BY <1>3, <1>4

(* Moving the head to its next node drops the first element.               *)
LEMMA DropHead ==
  ASSUME NEW S, IsFiniteSet(S), NEW q, q # <<>>,
         NEW nil, nil \notin S, NEW head, NEW nxt, NEW tail,
         IsList(S, q, head, tail, nxt, nil)
  PROVE  /\ IsList(S, Tail(q), nxt[head], tail, nxt, nil)
         /\ Nodes(Tail(q)) = Nodes(q) \ {head}
<1> DEFINE r == Tail(q)
<1>9. /\ q \in DistinctSeqs(S)
      /\ Linked(q, head, nxt, nil) /\ EndsAt(q, tail)
  BY DEF IsList
<1>1. /\ q \in Seq(S) /\ IsInjective(q)
      /\ Len(q) \in Nat \ {0} /\ DOMAIN q = 1..Len(q)
      /\ \A i \in 1..Len(q) : q[i] \in S
  BY <1>9, DistinctSeqsDef
<1>0. Len(q) \in Nat /\ Len(q) >= 1
  BY <1>1
<1>2. /\ r \in Seq(S) /\ Len(r) = Len(q) - 1
      /\ DOMAIN r = 1..(Len(q) - 1)
      /\ \A i \in 1..(Len(q) - 1) : r[i] = q[i + 1]
  BY <1>1
<1> HIDE DEF r
<1>3. r \in DistinctSeqs(S)
  <2>1. ASSUME NEW i \in 1..(Len(q) - 1), NEW j \in 1..(Len(q) - 1), r[i] = r[j]
        PROVE  i = j
    <3>1. i + 1 \in 1..Len(q) /\ j + 1 \in 1..Len(q) /\ q[i + 1] = q[j + 1]
      BY <1>0, <1>2, <2>1
    <3>2. i + 1 = j + 1
      BY <1>1, <3>1 DEF IsInjective
    <3> QED
      BY <1>0, <3>2
  <2>2. IsInjective(r)
    BY <1>2, <2>1 DEF IsInjective
  <2> QED
    BY <1>2, <2>2, DistinctSeqsDef
<1>4. head = q[1]
  BY <1>1, <1>9 DEF Linked
<1>8. ASSUME NEW i \in 1..Len(q)
      PROVE  nxt[q[i]] = IF i = Len(q) THEN nil ELSE q[i + 1]
  BY <1>1, <1>9 DEF Linked
<1>5. Linked(r, nxt[head], nxt, nil)
  <2>1. nxt[head] = IF r = <<>> THEN nil ELSE r[1]
    <3>1. CASE Len(q) = 1
      <4>1. r = <<>>
        BY <1>2, <3>1
      <4>2. nxt[q[1]] = nil
        BY <1>0, <1>8, <3>1
      <4> QED
        BY <1>4, <4>1, <4>2
    <3>2. CASE Len(q) > 1
      <4>1. r # <<>>
        BY <1>0, <1>2, <3>2
      <4>3. r[1] = q[1 + 1]
        BY <1>0, <1>2, <3>2
      <4>2. nxt[q[1]] = q[1 + 1]
        BY <1>0, <1>8, <3>2
      <4> QED
        BY <1>4, <4>1, <4>2, <4>3
    <3>3. Len(q) = 1 \/ Len(q) > 1
      BY <1>0, <1>1
    <3> QED
      BY <3>1, <3>2, <3>3
  <2>2. ASSUME NEW i \in 1..(Len(q) - 1)
        PROVE  nxt[r[i]] =
                 IF i = Len(r) THEN nil ELSE r[i + 1]
    <3>1. r[i] = q[i + 1] /\ i + 1 \in 1..Len(q)
      BY <1>0, <1>2
    <3>2. nxt[q[i + 1]] = IF i + 1 = Len(q) THEN nil ELSE q[i + 2]
      <4>1. nxt[q[i + 1]] = IF i + 1 = Len(q) THEN nil ELSE q[(i + 1) + 1]
        BY <1>8, <3>1
      <4>2. (i + 1) + 1 = i + 2
        OBVIOUS
      <4> QED
        BY <4>1, <4>2
    <3>3. i = Len(r) <=> i + 1 = Len(q)
      BY <1>0, <1>2
    <3>4. i # Len(r) => r[i + 1] = q[i + 2]
      <4>1. ASSUME i # Len(r)
            PROVE  i + 1 \in 1..(Len(q) - 1) /\ (i + 1) + 1 = i + 2
        BY <1>0, <1>2, <4>1
      <4> QED
        BY <1>2, <4>1
    <3> QED
      BY <3>1, <3>2, <3>3, <3>4
  <2> QED
    BY <1>2, <2>1, <2>2 DEF Linked
<1>6. EndsAt(r, tail)
  BY <1>1, <1>2, <1>9 DEF EndsAt
<1>7. Nodes(r) = Nodes(q) \ {head}
  <2>1. ASSUME NEW x \in Nodes(r) PROVE x \in Nodes(q) \ {head}
    BY <1>1, <1>2, <1>4 DEF Nodes, IsInjective
  <2>2. ASSUME NEW x \in Nodes(q) \ {head} PROVE x \in Nodes(r)
    <3>1. PICK i \in 1..Len(q) : x = q[i] /\ i # 1
      BY <1>1, <1>4 DEF Nodes
    <3>2. i - 1 \in 1..(Len(q) - 1) /\ r[i - 1] = x
      BY <1>1, <1>2, <3>1
    <3> QED
      BY <1>2, <3>2 DEF Nodes
  <2> QED
    BY <2>1, <2>2
<1> QED
  BY <1>3, <1>5, <1>6, <1>7 DEF r, IsList

(* Pointers stand for at most one list: two sequences linked from the same *)
(* head agree.  The proof looks at the first place where they would not.   *)
LEMMA ListIsUnique ==
  ASSUME NEW S, IsFiniteSet(S), NEW q \in DistinctSeqs(S),
         NEW r \in DistinctSeqs(S), NEW nil, nil \notin S,
         NEW head, NEW nxt, Linked(q, head, nxt, nil), Linked(r, head, nxt, nil)
  PROVE  q = r
<1>1. /\ q \in Seq(S) /\ Len(q) \in Nat /\ DOMAIN q = 1..Len(q)
      /\ r \in Seq(S) /\ Len(r) \in Nat /\ DOMAIN r = 1..Len(r)
  BY DistinctSeqsDef
<1>0. Len(q) \in Nat /\ Len(r) \in Nat
  BY <1>1
<1>2. /\ \A i \in 1..Len(q) : q[i] \in S
      /\ \A i \in 1..Len(r) : r[i] \in S
  BY <1>1
<1>3. ASSUME NEW i \in 1..Len(q)
      PROVE  nxt[q[i]] = IF i = Len(q) THEN nil ELSE q[i + 1]
  BY <1>1 DEF Linked
<1>4. ASSUME NEW i \in 1..Len(r)
      PROVE  nxt[r[i]] = IF i = Len(r) THEN nil ELSE r[i + 1]
  BY <1>1 DEF Linked
<1>5. Len(q) >= 1 <=> Len(r) >= 1
  BY <1>1, <1>2 DEF Linked
<1>6. Len(q) >= 1 => q[1] = r[1]
  BY <1>1, <1>5 DEF Linked
(* Agreement at i carries over to i + 1.                                   *)
<1> DEFINE Agree(i) == /\ i \in 1..Len(q) <=> i \in 1..Len(r)
                       /\ i \in 1..Len(q) => q[i] = r[i]
<1>7. ASSUME NEW i \in Nat, Agree(i) PROVE Agree(i + 1)
  <2>1. CASE i = 0
    <3>1. i + 1 = 1
      BY <2>1
    <3>2. /\ 1 \in 1..Len(q) <=> Len(q) >= 1
          /\ 1 \in 1..Len(r) <=> Len(r) >= 1
      BY <1>1
    <3> QED
      BY <1>5, <1>6, <3>1, <3>2
  <2>2. CASE i > Len(q) /\ i # 0
    <3>1. i > Len(r)
      BY <1>1, <1>7, <2>2
    <3> QED
      BY <1>1, <2>2, <3>1
  <2>3. CASE i \in 1..Len(q)
    <3>1. i \in 1..Len(r) /\ q[i] = r[i]
      BY <1>7, <2>3
    <3>2. i = Len(q) <=> i = Len(r)
      <4>1. ASSUME i = Len(q), i # Len(r) PROVE FALSE
        <5>1. nxt[q[i]] = nil /\ nxt[r[i]] = r[i + 1]
          BY <1>3, <1>4, <2>3, <3>1, <4>1
        <5>2. i + 1 \in 1..Len(r)
          BY <1>0, <3>1, <4>1
        <5> QED
          BY <1>2, <3>1, <5>1, <5>2
      <4>2. ASSUME i # Len(q), i = Len(r) PROVE FALSE
        <5>1. nxt[r[i]] = nil /\ nxt[q[i]] = q[i + 1]
          BY <1>3, <1>4, <2>3, <3>1, <4>2
        <5>2. i + 1 \in 1..Len(q)
          BY <1>0, <2>3, <4>2
        <5> QED
          BY <1>2, <3>1, <5>1, <5>2
      <4> QED
        BY <4>1, <4>2
    <3>3. i # Len(q) => q[i + 1] = r[i + 1]
      BY <1>3, <1>4, <2>3, <3>1, <3>2
    <3>4. i + 1 \in 1..Len(q) <=> i # Len(q)
      BY <1>0, <2>3
    <3>5. i + 1 \in 1..Len(r) <=> i # Len(r)
      BY <1>0, <3>1
    <3> QED
      BY <3>2, <3>3, <3>4, <3>5
  <2> QED
    BY <1>1, <2>1, <2>2, <2>3
<1>8. \A i \in Nat : Agree(i)
  <2> DEFINE T == {i \in Nat : ~Agree(i)}
  <2>1. Agree(0)
    BY <1>1
  <2>2. ASSUME NEW i \in T PROVE FALSE
    <3>1. PICK j \in T : \A y \in T : ~(<<y, j>> \in OpToRel(<, Nat))
      <4>1. T \subseteq Nat /\ T # {}
        BY <2>2
      <4> HIDE DEF T
      <4> QED
        BY <4>1, NatLessThanWellFounded, WFMin
    <3>2. j \in Nat /\ ~Agree(j) /\ j # 0
      BY <2>1
    <3>3. j - 1 \in Nat /\ (j - 1) + 1 = j /\ j - 1 < j
      BY <3>2
    <3>4. j - 1 \notin T
      BY <3>1, <3>2, <3>3 DEF OpToRel
    <3>5. Agree(j - 1)
      BY <3>3, <3>4
    <3> HIDE DEF Agree
    <3> QED
      BY <1>7, <3>2, <3>3, <3>5
  <2> QED
    BY <2>2
<1>9. Len(q) = Len(r)
  <2>1. Agree(Len(q)) /\ Agree(Len(r))
    BY <1>0, <1>8
  <2> QED
    BY <1>0, <2>1
<1> QED
  <2>1. ASSUME NEW i \in 1..Len(q) PROVE q[i] = r[i]
    <3>1. i \in Nat
      BY <1>1
    <3> QED
      BY <1>8, <3>1
  <2> QED
    BY <1>1, <1>9, <2>1, SeqEqual

(* A scan starts on a node of the list unless the list is empty, and       *)
(* following next it stays on the list until it stands on the last node.   *)
LEMMA HeadIsNode ==
  ASSUME NEW S, IsFiniteSet(S), NEW q \in DistinctSeqs(S), NEW nil,
         NEW head, NEW nxt, Linked(q, head, nxt, nil)
  PROVE  head # nil => head \in Nodes(q)
<1>1. q \in Seq(S)
  BY DistinctSeqsDef
<1>2. q # <<>> => 1 \in DOMAIN q
  BY <1>1
<1> QED
  BY <1>2 DEF Linked, Nodes

LEMMA NextIsNode ==
  ASSUME NEW S, IsFiniteSet(S), NEW q \in DistinctSeqs(S), NEW nil, nil \notin S,
         NEW head, NEW nxt, Linked(q, head, nxt, nil), NEW x \in Nodes(q)
  PROVE  /\ x \in S
         /\ nxt[x] # nil => nxt[x] \in Nodes(q)
         /\ nxt[x] = nil => EndsAt(q, x)
<1>1. q \in Seq(S) /\ Len(q) \in Nat /\ DOMAIN q = 1..Len(q)
  BY DistinctSeqsDef
<1>2. PICK i \in 1..Len(q) : x = q[i]
  BY <1>1 DEF Nodes
<1>3. nxt[x] = IF i = Len(q) THEN nil ELSE q[i + 1]
  BY <1>1, <1>2 DEF Linked
<1>4. CASE i = Len(q)
  BY <1>1, <1>2, <1>3, <1>4 DEF EndsAt
<1>5. CASE i # Len(q)
  <2>0. Len(q) \in Nat
    BY <1>1
  <2>1. i + 1 \in 1..Len(q)
    BY <2>0, <1>5
  <2>2. q[i + 1] \in S /\ q[i + 1] \in Nodes(q) /\ x \in S
    BY <1>1, <1>2, <2>1 DEF Nodes
  <2> QED
    BY <1>3, <1>5, <2>2
<1> QED
  BY <1>4, <1>5

-----------------------------------------------------------------------------
(* A scan of the list of all nodes that stands at one of them and has left *)
(* every earlier one done.                                                 *)
ScannedUpTo(S, head, nxt, nil, all, at, done) ==
  \E q \in DistinctSeqs(S) :
    /\ Linked(q, head, nxt, nil)
    /\ Nodes(q) = all
    /\ \E i \in 1..Len(q) : at = q[i] /\ \A j \in 1..(i - 1) : q[j] \in done

LEMMA ScanStarts ==
  ASSUME NEW S, IsFiniteSet(S), NEW q \in DistinctSeqs(S), NEW nil,
         NEW head, head # nil, NEW nxt, Linked(q, head, nxt, nil), NEW done
  PROVE  ScannedUpTo(S, head, nxt, nil, Nodes(q), head, done)
<1>1. q \in Seq(S)
  BY DistinctSeqsDef
<1>2. head = q[1] /\ 1 \in 1..Len(q)
  BY <1>1 DEF Linked
<1>3. \A j \in 1..(1 - 1) : q[j] \in done
  OBVIOUS
<1> QED
  BY <1>2, <1>3 DEF ScannedUpTo

(* One iteration leaves the node it stands on done and moves on ...        *)
LEMMA ScanMoves ==
  ASSUME NEW S, IsFiniteSet(S), NEW nil, nil \notin S, NEW head, NEW nxt, NEW all,
         NEW at, NEW done, ScannedUpTo(S, head, nxt, nil, all, at, done),
         NEW left, at \in left, \A x \in S : x \in done => x \in left,
         nxt[at] # nil
  PROVE  ScannedUpTo(S, head, nxt, nil, all, nxt[at], left)
<1>1. PICK q \in DistinctSeqs(S) :
        /\ Linked(q, head, nxt, nil) /\ Nodes(q) = all
        /\ \E i \in 1..Len(q) : at = q[i] /\ \A j \in 1..(i - 1) : q[j] \in done
  BY DEF ScannedUpTo
<1>2. PICK i \in 1..Len(q) : at = q[i] /\ \A j \in 1..(i - 1) : q[j] \in done
  BY <1>1
<1>3. q \in Seq(S) /\ Len(q) \in Nat /\ DOMAIN q = 1..Len(q)
  BY DistinctSeqsDef
<1>4. nxt[at] = IF i = Len(q) THEN nil ELSE q[i + 1]
  BY <1>1, <1>2, <1>3 DEF Linked
<1>5. i + 1 \in 1..Len(q) /\ nxt[at] = q[i + 1]
  <2>1. Len(q) \in Nat /\ i # Len(q)
    BY <1>3, <1>4
  <2> QED
    BY <1>4, <2>1
<1>6. \A j \in 1..(i + 1 - 1) : q[j] \in left
  <2>1. ASSUME NEW j \in 1..(i + 1 - 1) PROVE q[j] \in left
    <3>1. j \in 1..Len(q) /\ (j \in 1..(i - 1) \/ j = i)
      BY <1>3
    <3>2. q[j] \in S
      BY <1>3, <3>1
    <3> QED
      BY <1>2, <3>1, <3>2
  <2> QED
    BY <2>1
<1> QED
  BY <1>1, <1>5, <1>6 DEF ScannedUpTo

(* ... and when there is no further node it has left all of them done.     *)
LEMMA ScanEnds ==
  ASSUME NEW S, IsFiniteSet(S), NEW nil, nil \notin S, NEW head, NEW nxt, NEW all,
         NEW at, NEW done, ScannedUpTo(S, head, nxt, nil, all, at, done),
         NEW left, at \in left, \A x \in S : x \in done => x \in left,
         nxt[at] = nil
  PROVE  \A x \in all : x \in left
<1>1. PICK q \in DistinctSeqs(S) :
        /\ Linked(q, head, nxt, nil) /\ Nodes(q) = all
        /\ \E i \in 1..Len(q) : at = q[i] /\ \A j \in 1..(i - 1) : q[j] \in done
  BY DEF ScannedUpTo
<1>2. PICK i \in 1..Len(q) : at = q[i] /\ \A j \in 1..(i - 1) : q[j] \in done
  BY <1>1
<1>3. q \in Seq(S) /\ Len(q) \in Nat /\ DOMAIN q = 1..Len(q)
  BY DistinctSeqsDef
<1>4. nxt[at] = IF i = Len(q) THEN nil ELSE q[i + 1]
  BY <1>1, <1>2, <1>3 DEF Linked
<1>5. i = Len(q)
  <2>1. ASSUME i # Len(q) PROVE FALSE
    <3>1. Len(q) \in Nat /\ q[i + 1] = nil
      BY <1>3, <1>4, <2>1
    <3>2. i + 1 \in 1..Len(q)
      BY <2>1, <3>1
    <3> QED
      BY <1>3, <3>1, <3>2
  <2> QED
    BY <2>1
<1>6. ASSUME NEW j \in 1..Len(q) PROVE q[j] \in left
  <2>1. Len(q) \in Nat /\ q[j] \in S
    BY <1>3
  <2>2. j \in 1..(i - 1) \/ j = i
    BY <1>5, <2>1
  <2> QED
    BY <1>2, <2>1, <2>2
<1> QED
  BY <1>1, <1>3, <1>6 DEF Nodes
=============================================================================
